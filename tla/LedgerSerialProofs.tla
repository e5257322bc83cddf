-------------------------- MODULE LedgerSerialProofs --------------------------
(***************************************************************************)
(* Proofs about the ledger with handlers that run one at a time, for every *)
(* set of bills and payments, every number of processes and every calendar,*)
(* restarts included: what a handler has loaded is still so when it        *)
(* commits, hence the ledger implements BillContract.                      *)
(***************************************************************************)
EXTENDS LedgerProofs

\* Handlers run one at a time.
OneThread == \A t, u \in Threads : t = u

\* What the running handler has loaded is what the tables say.
LoadedIsCurrent ==
    \A t \in Threads :
      /\ thread[t].op \in {"initiate", "offline", "waive", "cancel"} =>
           bill[thread[t].bill].status \in PayableStatuses
      /\ thread[t].op \in {"confirm", "settle"} =>
           payment[thread[t].payment].status = "initiated"
      /\ thread[t].op = "settle" =>
           thread[t].seen = bill[payment[thread[t].payment].bill].status
      /\ thread[t].op = "charge" =>
           bill[thread[t].bill].status = "overdue" /\ UniqueFine(thread[t].bill)
      /\ thread[t].op = "remind" =>
           job[t].kind = "reminder" /\ reminders[thread[t].bill] = 0

\* So is the list of the running job, and no request is served meanwhile.
ListIsCurrent ==
    \A t \in Threads :
      /\ job[t].kind = "due" => \A b \in job[t].todo : bill[b].status = "issued"
      /\ job[t].kind = "fine" => \A b \in job[t].todo : bill[b].status = "overdue"
      /\ job[t].kind # "none" => thread[t].op \in {"idle", "report", "charge", "remind"}

ReceiptsAreFinite == \A b \in Bills : IsFiniteSet(Receipts(b))

\* The resident is told after the bill has left ISSUED, and not before.
OverdueToldAfterwards ==
    /\ \A b \in Bills : bill[b].status = "issued" => log[b]["notify.overdue"] = 0
    /\ \A t \in Threads :
         thread[t].op = "report" =>
           /\ thread[t].rows \in ToReport
           /\ thread[t].rows \in {OverdueRows, ToldNext} =>
                /\ bill[thread[t].bill].status # "issued"
                /\ log[thread[t].bill]["notify.overdue"] = 0

Serial ==
    /\ LoadedIsCurrent
    /\ ListIsCurrent
    /\ ReceiptsAreFinite
    /\ PaidIffReceipt
    /\ OverdueToldAfterwards
    /\ NoticesAreNotRepeated

SInv == IInv /\ Serial

-----------------------------------------------------------------------------
(* Steps that change no table.                                             *)

\* The thread that takes a step is the only one.
LEMMA OnlyThread ==
    ASSUME OneThread, TypeOK, NEW t \in Threads, NEW x,
           thread' = [thread EXCEPT ![t] = x]
    PROVE  \A u \in Threads : u = t /\ thread'[u] = x
BY DEF OneThread, TypeOK

LEMMA TablesKept ==
    ASSUME Serial, UNCHANGED <<bill, payment, log, reminders>>
    PROVE  (ReceiptsAreFinite /\ PaidIffReceipt /\ NoticesAreNotRepeated)'
<1>1. \A b \in Bills : Receipts(b)' = Receipts(b)
  BY DEF Receipts
<1>2. QED
  BY <1>1 DEF Serial, ReceiptsAreFinite, PaidIffReceipt, NoticesAreNotRepeated

\* A request begins with what it has just read.
LEMMA BeginSerial ==
    ASSUME SInv, OneThread, NEW t \in Threads, NEW op, Start(t, op),
           op.op \in {"initiate", "offline", "waive", "cancel", "confirm"},
           op.op \in {"initiate", "offline", "waive", "cancel"} =>
             bill[op.bill].status \in PayableStatuses,
           op.op = "confirm" => payment[op.payment].status = "initiated"
    PROVE  Serial'
<1>1. \A u \in Threads : u = t /\ thread'[u] = op
  BY OnlyThread DEF SInv, IInv, Start
<1>2. /\ UNCHANGED <<bill, payment, log, reminders, fineDays, today, job>>
      /\ job[t] = NoJob
  BY DEF Start, tables, IsFree
<1>3. LoadedIsCurrent'
  BY <1>1, <1>2 DEF LoadedIsCurrent
<1>4. ListIsCurrent'
  BY <1>1, <1>2 DEF ListIsCurrent, NoJob
<1>5. OverdueToldAfterwards'
  BY <1>1, <1>2 DEF OverdueToldAfterwards, SInv, Serial
<1>6. QED  BY <1>2, <1>3, <1>4, <1>5, TablesKept DEF SInv, Serial

LEMMA RequestSerial ==
    ASSUME SInv, OneThread, NEW t \in Threads, RequestStep(t)
    PROVE  Serial'
<1>1. ASSUME NEW b \in Bills, BeginInitiate(t, b) PROVE Serial'
  BY <1>1, BeginSerial DEF BeginInitiate
<1>2. ASSUME NEW b \in Bills, BeginOffline(t, b) PROVE Serial'
  BY <1>2, BeginSerial DEF BeginOffline
<1>3. ASSUME NEW b \in Bills, BeginWaive(t, b) PROVE Serial'
  BY <1>3, BeginSerial DEF BeginWaive, ReleasableStatuses, PayableStatuses
<1>4. ASSUME NEW b \in Bills, BeginCancel(t, b) PROVE Serial'
  BY <1>4, BeginSerial DEF BeginCancel, ReleasableStatuses, PayableStatuses
<1>5. ASSUME NEW p \in Payments, NEW ok \in BOOLEAN, BeginConfirm(t, p, ok)
      PROVE  Serial'
  BY <1>5, BeginSerial DEF BeginConfirm, Confirmable
<1>6. QED  BY <1>1, <1>2, <1>3, <1>4, <1>5 DEF RequestStep

-----------------------------------------------------------------------------
(* Steps of payments.                                                      *)

\* What becomes of the receipts when payment p does.
LEMMA ReceiptsKept ==
    ASSUME TypeOK, NEW p \in Payments, NEW x,
           payment' = [payment EXCEPT ![p] = x],
           payment[p].status # "success", x.status # "success"
    PROVE  \A b \in Bills : Receipts(b)' = Receipts(b)
BY DEF TypeOK, Receipts

LEMMA ReceiptAdded ==
    ASSUME TypeOK, NEW p \in Payments, NEW x,
           payment' = [payment EXCEPT ![p] = x],
           payment[p].status # "success", x.status = "success"
    PROVE  \A b \in Bills :
             /\ b = x.bill => Receipts(b)' = Receipts(b) \cup {p} /\ p \notin Receipts(b)
             /\ b # x.bill => Receipts(b)' = Receipts(b)
BY DEF TypeOK, Receipts

\* A thread that has committed a request goes on to report it.
LEMMA ReportNext ==
    ASSUME SInv, OneThread, NEW t \in Threads, NEW b, NEW rows \in ToReport,
           job[t].kind = "none", UNCHANGED <<job, log, reminders>>,
           ThenReport(t, b, rows), rows \notin {OverdueRows, ToldNext},
           \A c \in Bills : bill'[c].status = "issued" => bill[c].status = "issued"
    PROVE  (LoadedIsCurrent /\ ListIsCurrent /\ OverdueToldAfterwards /\ NoticesAreNotRepeated)'
<1>1. \A u \in Threads :
        u = t /\ thread'[u] = [op |-> "report", bill |-> b, rows |-> rows]
  BY OnlyThread DEF SInv, IInv, ThenReport
<1>2. LoadedIsCurrent' /\ ListIsCurrent'
  BY <1>1 DEF LoadedIsCurrent, ListIsCurrent
<1>3. OverdueToldAfterwards' /\ NoticesAreNotRepeated'
  BY <1>1 DEF OverdueToldAfterwards, NoticesAreNotRepeated, SInv, Serial
<1>4. QED  BY <1>2, <1>3

LEMMA ShortReports ==
    /\ {<<"payment.initiate">>, <<"payment.confirm">>, <<"payment.mark_offline">>,
        <<"bill.waive">>, <<"bill.cancel">>} \subseteq ToReport \ {OverdueRows, ToldNext}
BY DEF ToReport, OverdueRows, ToldNext

\* While a request is served no job is under way.
LEMMA NoJobMeanwhile ==
    ASSUME SInv, NEW t \in Threads,
           thread[t].op \in {"initiate", "offline", "waive", "cancel", "confirm", "settle"}
    PROVE  job[t].kind = "none"
BY DEF SInv, Serial, ListIsCurrent

LEMMA InitiateSerial ==
    ASSUME SInv, OneThread, NEW t \in Threads, FinishInitiate(t)
    PROVE  Serial'
<1> DEFINE row(p) == [status |-> "initiated", bill |-> thread[t].bill,
                      amount |-> thread[t].amount]
<1>1. PICK p \in Payments :
        payment[p] = Free /\ payment' = [payment EXCEPT ![p] = row(p)]
  BY DEF FinishInitiate, NewPayment
<1>2. \A b \in Bills : Receipts(b)' = Receipts(b)
  <2>1. TypeOK /\ payment[p].status # "success" /\ row(p).status # "success"
    BY <1>1 DEF SInv, IInv, Free
  <2> HIDE DEF row
  <2>2. QED  BY <1>1, <2>1, ReceiptsKept
<1>3. (LoadedIsCurrent /\ ListIsCurrent /\ OverdueToldAfterwards /\ NoticesAreNotRepeated)'
  BY ReportNext, ShortReports, NoJobMeanwhile DEF FinishInitiate
<1>4. (ReceiptsAreFinite /\ PaidIffReceipt)'
  BY <1>2 DEF FinishInitiate, SInv, Serial, ReceiptsAreFinite, PaidIffReceipt
<1>5. QED  BY <1>3, <1>4 DEF Serial

LEMMA OfflineSerial ==
    ASSUME SInv, OneThread, NEW t \in Threads, FinishOffline(t)
    PROVE  Serial'
<1> DEFINE c == thread[t].bill
           row(p) == [status |-> "success", bill |-> c, amount |-> thread[t].amount]
<1>1. PICK p \in Payments :
        payment[p] = Free /\ payment' = [payment EXCEPT ![p] = row(p)]
  BY DEF FinishOffline, NewPayment
<1>2. c \in Bills
  BY OperationFields DEF FinishOffline, SInv, IInv, TypeOK
<1>3. \A b \in Bills :
        Receipts(b)' = IF b = c THEN Receipts(b) \cup {p} ELSE Receipts(b)
  <2>1. /\ TypeOK /\ payment[p].status # "success"
        /\ row(p).status = "success" /\ row(p).bill = c
    BY <1>1 DEF SInv, IInv, Free
  <2> HIDE DEF row
  <2>2. QED  BY <1>1, <2>1, ReceiptAdded
<1>4. \A b \in Bills : bill'[b].status = IF b = c THEN "paid" ELSE bill[b].status
  <2>1. TypeOK /\ MarkBillPaid(c)
    BY DEF FinishOffline, SInv, IInv
  <2> HIDE DEF c
  <2>2. QED  BY <1>2, <2>1, MarkPaidEffect
<1>5. (LoadedIsCurrent /\ ListIsCurrent /\ OverdueToldAfterwards /\ NoticesAreNotRepeated)'
  BY <1>4, ReportNext, ShortReports, NoJobMeanwhile DEF FinishOffline
<1>6. (ReceiptsAreFinite /\ PaidIffReceipt)'
  <2>1. \A b \in Bills : IsFiniteSet(Receipts(b)) /\ IsFiniteSet(Receipts(b) \cup {p})
    BY FS_AddElement DEF SInv, Serial, ReceiptsAreFinite
  <2>2. QED  BY <1>3, <1>4, <2>1 DEF SInv, Serial, ReceiptsAreFinite, PaidIffReceipt
<1>7. QED  BY <1>5, <1>6 DEF Serial

\* A payment that is being confirmed, and its bill.
LEMMA Confirming ==
    ASSUME SInv, NEW t \in Threads, thread[t].op \in {"confirm", "settle"}
    PROVE  /\ thread[t].payment \in Payments
           /\ payment[thread[t].payment].status = "initiated"
           /\ payment[thread[t].payment].bill \in Bills
<1>1. thread[t].payment \in Payments
  BY OperationFields DEF SInv, IInv, TypeOK
<1>2. payment[thread[t].payment].status = "initiated"
  BY DEF SInv, Serial, LoadedIsCurrent
<1>3. QED  BY <1>1, <1>2, PaymentFields DEF SInv, IInv, TypeOK

LEMMA FailSerial ==
    ASSUME SInv, OneThread, NEW t \in Threads, FailConfirm(t)
    PROVE  Serial'
<1> DEFINE p == thread[t].payment
           failed == [payment[p] EXCEPT !.status = "failed"]
<1>1. p \in Payments /\ payment[p].status = "initiated"
  BY Confirming DEF FailConfirm
<1>2. payment' = [payment EXCEPT ![p] = failed]
  BY DEF FailConfirm
<1>3. failed.status = "failed"
  BY <1>1, PaymentFields DEF SInv, IInv, TypeOK
<1>4. \A b \in Bills : Receipts(b)' = Receipts(b)
  BY <1>1, <1>2, <1>3, ReceiptsKept DEF SInv, IInv
<1>5. (LoadedIsCurrent /\ ListIsCurrent /\ OverdueToldAfterwards /\ NoticesAreNotRepeated)'
  BY ReportNext, ShortReports, NoJobMeanwhile DEF FailConfirm
<1>6. (ReceiptsAreFinite /\ PaidIffReceipt)'
  BY <1>4 DEF FailConfirm, SInv, Serial, ReceiptsAreFinite, PaidIffReceipt
<1>7. QED  BY <1>5, <1>6 DEF Serial

LEMMA LoadBillSerial ==
    ASSUME SInv, OneThread, NEW t \in Threads, LoadConfirmedBill(t)
    PROVE  Serial'
<1> DEFINE p == thread[t].payment
           settle == [op |-> "settle", payment |-> p, seen |-> bill[payment[p].bill].status]
<1>1. \A u \in Threads : u = t /\ thread'[u] = settle
  <2>1. TypeOK /\ thread' = [thread EXCEPT ![t] = settle]
    BY DEF LoadConfirmedBill, SInv, IInv
  <2> HIDE DEF settle
  <2>2. QED  BY <2>1, OnlyThread
<1>2. UNCHANGED <<bill, payment, log, reminders, fineDays, today, job>>
  BY DEF LoadConfirmedBill, tables
<1>3. job[t].kind = "none" /\ payment[p].status = "initiated"
  BY NoJobMeanwhile, Confirming DEF LoadConfirmedBill
<1>4. LoadedIsCurrent' /\ ListIsCurrent'
  BY <1>1, <1>2, <1>3 DEF LoadedIsCurrent, ListIsCurrent
<1>5. OverdueToldAfterwards'
  BY <1>1, <1>2 DEF OverdueToldAfterwards, SInv, Serial
<1>6. QED  BY <1>2, <1>4, <1>5, TablesKept DEF SInv, Serial

\* A bill that was loaded as paid is paid, hence is so afterwards, written or not.
LEMMA ConfirmEffect ==
    ASSUME SInv, NEW t \in Threads, FinishConfirm(t)
    PROVE  LET p == thread[t].payment
               c == payment[p].bill
           IN  /\ p \in Payments /\ c \in Bills
               /\ \A b \in Bills :
                    /\ bill'[b].status = IF b = c THEN "paid" ELSE bill[b].status
                    /\ bill'[b].total = bill[b].total
                    /\ Receipts(b)' = IF b = c THEN Receipts(b) \cup {p} ELSE Receipts(b)
               /\ p \notin Receipts(c)
<1> DEFINE p == thread[t].payment
           c == payment[p].bill
           success == [payment[p] EXCEPT !.status = "success"]
<1>1. p \in Payments /\ payment[p].status = "initiated" /\ c \in Bills
  BY Confirming DEF FinishConfirm
<1>2. payment' = [payment EXCEPT ![p] = success]
  BY DEF FinishConfirm
<1>3. success.status = "success" /\ success.bill = c
  BY <1>1, PaymentFields DEF SInv, IInv, TypeOK
<1>4. \A b \in Bills :
        /\ Receipts(b)' = IF b = c THEN Receipts(b) \cup {p} ELSE Receipts(b)
        /\ b = c => p \notin Receipts(b)
  <2>1. TypeOK /\ payment[p].status # "success"
    BY <1>1 DEF SInv, IInv
  <2> HIDE DEF success
  <2>2. QED  BY <1>1, <1>2, <1>3, <2>1, ReceiptAdded
<1>5. \A b \in Bills : /\ bill'[b].status = IF b = c THEN "paid" ELSE bill[b].status
                       /\ bill'[b].total = bill[b].total
  <2>1. TypeOK /\ (bill' = [bill EXCEPT ![c].paid = today] \/ MarkBillPaid(c))
    BY DEF FinishConfirm, SInv, IInv
  <2>2. bill[c].status = "paid" \/ MarkBillPaid(c)
    BY DEF FinishConfirm, SInv, Serial, LoadedIsCurrent
  <2> HIDE DEF c
  <2>3. QED  BY <1>1, <2>1, <2>2, MarkPaidEffect
<1>6. QED  BY <1>1, <1>4, <1>5

LEMMA ConfirmSerial ==
    ASSUME SInv, OneThread, NEW t \in Threads, FinishConfirm(t)
    PROVE  Serial'
<1> DEFINE p == thread[t].payment
           c == payment[p].bill
<1>1. \A b \in Bills :
        /\ bill'[b].status = IF b = c THEN "paid" ELSE bill[b].status
        /\ Receipts(b)' = IF b = c THEN Receipts(b) \cup {p} ELSE Receipts(b)
  BY ConfirmEffect
<1>2. (LoadedIsCurrent /\ ListIsCurrent /\ OverdueToldAfterwards /\ NoticesAreNotRepeated)'
  BY <1>1, ReportNext, ShortReports, NoJobMeanwhile DEF FinishConfirm
<1>3. (ReceiptsAreFinite /\ PaidIffReceipt)'
  <2>1. \A b \in Bills : IsFiniteSet(Receipts(b)) /\ IsFiniteSet(Receipts(b) \cup {p})
    BY FS_AddElement DEF SInv, Serial, ReceiptsAreFinite
  <2>2. QED  BY <1>1, <2>1 DEF SInv, Serial, ReceiptsAreFinite, PaidIffReceipt
<1>4. QED  BY <1>2, <1>3 DEF Serial

\* Releasing an unpaid bill.
LEMMA ReleaseSerial ==
    ASSUME SInv, OneThread, NEW t \in Threads, FinishWaive(t) \/ FinishCancel(t)
    PROVE  Serial'
<1> DEFINE c == thread[t].bill
<1>1. c \in Bills /\ bill[c].status \in PayableStatuses
  BY OperationFields
     DEF FinishWaive, FinishCancel, SInv, IInv, TypeOK, Serial, LoadedIsCurrent
<1>2. \A b \in Bills :
        /\ b # c => bill'[b].status = bill[b].status
        /\ b = c => bill'[b].status \in {"waived", "cancelled"}
  BY <1>1, SetStatusEffect DEF FinishWaive, FinishCancel, SInv, IInv
<1>3. \A b \in Bills : Receipts(b)' = Receipts(b)
  BY DEF FinishWaive, FinishCancel, Receipts
<1>4. (LoadedIsCurrent /\ ListIsCurrent /\ OverdueToldAfterwards /\ NoticesAreNotRepeated)'
  BY <1>2, ReportNext, ShortReports, NoJobMeanwhile DEF FinishWaive, FinishCancel
<1>5. (ReceiptsAreFinite /\ PaidIffReceipt)'
  BY <1>1, <1>2, <1>3
     DEF SInv, Serial, ReceiptsAreFinite, PaidIffReceipt, PayableStatuses
<1>6. QED  BY <1>4, <1>5 DEF Serial

-----------------------------------------------------------------------------
(* Reports, and the steps of the jobs.                                     *)

LEMMA ReportSerial ==
    ASSUME SInv, OneThread, NEW t \in Threads, Report(t)
    PROVE  Serial'
<1> DEFINE c == thread[t].bill
           rows == thread[t].rows
           rest == [op |-> "report", bill |-> c, rows |-> Tail(rows)]
           next == IF Tail(rows) = <<>> THEN Idle ELSE rest
<1>1. /\ c \in Bills /\ rows \in ToReport /\ rows \in Seq(Effects)
      /\ thread[t] = [op |-> "report", bill |-> c, rows |-> rows]
  BY OperationFields
     DEF Report, SInv, IInv, TypeOK, Serial, OverdueToldAfterwards
<1>2. \A u \in Threads : u = t /\ thread'[u] = next
  <2>1. [thread[t] EXCEPT !.rows = Tail(rows)] = rest
    BY RestOfReport DEF Report, SInv, IInv, TypeOK
  <2>2. TypeOK /\ thread' = [thread EXCEPT ![t] = next]
    BY <2>1 DEF Report, SInv, IInv
  <2> HIDE DEF next
  <2>3. QED  BY <2>2, OnlyThread
<1>3. UNCHANGED <<bill, payment, reminders, fineDays, today, job>>
  BY DEF Report, tables
<1>4. \A b \in Bills :
        log'[b]["notify.overdue"] =
          IF b = c /\ Head(rows) = "notify.overdue" THEN log[b]["notify.overdue"] + 1
                                                  ELSE log[b]["notify.overdue"]
  <2>1. Head(rows) \in Effects
    BY <1>1 DEF ToReport, OverdueRows, ToldNext, FineRows, Effects
  <2>2. log' = [log EXCEPT ![c][Head(rows)] = @ + 1]
    BY DEF Report
  <2>3. log \in [Bills -> [Effects -> Nat]] /\ "notify.overdue" \in Effects
    BY DEF SInv, IInv, TypeOK, Effects
  <2>4. QED  BY <1>1, <2>1, <2>2, <2>3
<1>5. LoadedIsCurrent' /\ ListIsCurrent'
  BY <1>2, <1>3 DEF LoadedIsCurrent, ListIsCurrent, Idle, SInv, Serial
<1>6. OverdueToldAfterwards'
  <2>1. \A b \in Bills : bill'[b].status = "issued" => log'[b]["notify.overdue"] = 0
    BY <1>1, <1>3, <1>4, HeadsAndTails DEF SInv, Serial, OverdueToldAfterwards
  <2>2. ASSUME Tail(rows) # <<>>
        PROVE  /\ Tail(rows) \in ToReport
               /\ Tail(rows) \in {OverdueRows, ToldNext} =>
                    bill'[c].status # "issued" /\ log'[c]["notify.overdue"] = 0
    <3>1. /\ Tail(rows) \in ToReport
          /\ Tail(rows) \in {OverdueRows, ToldNext} =>
               rows = OverdueRows /\ Head(rows) # "notify.overdue"
      BY <1>1, <2>2, HeadsAndTails
    <3>2. rows = OverdueRows => bill[c].status # "issued" /\ log[c]["notify.overdue"] = 0
      BY DEF Report, SInv, Serial, OverdueToldAfterwards
    <3>3. Head(rows) # "notify.overdue" => log'[c]["notify.overdue"] = log[c]["notify.overdue"]
      BY <1>1, <1>4
    <3>4. bill' = bill
      BY <1>3
    <3>5. QED  BY <3>1, <3>2, <3>3, <3>4
  <2>3. ASSUME NEW u \in Threads, thread'[u].op = "report"
        PROVE  /\ Tail(rows) # <<>>
               /\ thread'[u].bill = c /\ thread'[u].rows = Tail(rows)
    <3>1. thread'[u] = IF Tail(rows) = <<>> THEN Idle ELSE rest
      BY <1>2
    <3>2. CASE Tail(rows) = <<>>
      <4>1. thread'[u] = Idle
        BY <3>1, <3>2
      <4>2. QED  BY <2>3, <4>1 DEF Idle
    <3>3. CASE Tail(rows) # <<>>
      <4>1. thread'[u] = rest
        BY <3>1, <3>3
      <4>2. QED  BY <3>3, <4>1
    <3>4. QED  BY <3>2, <3>3
  <2>4. QED  BY <2>1, <2>2, <2>3 DEF OverdueToldAfterwards
<1>7. NoticesAreNotRepeated'
  <2>1. \A b \in Bills : log[b]["notify.overdue"] \in Nat
    BY DEF SInv, IInv, TypeOK, Effects
  <2>2. QED
    BY <1>1, <1>3, <1>4, <2>1, HeadsAndTails
       DEF SInv, Serial, OverdueToldAfterwards, NoticesAreNotRepeated
<1>8. (ReceiptsAreFinite /\ PaidIffReceipt)'
  <2>1. \A b \in Bills : Receipts(b)' = Receipts(b)
    BY <1>3 DEF Receipts
  <2>2. QED
    BY <1>3, <2>1 DEF SInv, Serial, ReceiptsAreFinite, PaidIffReceipt
<1>9. QED  BY <1>5, <1>6, <1>7, <1>8 DEF Serial

\* A turn that is skipped leaves a shorter list.
LEMMA ShorterList ==
    ASSUME SInv, NEW t \in Threads, NEW b \in Bills,
           DropTodo(t, b) \/ DropTodoExpired(t, b)
    PROVE  /\ job'[t].kind = job[t].kind
           /\ job'[t].todo = job[t].todo \ {b}
BY DEF DropTodo, DropTodoExpired, SInv, IInv, TypeOK, JobLoop

LEMMA SkipSerial ==
    ASSUME SInv, OneThread, NEW t \in Threads, NEW b \in Bills,
           SkipFined(t, b) \/ SkipReminded(t, b)
    PROVE  Serial'
<1>1. /\ UNCHANGED <<bill, payment, log, reminders, fineDays, today, thread>>
      /\ thread[t] = Idle
  BY DEF SkipFined, SkipReminded, tables, InJob
<1>2. \A u \in Threads : u = t
  BY DEF OneThread
<1>3. job'[t].kind = job[t].kind /\ job'[t].todo \subseteq job[t].todo
  BY ShorterList DEF SkipFined, SkipReminded
<1>4. LoadedIsCurrent' /\ ListIsCurrent' /\ OverdueToldAfterwards'
  BY <1>1, <1>2, <1>3
     DEF LoadedIsCurrent, ListIsCurrent, OverdueToldAfterwards, Idle, SInv, Serial
<1>5. QED  BY <1>1, <1>4, TablesKept DEF SInv, Serial

LEMMA CheckSerial ==
    ASSUME SInv, OneThread, NEW t \in Threads, NEW b \in Bills,
           CheckFine(t, b) \/ CheckReminder(t, b)
    PROVE  Serial'
<1>1. UNCHANGED <<bill, payment, log, reminders, fineDays, today, job>>
  BY DEF CheckFine, CheckReminder, tables
<1>2. /\ \A u \in Threads : u = t
      /\ thread'[t].bill = b
      /\ thread'[t].op \in {"charge", "remind"}
      /\ thread'[t].op = "charge" => CheckFine(t, b)
      /\ thread'[t].op = "remind" => CheckReminder(t, b)
  BY DEF CheckFine, CheckReminder, OneThread, SInv, IInv, TypeOK
<1>3. LoadedIsCurrent'
  BY <1>1, <1>2
     DEF LoadedIsCurrent, CheckFine, CheckReminder, InJob, FinedToday, UniqueFine,
         SInv, Serial, ListIsCurrent
<1>4. ListIsCurrent'
  <2>1. job[t].kind \in {"fine", "reminder"}
    BY DEF CheckFine, CheckReminder, InJob
  <2>2. QED
    BY <1>1, <1>2, <2>1 DEF ListIsCurrent, SInv, Serial
<1>5. OverdueToldAfterwards'
  BY <1>1, <1>2 DEF OverdueToldAfterwards, SInv, Serial
<1>6. QED  BY <1>1, <1>3, <1>4, <1>5, TablesKept DEF SInv, Serial

\* bill_due_date_check marks a bill that is still issued.
LEMMA MarkSerial ==
    ASSUME SInv, OneThread, NEW t \in Threads, NEW c \in Bills, MarkOverdue(t, c)
    PROVE  Serial'
<1>1. \A u \in Threads :
        u = t /\ thread'[u] = [op |-> "report", bill |-> c, rows |-> OverdueRows]
  BY OnlyThread DEF MarkOverdue, ThenReport, SInv, IInv
<1>2. \A b \in Bills : bill'[b].status = IF b = c THEN "overdue" ELSE bill[b].status
  BY SetStatusEffect DEF MarkOverdue, SInv, IInv
<1>3. /\ UNCHANGED <<payment, log, reminders>>
      /\ job[t].kind = "due" /\ c \in job[t].todo /\ bill[c].status = "issued"
  BY DEF MarkOverdue, InJob, SInv, Serial, ListIsCurrent
<1>4. job'[t].kind = "due" /\ job'[t].todo = job[t].todo \ {c}
  BY <1>3, ShorterList DEF MarkOverdue
<1>5. LoadedIsCurrent' /\ ListIsCurrent'
  <2>1. LoadedIsCurrent'
    BY <1>1 DEF LoadedIsCurrent
  <2>2. \A b \in job'[t].todo : bill'[b].status = "issued"
    <3>1. job[t].todo \subseteq Bills /\ \A b \in job[t].todo : bill[b].status = "issued"
      BY <1>3 DEF SInv, IInv, TypeOK, JobLoop, Serial, ListIsCurrent
    <3>2. QED  BY <1>2, <1>4, <3>1
  <2>3. QED  BY <1>1, <1>4, <2>1, <2>2 DEF ListIsCurrent
<1>6. OverdueToldAfterwards' /\ NoticesAreNotRepeated'
  BY <1>1, <1>2, <1>3
     DEF OverdueToldAfterwards, NoticesAreNotRepeated, SInv, Serial, ToReport
<1>7. (ReceiptsAreFinite /\ PaidIffReceipt)'
  <2>1. \A b \in Bills : Receipts(b)' = Receipts(b)
    BY <1>3 DEF Receipts
  <2>2. QED
    BY <1>2, <1>3, <2>1 DEF SInv, Serial, ReceiptsAreFinite, PaidIffReceipt
<1>8. QED  BY <1>5, <1>6, <1>7 DEF Serial

LEMMA ChargeSerial ==
    ASSUME SInv, OneThread, NEW t \in Threads, ChargeFine(t)
    PROVE  Serial'
<1> DEFINE c == thread[t].bill
<1>1. c \in Bills /\ job[t].kind = "fine"
  BY OperationFields DEF ChargeFine, SInv, IInv, TypeOK, ChargesAreListed
<1>2. \A u \in Threads :
        u = t /\ thread'[u] = [op |-> "report", bill |-> c, rows |-> FineRows]
  BY OnlyThread DEF ChargeFine, ThenReport, SInv, IInv
<1>3. \A b \in Bills : bill'[b].status = bill[b].status
  BY DEF ChargeFine, SInv, IInv, TypeOK, Bill
<1>4. job'[t].kind = "fine" /\ job'[t].todo \subseteq job[t].todo
  BY <1>1, ShorterList DEF ChargeFine
<1>5. LoadedIsCurrent' /\ ListIsCurrent'
  <2>1. LoadedIsCurrent'
    BY <1>2 DEF LoadedIsCurrent
  <2>2. \A b \in job'[t].todo : bill'[b].status = "overdue"
    <3>1. job[t].todo \subseteq Bills /\ \A b \in job[t].todo : bill[b].status = "overdue"
      BY <1>1 DEF SInv, IInv, TypeOK, JobLoop, Serial, ListIsCurrent
    <3>2. QED  BY <1>3, <1>4, <3>1
  <2>3. QED  BY <1>2, <1>4, <2>1, <2>2 DEF ListIsCurrent
<1>6. OverdueToldAfterwards' /\ NoticesAreNotRepeated'
  <2>1. FineRows \in ToReport /\ FineRows \notin {OverdueRows, ToldNext}
    BY DEF ToReport, FineRows, OverdueRows, ToldNext
  <2>2. UNCHANGED <<log, reminders>>
    BY DEF ChargeFine
  <2>3. QED
    BY <1>2, <1>3, <2>1, <2>2
       DEF OverdueToldAfterwards, NoticesAreNotRepeated, SInv, Serial
<1>7. (ReceiptsAreFinite /\ PaidIffReceipt)'
  <2>1. \A b \in Bills : Receipts(b)' = Receipts(b)
    BY DEF Receipts, ChargeFine
  <2>2. QED
    BY <1>3, <2>1 DEF SInv, Serial, ReceiptsAreFinite, PaidIffReceipt
<1>8. QED  BY <1>5, <1>6, <1>7 DEF Serial

LEMMA RemindSerial ==
    ASSUME SInv, OneThread, NEW t \in Threads, SendReminder(t)
    PROVE  Serial'
<1> DEFINE c == thread[t].bill
<1>1. c \in Bills /\ reminders[c] = 0 /\ job[t].kind = "reminder"
  BY OperationFields DEF SendReminder, SInv, IInv, TypeOK, Serial, LoadedIsCurrent
<1>2. \A u \in Threads : u = t /\ thread'[u] = Idle
  BY OnlyThread DEF SendReminder, SInv, IInv
<1>3. job'[t].kind = "reminder"
  BY <1>1, ShorterList DEF SendReminder
<1>4. UNCHANGED <<bill, payment, log, fineDays, today>>
  BY DEF SendReminder, tables
<1>5. LoadedIsCurrent' /\ ListIsCurrent' /\ OverdueToldAfterwards'
  BY <1>2, <1>3, <1>4
     DEF LoadedIsCurrent, ListIsCurrent, OverdueToldAfterwards, Idle, SInv, Serial
<1>6. NoticesAreNotRepeated'
  BY <1>1, <1>4 DEF SendReminder, NoticesAreNotRepeated, SInv, Serial, IInv, TypeOK
<1>7. (ReceiptsAreFinite /\ PaidIffReceipt)'
  <2>1. \A b \in Bills : Receipts(b)' = Receipts(b)
    BY <1>4 DEF Receipts
  <2>2. QED
    BY <1>4, <2>1 DEF SInv, Serial, ReceiptsAreFinite, PaidIffReceipt
<1>8. QED  BY <1>5, <1>6, <1>7 DEF Serial

\* A job is over, or cut off with the handler it was in.
LEMMA StopSerial ==
    ASSUME SInv, UNCHANGED <<bill, payment, log, reminders, fineDays, today>>,
           \A u \in Threads : thread'[u] = Idle /\ job'[u].kind = "none"
    PROVE  Serial'
<1>1. LoadedIsCurrent' /\ ListIsCurrent' /\ OverdueToldAfterwards'
  BY DEF LoadedIsCurrent, ListIsCurrent, OverdueToldAfterwards, Idle, SInv, Serial
<1>2. QED  BY <1>1, TablesKept DEF SInv, Serial

LEMMA ContinueSerial ==
    ASSUME SInv, OneThread, NEW t \in Threads, Continue(t)
    PROVE  Serial'
<1>1. CASE ChargeConflict(t) \/ JobDone(t)
  <2>1. UNCHANGED <<bill, payment, log, reminders, fineDays, today>>
    BY <1>1 DEF ChargeConflict, JobDone, tables
  <2>2. \A u \in Threads : thread'[u] = Idle /\ job'[u].kind = "none"
    BY <1>1 DEF ChargeConflict, JobDone, NoJob, OneThread, SInv, IInv, TypeOK
  <2>3. QED  BY <2>1, <2>2, StopSerial
<1>2. QED
  BY <1>1, InitiateSerial, OfflineSerial, FailSerial, LoadBillSerial, ConfirmSerial,
     ReleaseSerial, ReportSerial, SkipSerial, CheckSerial, MarkSerial, ChargeSerial,
     RemindSerial DEF Continue

LEMMA FireSerial ==
    ASSUME SInv, OneThread, NEW t \in Threads, NEW kind \in Jobs, Fire(t, kind)
    PROVE  Serial'
<1>1. /\ UNCHANGED <<bill, payment, log, reminders, fineDays, today, thread>>
      /\ thread[t] = Idle
  BY DEF Fire, tables, IsFree
<1>2. \A u \in Threads :
        u = t /\ job'[u].kind = kind /\ job'[u].todo = Selected(kind)
  BY DEF OneThread, Fire, SInv, IInv, TypeOK
<1>3. ListIsCurrent'
  BY <1>1, <1>2 DEF ListIsCurrent, Selected, Idle
<1>4. LoadedIsCurrent' /\ OverdueToldAfterwards'
  BY <1>1, <1>2 DEF LoadedIsCurrent, OverdueToldAfterwards, Idle, SInv, Serial
<1>5. QED  BY <1>1, <1>3, <1>4, TablesKept DEF SInv, Serial

\* Midnight comes while no job is under way; a request may be.
LEMMA TickSerial ==
    ASSUME SInv, Tick
    PROVE  Serial'
<1>1. /\ UNCHANGED <<bill, payment, fineDays, log, thread, job>>
      /\ \A t \in Threads : job[t].kind = "none"
      /\ reminders' = [b \in Bills |-> 0]
  BY DEF Tick, tables
<1>2. \A t \in Threads : thread[t].op \notin {"charge", "remind"}
  BY <1>1 DEF SInv, IInv, ChargesAreListed, Serial, LoadedIsCurrent
<1>3. LoadedIsCurrent' /\ ListIsCurrent' /\ OverdueToldAfterwards'
  BY <1>1, <1>2
     DEF LoadedIsCurrent, ListIsCurrent, OverdueToldAfterwards, SInv, Serial
<1>4. (ReceiptsAreFinite /\ PaidIffReceipt /\ NoticesAreNotRepeated)'
  <2>1. \A b \in Bills : Receipts(b)' = Receipts(b)
    BY <1>1 DEF Receipts
  <2>2. QED
    BY <1>1, <2>1
       DEF SInv, Serial, ReceiptsAreFinite, PaidIffReceipt, NoticesAreNotRepeated
<1>5. QED  BY <1>3, <1>4 DEF Serial

LEMMA NextSInv ==
    ASSUME OneThread
    PROVE  SInv /\ [Next]_vars => SInv'
<1> SUFFICES ASSUME SInv, [Next]_vars PROVE Serial'
  BY NextIInv DEF SInv
<1>1. CASE Crash
  <2>1. UNCHANGED <<bill, payment, log, reminders, fineDays, today>>
    BY <1>1 DEF Crash, tables
  <2>2. \A u \in Threads : thread'[u] = Idle /\ job'[u].kind = "none"
    BY <1>1 DEF Crash, NoJob
  <2>3. QED  BY <2>1, <2>2, StopSerial
<1>2. CASE UNCHANGED vars
  <2>1. UNCHANGED <<bill, payment, log, reminders, fineDays, today, thread, job>>
    BY <1>2 DEF vars, tables
  <2>2. LoadedIsCurrent' /\ ListIsCurrent' /\ OverdueToldAfterwards'
    BY <2>1 DEF LoadedIsCurrent, ListIsCurrent, OverdueToldAfterwards, UniqueFine,
       SInv, Serial
  <2>3. QED  BY <2>1, <2>2, TablesKept DEF SInv, Serial
<1>3. QED
  BY <1>1, <1>2, RequestSerial, ContinueSerial, FireSerial, TickSerial DEF Next

LEMMA InitSInv == Init => SInv
<1> SUFFICES ASSUME Init PROVE Serial
  BY InitIInv DEF SInv
<1>1. LoadedIsCurrent /\ ListIsCurrent /\ OverdueToldAfterwards
  BY DEF Init, LoadedIsCurrent, ListIsCurrent, OverdueToldAfterwards, Idle, NoJob, Effects
<1>2. \A b \in Bills : Receipts(b) = {}
  BY DEF Init, Receipts, Free
<1>3. ReceiptsAreFinite /\ PaidIffReceipt
  BY <1>2, FS_EmptySet DEF Init, ReceiptsAreFinite, PaidIffReceipt
<1>4. NoticesAreNotRepeated
  BY DEF Init, NoticesAreNotRepeated, Effects
<1>5. QED  BY <1>1, <1>3, <1>4 DEF Serial

-----------------------------------------------------------------------------
(* What follows for the ledger.                                            *)

\* With handlers that run one at a time, what the running handler has loaded,
\* bill, payment and list, is still so when it commits.
THEOREM SerialInvariant == ASSUME OneThread PROVE Spec => []SInv
<1>1. Init => SInv
  BY InitSInv
<1>2. SInv /\ [Next]_vars => SInv'
  BY NextSInv
<1>3. QED  BY <1>1, <1>2, PTL DEF Spec

\* A bill is PAID exactly when one of its payments has succeeded: confirm_payment
\* and mark_paid_offline write the two tables together, and no other handler
\* takes PAID away.
THEOREM PaidBillsHaveReceipts == ASSUME OneThread PROVE Spec => []PaidIffReceipt
<1>1. SInv => PaidIffReceipt
  BY DEF SInv, Serial
<1>2. QED  BY <1>1, SerialInvariant, PTL

\* The resident is told once that a bill is overdue and reminded at most once a
\* day, however many processes fire the jobs and whenever restarts cut them short.
THEOREM NoNoticeTwice == ASSUME OneThread PROVE Spec => []NoticesAreNotRepeated
<1>1. SInv => NoticesAreNotRepeated
  BY DEF SInv, Serial
<1>2. QED  BY <1>1, SerialInvariant, PTL

-----------------------------------------------------------------------------
(* Every step is a step of BillContract, or none of its business.          *)

LEMMA ContractInit == Init => Contract!Init
<1> SUFFICES ASSUME Init PROVE Contract!Init
  OBVIOUS
<1>1. \A b \in Bills : Cardinality(Receipts(b)) = 0
  BY FS_EmptySet DEF Init, Receipts, Free
<1>2. [b \in Bills |-> bill[b].total] = AmountDue
  BY LedgerAssumption DEF Init
<1>3. QED  BY <1>1, <1>2 DEF Init, Contract!Init

\* A payment is received: one more receipt, and the bill is paid.
LEMMA ContractSettle ==
    ASSUME SInv, NEW c \in Bills, NEW p, p \notin Receipts(c),
           UNCHANGED <<today, fineDays>>,
           \A b \in Bills :
             /\ bill'[b].status = IF b = c THEN "paid" ELSE bill[b].status
             /\ bill'[b].total = bill[b].total
             /\ Receipts(b)' = IF b = c THEN Receipts(b) \cup {p} ELSE Receipts(b)
    PROVE  Contract!Settle(c)
<1>1. Cardinality(Receipts(c) \cup {p}) = Cardinality(Receipts(c)) + 1
  BY FS_AddElement DEF SInv, Serial, ReceiptsAreFinite
<1>2. \A b \in Bills :
        Cardinality(Receipts(b))' = IF b = c THEN Cardinality(Receipts(b)) + 1
                                             ELSE Cardinality(Receipts(b))
  BY <1>1
<1>3. QED  BY <1>2 DEF Contract!Settle

\* A step that leaves payments alone leaves receipts alone.
LEMMA SameReceipts ==
    ASSUME UNCHANGED payment
    PROVE  \A b \in Bills : Cardinality(Receipts(b))' = Cardinality(Receipts(b))
<1>1. \A b \in Bills : Receipts(b)' = Receipts(b)
  BY DEF Receipts
<1>2. QED  BY <1>1

LEMMA ContractOffline ==
    ASSUME SInv, NEW t \in Threads, FinishOffline(t)
    PROVE  \E b \in Bills : Contract!Settle(b)
<1>1. PICK c \in Bills : thread[t].bill = c
  BY OperationFields DEF FinishOffline, SInv, IInv, TypeOK
<1> DEFINE row == [status |-> "success", bill |-> c, amount |-> thread[t].amount]
<1>2. PICK p \in Payments :
        payment[p] = Free /\ payment' = [payment EXCEPT ![p] = row]
  BY <1>1 DEF FinishOffline, NewPayment
<1>3. \A b \in Bills :
        /\ Receipts(b)' = IF b = c THEN Receipts(b) \cup {p} ELSE Receipts(b)
        /\ b = c => p \notin Receipts(b)
  <2>1. /\ TypeOK /\ payment[p].status # "success"
        /\ row.status = "success" /\ row.bill = c
    BY <1>2 DEF SInv, IInv, Free
  <2> HIDE DEF row
  <2>2. QED  BY <1>2, <2>1, ReceiptAdded
<1>4. \A b \in Bills : /\ bill'[b].status = IF b = c THEN "paid" ELSE bill[b].status
                       /\ bill'[b].total = bill[b].total
  <2>1. TypeOK /\ MarkBillPaid(c)
    BY <1>1 DEF FinishOffline, SInv, IInv
  <2>2. QED  BY <2>1, MarkPaidEffect
<1>5. UNCHANGED <<today, fineDays>>
  BY DEF FinishOffline
<1>6. Contract!Settle(c)
  BY <1>3, <1>4, <1>5, ContractSettle
<1>7. QED  BY <1>6

LEMMA ContractConfirm ==
    ASSUME SInv, NEW t \in Threads, FinishConfirm(t)
    PROVE  \E b \in Bills : Contract!Settle(b)
<1>1. PICK p \in Payments, c \in Bills :
        /\ \A b \in Bills :
             /\ bill'[b].status = IF b = c THEN "paid" ELSE bill[b].status
             /\ bill'[b].total = bill[b].total
             /\ Receipts(b)' = IF b = c THEN Receipts(b) \cup {p} ELSE Receipts(b)
        /\ p \notin Receipts(c)
  BY ConfirmEffect
<1>2. UNCHANGED <<today, fineDays>>
  BY DEF FinishConfirm
<1>3. Contract!Settle(c)
  BY <1>1, <1>2, ContractSettle
<1>4. QED  BY <1>3

\* The bill of a waiver or a cancellation is still open.
LEMMA ContractRelease ==
    ASSUME SInv, NEW t \in Threads, FinishWaive(t) \/ FinishCancel(t)
    PROVE  \E b \in Bills : Contract!Release(b)
<1>1. PICK c \in Bills : thread[t].bill = c
  BY OperationFields DEF FinishWaive, FinishCancel, SInv, IInv, TypeOK
<1>2. bill[c].status \in {"issued", "overdue"}
  BY <1>1 DEF FinishWaive, FinishCancel, SInv, Serial, LoadedIsCurrent, PayableStatuses
<1>3. PICK s \in {"waived", "cancelled"} : SetStatus(c, s)
  BY <1>1 DEF FinishWaive, FinishCancel
<1>4. \A b \in Bills : /\ bill'[b].status = IF b = c THEN s ELSE bill[b].status
                       /\ bill'[b].total = bill[b].total
  BY <1>3, SetStatusEffect DEF SInv, IInv
<1>5. UNCHANGED <<today, fineDays, payment>>
  BY DEF FinishWaive, FinishCancel
<1>6. \A b \in Bills : Cardinality(Receipts(b))' = Cardinality(Receipts(b))
  BY <1>5, SameReceipts
<1>7. Contract!Release(c)
  BY <1>2, <1>4, <1>5, <1>6 DEF Contract!Release, Contract!Open
<1>8. QED  BY <1>7

\* The due-date job works on bills that are still issued, past their due date.
LEMMA ContractOverdue ==
    ASSUME SInv, NEW t \in Threads, NEW c \in Bills, MarkOverdue(t, c)
    PROVE  Contract!FallOverdue(c)
<1>1. bill[c].status = "issued" /\ DueDay[c] < today
  BY DEF MarkOverdue, InJob, SInv, Serial, ListIsCurrent, IInv, OverdueArePastDue,
         PastDue
<1>2. \A b \in Bills :
        /\ bill'[b].status = IF b = c THEN "overdue" ELSE bill[b].status
        /\ bill'[b].total = bill[b].total
  BY SetStatusEffect DEF MarkOverdue, SInv, IInv
<1>3. UNCHANGED <<today, fineDays, payment>>
  BY DEF MarkOverdue
<1>4. \A b \in Bills : Cardinality(Receipts(b))' = Cardinality(Receipts(b))
  BY <1>3, SameReceipts
<1>5. QED  BY <1>1, <1>2, <1>3, <1>4 DEF Contract!FallOverdue

\* The fine that is added to is the bill's own, and today's is not among its dates.
LEMMA ContractFine ==
    ASSUME SInv, NEW t \in Threads, ChargeFine(t)
    PROVE  \E b \in Bills : Contract!AddFine(b)
<1>1. PICK c \in Bills : thread[t].bill = c
  BY OperationFields DEF ChargeFine, SInv, IInv, TypeOK
<1> DEFINE fine == thread[t].base + FinePerDay
<1>2. bill[c].status = "overdue" /\ today \notin fineDays[c]
  BY <1>1 DEF ChargeFine, SInv, Serial, LoadedIsCurrent, UniqueFine
<1>3. thread[t].base = bill[c].fine /\ bill[c].total = AmountDue[c] + bill[c].fine
  BY <1>1 DEF ChargeFine, SInv, IInv, HeldFinesAreCurrent, FineLedger
<1>4. FinePerDay \in Int /\ AmountDue[c] \in Int /\ bill[c].fine \in Int
  BY LedgerAssumption DEF SInv, IInv, TypeOK, Bill
<1>5. \A b \in Bills :
        /\ bill'[b].status = bill[b].status
        /\ bill'[b].total = IF b = c THEN NewTotal(c, fine) ELSE bill[b].total
  BY <1>1 DEF ChargeFine, SInv, IInv, TypeOK, Bill
<1>6. NewTotal(c, fine) = bill[c].total + FinePerDay
  BY <1>3, <1>4 DEF NewTotal
<1>7. /\ UNCHANGED <<today, payment>>
      /\ fineDays' = [fineDays EXCEPT ![c] = @ \cup {today}]
  BY <1>1 DEF ChargeFine
<1>8. \A b \in Bills : Cardinality(Receipts(b))' = Cardinality(Receipts(b))
  BY <1>7, SameReceipts
<1>9. Contract!AddFine(c)
  <2>1. \A b \in Bills :
          bill'[b].total = IF b = c THEN bill[c].total + FinePerDay ELSE bill[b].total
    BY <1>5, <1>6
  <2>2. QED  BY <1>2, <1>5, <1>7, <1>8, <2>1 DEF Contract!AddFine
<1>10. QED  BY <1>9

\* Steps that write no bill, no fine and no successful payment.
LEMMA ContractStutter ==
    ASSUME UNCHANGED <<today, bill, fineDays>>,
           \A b \in Bills : Receipts(b)' = Receipts(b)
    PROVE  UNCHANGED Contract!vars
BY DEF Contract!vars

LEMMA ContractInitiate ==
    ASSUME SInv, NEW t \in Threads, FinishInitiate(t)
    PROVE  UNCHANGED Contract!vars
<1> DEFINE row == [status |-> "initiated", bill |-> thread[t].bill,
                   amount |-> thread[t].amount]
<1>1. PICK p \in Payments :
        payment[p] = Free /\ payment' = [payment EXCEPT ![p] = row]
  BY DEF FinishInitiate, NewPayment
<1>2. TypeOK /\ payment[p].status # "success" /\ row.status # "success"
  BY <1>1 DEF SInv, IInv, Free
<1> HIDE DEF row
<1>3. \A b \in Bills : Receipts(b)' = Receipts(b)
  BY <1>1, <1>2, ReceiptsKept
<1>4. QED  BY <1>3, ContractStutter DEF FinishInitiate

LEMMA ContractFail ==
    ASSUME SInv, NEW t \in Threads, FailConfirm(t)
    PROVE  UNCHANGED Contract!vars
<1> DEFINE p == thread[t].payment
           failed == [payment[p] EXCEPT !.status = "failed"]
<1>1. p \in Payments /\ payment[p].status = "initiated"
  BY Confirming DEF FailConfirm
<1>2. payment' = [payment EXCEPT ![p] = failed]
  BY DEF FailConfirm
<1>3. failed.status = "failed"
  BY <1>1, PaymentFields DEF SInv, IInv, TypeOK
<1>4. \A b \in Bills : Receipts(b)' = Receipts(b)
  BY <1>1, <1>2, <1>3, ReceiptsKept DEF SInv, IInv
<1>5. QED  BY <1>4, ContractStutter DEF FailConfirm

LEMMA ContractStep ==
    SInv /\ [Next]_vars => [Contract!Next]_(Contract!vars)
<1> SUFFICES ASSUME SInv, [Next]_vars
             PROVE  Contract!Next \/ UNCHANGED Contract!vars
  OBVIOUS
<1>1. ASSUME UNCHANGED tables, UNCHANGED today
      PROVE  UNCHANGED Contract!vars
  <2>1. \A b \in Bills : Receipts(b)' = Receipts(b)
    BY <1>1 DEF Receipts, tables
  <2>2. QED  BY <1>1, <2>1, ContractStutter DEF tables
<1>2. ASSUME NEW t \in Threads, RequestStep(t)
      PROVE  UNCHANGED Contract!vars
  BY <1>1, <1>2 DEF RequestStep, BeginInitiate, BeginOffline, BeginWaive, BeginCancel,
     BeginConfirm, Start
<1>3. ASSUME NEW t \in Threads, Continue(t)
      PROVE  Contract!Next \/ UNCHANGED Contract!vars
  <2>1. \/ FinishInitiate(t) \/ FailConfirm(t) \/ FinishOffline(t)
        \/ FinishConfirm(t) \/ FinishWaive(t) \/ FinishCancel(t) \/ ChargeFine(t)
        \/ \E b \in Bills : MarkOverdue(t, b)
        \/ UNCHANGED tables /\ UNCHANGED today
    BY <1>3 DEF Continue, LoadConfirmedBill, Report, SkipFined, CheckFine, SkipReminded,
       CheckReminder, ChargeConflict, SendReminder, JobDone
  <2>2. QED
    BY <1>1, <2>1, ContractInitiate, ContractFail, ContractOffline, ContractConfirm,
       ContractRelease, ContractFine, ContractOverdue DEF Contract!Next
<1>4. CASE Tick
  <2>1. UNCHANGED tables /\ today' = today + 1
    BY <1>4 DEF Tick
  <2>2. \A b \in Bills : Cardinality(Receipts(b))' = Cardinality(Receipts(b))
    BY <2>1, SameReceipts DEF tables
  <2>3. Contract!NextDay
    BY <2>1, <2>2 DEF Contract!NextDay, tables
  <2>4. QED  BY <2>3 DEF Contract!Next
<1>5. (\/ \E t \in Threads, kind \in Jobs : Fire(t, kind)
       \/ Crash \/ UNCHANGED vars) => UNCHANGED tables /\ UNCHANGED today
  BY DEF Fire, Crash, vars
<1>6. QED  BY <1>1, <1>2, <1>3, <1>4, <1>5 DEF Next

\* Each load-decide-commit sequence amounts to one step of the contract: with
\* handlers that run one at a time, the ledger implements BillContract, restarts
\* and any number of firing processes included.
THEOREM LedgerKeepsContract == ASSUME OneThread PROVE Spec => KeepsContract
<1>1. Init => Contract!Init
  BY ContractInit
<1>2. SInv /\ [Next]_vars => [Contract!Next]_(Contract!vars)
  BY ContractStep
<1>3. QED  BY <1>1, <1>2, SerialInvariant, PTL DEF Spec, KeepsContract, Contract!Spec

\* What a step of the contract may do to a bill.
LEMMA ContractEffect ==
    ASSUME [Contract!Next]_(Contract!vars), NEW b \in Bills
    PROVE  bill[b].status \notin PayableStatuses =>
             bill'[b].status \in {bill[b].status, "paid"}
<1> DEFINE st == [c \in Bills |-> bill[c].status]
<1>1. st[b] = bill[b].status /\ st'[b] = bill'[b].status
  OBVIOUS
<1>2. ASSUME NEW c \in Bills, Contract!FallOverdue(c)
      PROVE  st[c] = "issued" /\ st' = [st EXCEPT ![c] = "overdue"]
  BY <1>2 DEF Contract!FallOverdue
<1>3. ASSUME NEW c \in Bills, Contract!AddFine(c)
      PROVE  st' = st
  BY <1>3 DEF Contract!AddFine
<1>4. ASSUME NEW c \in Bills, Contract!Settle(c)
      PROVE  st' = [st EXCEPT ![c] = "paid"]
  BY <1>4 DEF Contract!Settle
<1>5. ASSUME NEW c \in Bills, Contract!Release(c)
      PROVE  /\ st[c] \in {"issued", "overdue"}
             /\ \E s : st' = [st EXCEPT ![c] = s]
  BY <1>5 DEF Contract!Release, Contract!Open
<1>6. (Contract!NextDay \/ UNCHANGED Contract!vars) => st' = st
  BY DEF Contract!NextDay, Contract!vars
<1>7. st \in [Bills -> {bill[c].status : c \in Bills}]
  OBVIOUS
<1> HIDE DEF st
<1>8. QED
  BY <1>1, <1>2, <1>3, <1>4, <1>5, <1>6, <1>7 DEF Contract!Next, PayableStatuses

\* A paid bill stays paid; a waived or cancelled one can only become paid.
THEOREM ClosedBillsAreNotReopened ==
    ASSUME OneThread PROVE Spec => ClosedBillsStayClosed
<1>1. SInv /\ [Next]_vars =>
        [\A b \in Bills :
           bill[b].status \notin PayableStatuses =>
             bill'[b].status \in {bill[b].status, "paid"}]_vars
  BY ContractStep, ContractEffect
<1>2. QED  BY <1>1, SerialInvariant, PTL DEF Spec, ClosedBillsStayClosed

\* A payment that is written is a free row or one still initiated.
LEMMA OutcomesStay ==
    ASSUME SInv, [Next]_vars, NEW p \in Payments,
           payment[p].status \in {"success", "failed"}
    PROVE  payment'[p] = payment[p]
<1>1. ASSUME NEW t \in Threads, FinishInitiate(t) \/ FinishOffline(t)
      PROVE  payment'[p] = payment[p]
  BY <1>1 DEF FinishInitiate, FinishOffline, NewPayment, Free, SInv, IInv, TypeOK
<1>2. ASSUME NEW t \in Threads, FailConfirm(t) \/ FinishConfirm(t)
      PROVE  payment'[p] = payment[p]
  <2>1. /\ thread[t].payment \in Payments
        /\ payment[thread[t].payment].status = "initiated"
    BY <1>2, Confirming DEF FailConfirm, FinishConfirm
  <2>2. QED  BY <1>2, <2>1 DEF FailConfirm, FinishConfirm, SInv, IInv, TypeOK
<1>3. ASSUME NEW t \in Threads, RequestStep(t)
      PROVE  UNCHANGED payment
  BY <1>3 DEF RequestStep, BeginInitiate, BeginOffline, BeginWaive, BeginCancel,
     BeginConfirm, Start, tables
<1>4. ASSUME NEW t \in Threads, Continue(t)
      PROVE  \/ FinishInitiate(t) \/ FinishOffline(t)
             \/ FailConfirm(t) \/ FinishConfirm(t)
             \/ UNCHANGED payment
  BY <1>4 DEF Continue, FinishWaive, FinishCancel, LoadConfirmedBill, Report,
     MarkOverdue, SkipFined, CheckFine, SkipReminded, CheckReminder, ChargeFine,
     ChargeConflict, SendReminder, JobDone, tables
<1>5. (\/ \E t \in Threads, kind \in Jobs : Fire(t, kind)
       \/ Tick \/ Crash \/ UNCHANGED vars) => UNCHANGED payment
  BY DEF Fire, Tick, Crash, vars, tables
<1>6. QED  BY <1>1, <1>2, <1>3, <1>4, <1>5 DEF Next

\* confirm_payment asks for an initiated payment, and it still is when it commits.
THEOREM PaymentOutcomesAreFinal ==
    ASSUME OneThread PROVE Spec => PaymentOutcomeFinal
<1>1. SInv /\ [Next]_vars =>
        [\A p \in Payments :
           payment[p].status \in {"success", "failed"} =>
             payment'[p] = payment[p]]_vars
  BY OutcomesStay
<1>2. QED  BY <1>1, SerialInvariant, PTL DEF Spec, PaymentOutcomeFinal

=============================================================================
