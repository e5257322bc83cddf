-------------------------- MODULE LedgerAuditProofs --------------------------
(***************************************************************************)
(* Proofs about the ledger while the host does not restart, for every set  *)
(* of threads, bills and payments and every number of processes: the audit *)
(* log accounts for the rows of the tables, and the fine_accrual runs of a *)
(* day leave no overdue bill out.                                          *)
(***************************************************************************)
EXTENDS LedgerProofs

-----------------------------------------------------------------------------
(* The audit log.                                                          *)

\* Row e is among those still to be written.
Lists(rows, e) == \E i \in 1..Len(rows) : rows[i] = e

\* The threads that are about to write row e about bill b.
Reporters(b, e) ==
    {t \in Threads :
       thread[t].op = "report" /\ thread[t].bill = b /\ Lists(thread[t].rows, e)}

ReportsAreKnown ==
    \A t \in Threads : thread[t].op = "report" => thread[t].rows \in ToReport

\* What AuditAccountsForRows counts can be counted.
RowsAreFinite ==
    \A b \in Bills :
      /\ IsFiniteSet(OnBill(b))
      /\ \A e \in Effects : IsFiniteSet(Reporters(b, e))

AInv == IInv /\ ReportsAreKnown /\ RowsAreFinite /\ AuditAccountsForRows

LEMMA ReportedCounts ==
    ASSUME NEW b, NEW e
    PROVE  /\ Reported(b, e) = log[b][e] + Cardinality(Reporters(b, e))
           /\ Reported(b, e)' = log'[b][e] + Cardinality(Reporters(b, e)')
BY DEF Reported, Reporters, Lists

\* What a list of one, two or three rows lists.
LEMMA ShortLists ==
    ASSUME NEW e
    PROVE  /\ ~Lists(<<>>, e)
           /\ \A x : Lists(<<x>>, e) <=> e = x
           /\ \A x, y : Lists(<<x, y>>, e) <=> e \in {x, y}
           /\ \A x, y, z : Lists(<<x, y, z>>, e) <=> e \in {x, y, z}
<1>1. ~Lists(<<>>, e)
  BY DEF Lists
<1>2. ASSUME NEW x PROVE Lists(<<x>>, e) <=> e = x
  BY DEF Lists
<1>3. ASSUME NEW x, NEW y PROVE Lists(<<x, y>>, e) <=> e \in {x, y}
  <2>1. Len(<<x, y>>) = 2 /\ <<x, y>>[1] = x /\ <<x, y>>[2] = y
    OBVIOUS
  <2>2. 1..2 = {1, 2}
    OBVIOUS
  <2>3. QED  BY <2>1, <2>2 DEF Lists
<1>4. ASSUME NEW x, NEW y, NEW z PROVE Lists(<<x, y, z>>, e) <=> e \in {x, y, z}
  <2>1. /\ Len(<<x, y, z>>) = 3
        /\ <<x, y, z>>[1] = x /\ <<x, y, z>>[2] = y /\ <<x, y, z>>[3] = z
    OBVIOUS
  <2>2. 1..3 = {1, 2, 3}
    OBVIOUS
  <2>3. QED  BY <2>1, <2>2 DEF Lists
<1>5. QED  BY <1>1, <1>2, <1>3, <1>4

\* Writing the first row leaves the others to be written, each listed once.
LEMMA TailLists ==
    ASSUME NEW rows \in ToReport, NEW e
    PROVE  /\ Lists(rows, Head(rows))
           /\ Lists(Tail(rows), e) <=> Lists(rows, e) /\ e # Head(rows)
           /\ Head(rows) \in Effects
           /\ Tail(rows) # <<>> => Tail(rows) \in ToReport
<1>1. CASE \E x \in Effects : rows = <<x>>
  <2>1. PICK x \in Effects : rows = <<x>>
    BY <1>1
  <2>2. Head(rows) = x /\ Tail(rows) = <<>>
    BY <2>1
  <2>3. QED  BY <2>1, <2>2, ShortLists
<1>2. CASE rows = OverdueRows
  <2>1. /\ rows = <<"bill.auto_overdue", "notify.overdue", "notify.overdue_admin">>
        /\ Head(rows) = "bill.auto_overdue"
        /\ Tail(rows) = <<"notify.overdue", "notify.overdue_admin">>
    BY <1>2 DEF OverdueRows
  <2>2. \A f : /\ Lists(rows, f) <=>
                    f \in {"bill.auto_overdue", "notify.overdue", "notify.overdue_admin"}
               /\ Lists(Tail(rows), f) <=> f \in {"notify.overdue", "notify.overdue_admin"}
    BY <2>1, ShortLists
  <2>3. QED  BY <2>1, <2>2 DEF ToReport, ToldNext, Effects
<1>3. ASSUME NEW x \in Effects, NEW y \in Effects, x # y, rows = <<x, y>>,
             <<y>> \in ToReport
      PROVE  /\ Lists(rows, Head(rows))
             /\ Lists(Tail(rows), e) <=> Lists(rows, e) /\ e # Head(rows)
             /\ Head(rows) \in Effects
             /\ Tail(rows) # <<>> => Tail(rows) \in ToReport
  <2>1. Head(rows) = x /\ Tail(rows) = <<y>>
    BY <1>3
  <2>2. \A f : (Lists(rows, f) <=> f \in {x, y}) /\ (Lists(Tail(rows), f) <=> f = y)
    BY <1>3, <2>1, ShortLists
  <2>3. QED  BY <1>3, <2>1, <2>2
<1>4. CASE rows = ToldNext
  BY <1>3, <1>4 DEF ToldNext, ToReport, Effects
<1>5. CASE rows = FineRows
  BY <1>3, <1>5 DEF FineRows, ToReport, Effects
<1>6. QED  BY <1>1, <1>2, <1>4, <1>5 DEF ToReport, Effects

\* A thread that has committed joins those about to report it.
LEMMA ReportedGrows ==
    ASSUME AInv, NEW t \in Threads, NEW c \in Bills, NEW rows, ThenReport(t, c, rows),
           thread[t].op # "report", UNCHANGED log, NEW b \in Bills, NEW e \in Effects
    PROVE  /\ IsFiniteSet(Reporters(b, e)')
           /\ Reported(b, e)' = IF b = c /\ Lists(rows, e) THEN Reported(b, e) + 1
                                                          ELSE Reported(b, e)
<1>1. /\ thread'[t] = [op |-> "report", bill |-> c, rows |-> rows]
      /\ \A u \in Threads : u # t => thread'[u] = thread[u]
  BY DEF ThenReport, AInv, IInv, TypeOK
<1>2. IsFiniteSet(Reporters(b, e)) /\ t \notin Reporters(b, e)
  BY DEF AInv, RowsAreFinite, Reporters
<1>3. /\ log[b][e] \in Nat /\ Cardinality(Reporters(b, e)) \in Nat
  BY <1>2, FS_CardinalityType DEF AInv, IInv, TypeOK
<1>4. CASE b = c /\ Lists(rows, e)
  <2>1. Reporters(b, e)' = Reporters(b, e) \cup {t}
    BY <1>1, <1>4 DEF Reporters
  <2>2. /\ IsFiniteSet(Reporters(b, e) \cup {t})
        /\ Cardinality(Reporters(b, e) \cup {t}) = Cardinality(Reporters(b, e)) + 1
    BY <1>2, FS_AddElement
  <2>3. Cardinality(Reporters(b, e)') = Cardinality(Reporters(b, e)) + 1
    BY <2>1, <2>2
  <2>4. /\ Reported(b, e) = log[b][e] + Cardinality(Reporters(b, e))
        /\ Reported(b, e)' = log[b][e] + Cardinality(Reporters(b, e)')
    BY ReportedCounts
  <2>5. Reported(b, e)' = Reported(b, e) + 1
    BY <1>3, <2>3, <2>4
  <2>6. QED  BY <1>4, <2>1, <2>2, <2>5
<1>5. CASE ~(b = c /\ Lists(rows, e))
  <2>1. Reporters(b, e)' = Reporters(b, e)
    BY <1>1, <1>5 DEF Reporters
  <2>2. QED  BY <1>2, <1>5, <2>1, ReportedCounts
<1>6. QED  BY <1>4, <1>5

\* A row that is written moves from the ones about to be to the ones that are.
LEMMA ReportedMoves ==
    ASSUME AInv, NEW t \in Threads, Report(t), NEW b \in Bills, NEW e \in Effects
    PROVE  /\ IsFiniteSet(Reporters(b, e)')
           /\ Reported(b, e)' = Reported(b, e)
           /\ ReportsAreKnown'
<1> DEFINE c == thread[t].bill
           rows == thread[t].rows
           rest == [op |-> "report", bill |-> c, rows |-> Tail(rows)]
<1>1. c \in Bills /\ rows \in ToReport /\ thread[t].op = "report"
  BY OperationFields DEF Report, AInv, IInv, TypeOK, ReportsAreKnown
<1>2. [thread[t] EXCEPT !.rows = Tail(rows)] = rest
  BY RestOfReport DEF Report, AInv, IInv, TypeOK
<1>3. /\ thread'[t] = IF Tail(rows) = <<>> THEN Idle ELSE rest
      /\ \A u \in Threads : u # t => thread'[u] = thread[u]
  BY <1>2 DEF Report, AInv, IInv, TypeOK
<1>4. thread'[t].op = "report" <=> Tail(rows) # <<>>
  <2>1. CASE Tail(rows) = <<>>
    BY <1>3, <2>1 DEF Idle
  <2>2. CASE Tail(rows) # <<>>
    BY <1>3, <2>2
  <2>3. QED  BY <2>1, <2>2
<1>5. Tail(rows) # <<>> => thread'[t].bill = c /\ thread'[t].rows = Tail(rows)
  BY <1>3
<1>6. ReportsAreKnown'
  BY <1>1, <1>3, <1>4, <1>5, TailLists DEF AInv, ReportsAreKnown
<1>7. t \in Reporters(b, e)' <=> b = c /\ Lists(rows, e) /\ e # Head(rows)
  <2>1. t \in Reporters(b, e)' <=> Tail(rows) # <<>> /\ b = c /\ Lists(Tail(rows), e)
    BY <1>4, <1>5 DEF Reporters
  <2>2. ASSUME Tail(rows) = <<>> PROVE ~Lists(Tail(rows), e)
    <3>1. ~Lists(<<>>, e)
      BY ShortLists
    <3>2. QED  BY <2>2, <3>1, Zenon
  <2>3. QED  BY <1>1, <2>1, <2>2, TailLists
<1>8. t \in Reporters(b, e) <=> b = c /\ Lists(rows, e)
  BY <1>1 DEF Reporters
<1>9. \A u \in Threads : u # t => (u \in Reporters(b, e)' <=> u \in Reporters(b, e))
  BY <1>3 DEF Reporters
<1>10. /\ IsFiniteSet(Reporters(b, e))
       /\ log[b][e] \in Nat /\ Cardinality(Reporters(b, e)) \in Nat
  BY FS_CardinalityType DEF AInv, RowsAreFinite, IInv, TypeOK
<1>11. Head(rows) \in Effects /\ Lists(rows, Head(rows))
  BY <1>1, TailLists
<1>12. log'[b][e] = IF b = c /\ e = Head(rows) THEN log[b][e] + 1 ELSE log[b][e]
  <2>1. log' = [log EXCEPT ![c][Head(rows)] = @ + 1]
    BY DEF Report
  <2>2. log \in [Bills -> [Effects -> Nat]]
    BY DEF AInv, IInv, TypeOK
  <2>3. QED  BY <1>1, <1>11, <2>1, <2>2
<1>13. Reporters(b, e) \subseteq Threads /\ Reporters(b, e)' \subseteq Threads
  BY DEF Reporters
<1>14. CASE b = c /\ e = Head(rows)
  <2>1. Reporters(b, e)' = Reporters(b, e) \ {t} /\ t \in Reporters(b, e)
    BY <1>7, <1>8, <1>9, <1>11, <1>13, <1>14
  <2>2. /\ IsFiniteSet(Reporters(b, e) \ {t})
        /\ Cardinality(Reporters(b, e) \ {t}) = Cardinality(Reporters(b, e)) - 1
    BY <1>10, <2>1, FS_RemoveElement
  <2>3. Cardinality(Reporters(b, e)') = Cardinality(Reporters(b, e)) - 1
    BY <2>1, <2>2
  <2>4. /\ Reported(b, e) = log[b][e] + Cardinality(Reporters(b, e))
        /\ Reported(b, e)' = log'[b][e] + Cardinality(Reporters(b, e)')
    BY ReportedCounts
  <2>5. Reported(b, e)' = Reported(b, e)
    BY <1>10, <1>12, <1>14, <2>3, <2>4
  <2>6. QED  BY <1>6, <2>1, <2>2, <2>5
<1>15. CASE ~(b = c /\ e = Head(rows))
  <2>1. Reporters(b, e)' = Reporters(b, e)
    BY <1>7, <1>8, <1>9, <1>13, <1>15
  <2>2. QED  BY <1>6, <1>10, <1>12, <1>15, <2>1, ReportedCounts
<1>16. QED  BY <1>14, <1>15

\* Steps that let no thread begin or end a report leave the count as it is.
LEMMA ReportedStays ==
    ASSUME AInv, UNCHANGED log, NEW b \in Bills, NEW e \in Effects,
           \A u \in Threads :
             \/ thread'[u] = thread[u]
             \/ thread[u].op # "report" /\ thread'[u].op # "report"
    PROVE  /\ IsFiniteSet(Reporters(b, e)')
           /\ Reported(b, e)' = Reported(b, e)
<1>1. Reporters(b, e)' = Reporters(b, e)
  BY DEF Reporters
<1>2. IsFiniteSet(Reporters(b, e))
  BY DEF AInv, RowsAreFinite
<1>3. QED  BY <1>1, <1>2, ReportedCounts

\* The reports a commit announces, and what it must have added to the tables.
LEMMA AuditCommit ==
    ASSUME AInv, IInv', UNCHANGED <<crashes, log>>,
           NEW t \in Threads, NEW c \in Bills, NEW rows \in ToReport,
           ThenReport(t, c, rows), thread[t].op # "report",
           \A b \in Bills :
             /\ IsFiniteSet(OnBill(b)')
             /\ Cardinality(fineDays'[b]) =
                  IF b = c /\ rows = FineRows THEN Cardinality(fineDays[b]) + 1
                                              ELSE Cardinality(fineDays[b])
             /\ Cardinality(OnBill(b)') =
                  IF b = c /\ rows \in {<<"payment.initiate">>, <<"payment.mark_offline">>}
                  THEN Cardinality(OnBill(b)) + 1 ELSE Cardinality(OnBill(b)),
           rows \notin {ToldNext, <<"notify.overdue_admin">>, <<"notify.fine">>}
    PROVE  AInv'
<1>1. \A b \in Bills, e \in Effects :
        /\ IsFiniteSet(Reporters(b, e)')
        /\ Reported(b, e)' = IF b = c /\ Lists(rows, e) THEN Reported(b, e) + 1
                                                       ELSE Reported(b, e)
  BY ReportedGrows
<1>2. ReportsAreKnown'
  <2>1. /\ thread'[t] = [op |-> "report", bill |-> c, rows |-> rows]
        /\ \A u \in Threads : u # t => thread'[u] = thread[u]
    BY DEF ThenReport, AInv, IInv, TypeOK
  <2>2. QED  BY <2>1 DEF AInv, ReportsAreKnown
<1>3. RowsAreFinite'
  BY <1>1 DEF RowsAreFinite
<1>4. /\ Lists(rows, "bill.fine_accrued") <=> rows = FineRows
      /\ Lists(rows, "notify.fine") <=> rows = FineRows
      /\ Lists(rows, "payment.initiate") <=> rows = <<"payment.initiate">>
      /\ Lists(rows, "payment.mark_offline") <=> rows = <<"payment.mark_offline">>
  <2>1. CASE \E x \in Effects : rows = <<x>>
    <3>1. PICK x \in Effects : rows = <<x>>
      BY <2>1
    <3>2. \A e : Lists(rows, e) <=> e = x
      BY <3>1, ShortLists
    <3>3. x # "bill.fine_accrued" /\ x # "notify.fine"
      BY <3>1 DEF ToReport, OverdueRows, ToldNext, FineRows
    <3>4. rows # FineRows
      BY <3>1 DEF FineRows
    <3>5. QED  BY <3>1, <3>2, <3>3, <3>4
  <2>2. CASE rows = OverdueRows
    <3>1. rows = <<"bill.auto_overdue", "notify.overdue", "notify.overdue_admin">>
      BY <2>2 DEF OverdueRows
    <3>2. \A e : Lists(rows, e) <=>
                   e \in {"bill.auto_overdue", "notify.overdue", "notify.overdue_admin"}
      BY <3>1, ShortLists
    <3>3. rows # FineRows /\ \A x : rows # <<x>>
      BY <3>1 DEF FineRows
    <3>4. QED  BY <3>2, <3>3
  <2>3. CASE rows = FineRows
    <3>1. rows = <<"bill.fine_accrued", "notify.fine">>
      BY <2>3 DEF FineRows
    <3>2. \A e : Lists(rows, e) <=> e \in {"bill.fine_accrued", "notify.fine"}
      BY <3>1, ShortLists
    <3>3. \A x : rows # <<x>>
      BY <3>1
    <3>4. QED  BY <2>3, <3>2, <3>3
  <2>4. QED  BY <2>1, <2>2, <2>3 DEF ToReport, Effects
<1>5. AuditAccountsForRows'
  <2> SUFFICES ASSUME crashes' = 0, NEW b \in Bills
               PROVE  /\ Reported(b, "bill.fine_accrued")' = Cardinality(fineDays'[b])
                      /\ Reported(b, "notify.fine")' = Cardinality(fineDays'[b])
                      /\ Reported(b, "payment.initiate")' + Reported(b, "payment.mark_offline")'
                           = Cardinality(OnBill(b)')
    BY DEF AuditAccountsForRows
  <2>1. /\ Reported(b, "bill.fine_accrued") = Cardinality(fineDays[b])
        /\ Reported(b, "notify.fine") = Cardinality(fineDays[b])
        /\ Reported(b, "payment.initiate") + Reported(b, "payment.mark_offline")
             = Cardinality(OnBill(b))
    BY DEF AInv, AuditAccountsForRows
  <2>2. \A e \in Effects : Reported(b, e) \in Nat
    <3> SUFFICES ASSUME NEW e \in Effects PROVE Reported(b, e) \in Nat
      OBVIOUS
    <3>1. log[b][e] \in Nat /\ Cardinality(Reporters(b, e)) \in Nat
      BY FS_CardinalityType DEF AInv, RowsAreFinite, IInv, TypeOK
    <3>2. QED  BY <3>1, ReportedCounts
  <2>3. /\ Reported(b, "bill.fine_accrued")' =
             IF b = c /\ rows = FineRows THEN Reported(b, "bill.fine_accrued") + 1
                                         ELSE Reported(b, "bill.fine_accrued")
        /\ Reported(b, "notify.fine")' =
             IF b = c /\ rows = FineRows THEN Reported(b, "notify.fine") + 1
                                         ELSE Reported(b, "notify.fine")
    BY <1>1, <1>4 DEF Effects
  <2>4. /\ Reported(b, "payment.initiate")' =
             IF b = c /\ rows = <<"payment.initiate">>
             THEN Reported(b, "payment.initiate") + 1 ELSE Reported(b, "payment.initiate")
        /\ Reported(b, "payment.mark_offline")' =
             IF b = c /\ rows = <<"payment.mark_offline">>
             THEN Reported(b, "payment.mark_offline") + 1
             ELSE Reported(b, "payment.mark_offline")
    BY <1>1, <1>4 DEF Effects
  <2>5. /\ Reported(b, "bill.fine_accrued")' = Cardinality(fineDays'[b])
        /\ Reported(b, "notify.fine")' = Cardinality(fineDays'[b])
    BY <2>1, <2>3
  <2>6. Reported(b, "payment.initiate")' + Reported(b, "payment.mark_offline")'
          = Cardinality(OnBill(b)')
    <3>1. Reported(b, "payment.initiate") \in Nat /\ Reported(b, "payment.mark_offline") \in Nat
      BY <2>2 DEF Effects
    <3>2. <<"payment.initiate">> # <<"payment.mark_offline">>
      OBVIOUS
    <3>3. QED  BY <2>1, <2>4, <3>1, <3>2
  <2>7. QED  BY <2>5, <2>6
<1>6. QED  BY <1>2, <1>3, <1>5 DEF AInv

\* A new payment row is one more row on its bill.
LEMMA RowAdded ==
    ASSUME AInv, NEW p \in Payments, payment[p] = Free, NEW c \in Bills, NEW row,
           row.status # "none", row.bill = c, payment' = [payment EXCEPT ![p] = row]
    PROVE  \A b \in Bills :
             /\ IsFiniteSet(OnBill(b)')
             /\ Cardinality(OnBill(b)') =
                  IF b = c THEN Cardinality(OnBill(b)) + 1 ELSE Cardinality(OnBill(b))
<1> SUFFICES ASSUME NEW b \in Bills
             PROVE  /\ IsFiniteSet(OnBill(b)')
                    /\ Cardinality(OnBill(b)') =
                         IF b = c THEN Cardinality(OnBill(b)) + 1
                                  ELSE Cardinality(OnBill(b))
  OBVIOUS
<1>1. row # Free
  BY DEF Free
<1>2. /\ payment'[p] = row
      /\ \A q \in Payments : q # p => payment'[q] = payment[q]
  BY DEF AInv, IInv, TypeOK
<1>3. IsFiniteSet(OnBill(b)) /\ p \notin OnBill(b)
  BY DEF AInv, RowsAreFinite, OnBill
<1>4. CASE b = c
  <2>1. OnBill(b)' = OnBill(b) \cup {p}
    BY <1>1, <1>2, <1>4 DEF OnBill
  <2>2. /\ IsFiniteSet(OnBill(b) \cup {p})
        /\ Cardinality(OnBill(b) \cup {p}) = Cardinality(OnBill(b)) + 1
    BY <1>3, FS_AddElement
  <2>3. QED  BY <1>4, <2>1, <2>2
<1>5. CASE b # c
  <2>1. OnBill(b)' = OnBill(b)
    BY <1>2, <1>3, <1>5 DEF OnBill
  <2>2. QED  BY <1>3, <1>5, <2>1
<1>6. QED  BY <1>4, <1>5

\* Confirming a payment leaves its row on its bill.
LEMMA RowRewritten ==
    ASSUME AInv, NEW t \in Threads, FailConfirm(t) \/ FinishConfirm(t)
    PROVE  \A b \in Bills : OnBill(b)' = OnBill(b)
<1> DEFINE p == thread[t].payment
<1>1. p \in Payments /\ payment[p] \in Payment /\ payment[p].status # "none"
  BY OperationFields
     DEF FailConfirm, FinishConfirm, AInv, IInv, TypeOK, ConfirmedPaymentsExist
<1>2. PICK s \in {"failed", "success"} :
        payment' = [payment EXCEPT ![p] = [@ EXCEPT !.status = s]]
  BY DEF FailConfirm, FinishConfirm
<1>3. /\ payment'[p].status = s /\ payment'[p].bill = payment[p].bill
      /\ \A q \in Payments : q # p => payment'[q] = payment[q]
  BY <1>1, <1>2, PaymentFields DEF AInv, IInv, TypeOK
<1>4. payment'[p] # Free /\ payment[p] # Free
  BY <1>1, <1>3 DEF Free
<1>5. QED  BY <1>3, <1>4 DEF OnBill

\* Steps that report nothing and add no row.
LEMMA AuditQuiet ==
    ASSUME AInv, IInv', UNCHANGED <<crashes, fineDays, payment, log>>,
           \A u \in Threads :
             \/ thread'[u] = thread[u]
             \/ thread[u].op # "report" /\ thread'[u].op # "report"
    PROVE  AInv'
<1>1. \A b \in Bills, e \in Effects :
        IsFiniteSet(Reporters(b, e)') /\ Reported(b, e)' = Reported(b, e)
  BY ReportedStays
<1>2. \A b \in Bills : OnBill(b)' = OnBill(b)
  BY DEF OnBill
<1>3. ReportsAreKnown'
  BY DEF AInv, ReportsAreKnown
<1>4. RowsAreFinite' /\ AuditAccountsForRows'
  BY <1>1, <1>2 DEF AInv, RowsAreFinite, AuditAccountsForRows, Effects
<1>5. QED  BY <1>3, <1>4 DEF AInv

LEMMA AuditReport ==
    ASSUME AInv, IInv', NEW t \in Threads, Report(t)
    PROVE  AInv'
<1>1. \A b \in Bills, e \in Effects :
        /\ IsFiniteSet(Reporters(b, e)') /\ Reported(b, e)' = Reported(b, e)
  BY ReportedMoves
<1>2. UNCHANGED <<crashes, fineDays, payment>>
  BY DEF Report, tables
<1>3. \A b \in Bills : OnBill(b)' = OnBill(b)
  BY <1>2 DEF OnBill
<1>4. ReportsAreKnown'
  <2>1. CASE Bills = {}
    BY <2>1, OperationFields DEF Report, AInv, IInv, TypeOK
  <2>2. CASE Bills # {}
    BY <2>2, ReportedMoves DEF Effects
  <2>3. QED  BY <2>1, <2>2
<1>5. RowsAreFinite' /\ AuditAccountsForRows'
  BY <1>1, <1>2, <1>3 DEF AInv, RowsAreFinite, AuditAccountsForRows, Effects
<1>6. QED  BY <1>4, <1>5 DEF AInv

LEMMA AuditNewPayment ==
    ASSUME AInv, IInv', NEW t \in Threads, FinishInitiate(t) \/ FinishOffline(t)
    PROVE  AInv'
<1>1. PICK c \in Bills : thread[t].bill = c
  BY OperationFields DEF FinishInitiate, FinishOffline, AInv, IInv, TypeOK
<1>2. PICK s \in {"initiated", "success"}, p \in Payments :
        NewPayment(p, c, thread[t].amount, s)
  BY <1>1 DEF FinishInitiate, FinishOffline
<1> DEFINE row == [status |-> s, bill |-> c, amount |-> thread[t].amount]
<1>3. \A b \in Bills :
        /\ IsFiniteSet(OnBill(b)')
        /\ Cardinality(OnBill(b)') =
             IF b = c THEN Cardinality(OnBill(b)) + 1 ELSE Cardinality(OnBill(b))
  <2>1. /\ row.status # "none" /\ row.bill = c /\ payment[p] = Free
        /\ payment' = [payment EXCEPT ![p] = row]
    BY <1>2 DEF NewPayment
  <2> HIDE DEF row
  <2>2. QED  BY <2>1, RowAdded
<1>4. PICK rows \in {<<"payment.initiate">>, <<"payment.mark_offline">>} :
        ThenReport(t, c, rows)
  BY <1>1 DEF FinishInitiate, FinishOffline
<1>5. /\ rows \in ToReport /\ rows # FineRows
      /\ rows \notin {ToldNext, <<"notify.overdue_admin">>, <<"notify.fine">>}
  BY <1>4 DEF ToReport, FineRows, ToldNext
<1>6. UNCHANGED <<crashes, log, fineDays>> /\ thread[t].op # "report"
  BY DEF FinishInitiate, FinishOffline
<1>7. \A b \in Bills :
        /\ IsFiniteSet(OnBill(b)')
        /\ Cardinality(fineDays'[b]) =
             IF b = c /\ rows = FineRows THEN Cardinality(fineDays[b]) + 1
                                         ELSE Cardinality(fineDays[b])
        /\ Cardinality(OnBill(b)') =
             IF b = c /\ rows \in {<<"payment.initiate">>, <<"payment.mark_offline">>}
             THEN Cardinality(OnBill(b)) + 1 ELSE Cardinality(OnBill(b))
  BY <1>3, <1>4, <1>5, <1>6
<1>8. QED  BY <1>4, <1>5, <1>6, <1>7, AuditCommit

\* Commits that add neither a payment row nor a fine.
LEMMA AuditOtherCommit ==
    ASSUME AInv, IInv', NEW t \in Threads,
           \/ FailConfirm(t) \/ FinishConfirm(t) \/ FinishWaive(t) \/ FinishCancel(t)
           \/ \E b \in Bills : MarkOverdue(t, b)
    PROVE  AInv'
<1>1. \A b \in Bills : OnBill(b)' = OnBill(b)
  <2>1. CASE FailConfirm(t) \/ FinishConfirm(t)
    BY <2>1, RowRewritten
  <2>2. CASE FinishWaive(t) \/ FinishCancel(t) \/ \E b \in Bills : MarkOverdue(t, b)
    BY <2>2 DEF FinishWaive, FinishCancel, MarkOverdue, OnBill
  <2>3. QED  BY <2>1, <2>2
<1>2. PICK c \in Bills, rows \in {<<"payment.confirm">>, <<"bill.waive">>,
                                  <<"bill.cancel">>, OverdueRows} :
        ThenReport(t, c, rows)
  <2>1. CASE FailConfirm(t) \/ FinishConfirm(t)
    <3>1. payment[thread[t].payment].bill \in Bills
      BY <2>1, OperationFields, PaymentFields
         DEF FailConfirm, FinishConfirm, AInv, IInv, TypeOK, ConfirmedPaymentsExist
    <3>2. QED  BY <2>1, <3>1 DEF FailConfirm, FinishConfirm
  <2>2. CASE FinishWaive(t) \/ FinishCancel(t)
    BY <2>2, OperationFields DEF FinishWaive, FinishCancel, AInv, IInv, TypeOK
  <2>3. CASE \E b \in Bills : MarkOverdue(t, b)
    BY <2>3 DEF MarkOverdue
  <2>4. QED  BY <2>1, <2>2, <2>3
<1>3. /\ rows \in ToReport
      /\ rows \notin {FineRows, <<"payment.initiate">>, <<"payment.mark_offline">>,
                      ToldNext, <<"notify.overdue_admin">>, <<"notify.fine">>}
  BY <1>2 DEF ToReport, FineRows, ToldNext, OverdueRows
<1>4. UNCHANGED <<crashes, log, fineDays>> /\ thread[t].op # "report"
  BY DEF FailConfirm, FinishConfirm, FinishWaive, FinishCancel, MarkOverdue, InJob, Idle
<1>5. \A b \in Bills :
        /\ IsFiniteSet(OnBill(b)')
        /\ Cardinality(fineDays'[b]) =
             IF b = c /\ rows = FineRows THEN Cardinality(fineDays[b]) + 1
                                         ELSE Cardinality(fineDays[b])
        /\ Cardinality(OnBill(b)') =
             IF b = c /\ rows \in {<<"payment.initiate">>, <<"payment.mark_offline">>}
             THEN Cardinality(OnBill(b)) + 1 ELSE Cardinality(OnBill(b))
  BY <1>1, <1>3, <1>4 DEF AInv, RowsAreFinite
<1>6. QED  BY <1>2, <1>3, <1>4, <1>5, AuditCommit

LEMMA AuditFine ==
    ASSUME AInv, IInv', NEW t \in Threads, ChargeFine(t)
    PROVE  AInv'
<1>1. PICK c \in Bills : thread[t].bill = c
  BY OperationFields DEF ChargeFine, AInv, IInv, TypeOK
<1>2. fineDays'[c] = fineDays[c] \cup {today} /\ today \notin fineDays[c]
  BY <1>1, ChargeEffect DEF AInv, IInv
<1>3. \A b \in Bills : b # c => fineDays'[b] = fineDays[b]
  BY <1>1 DEF ChargeFine, AInv, IInv, TypeOK
<1>4. Cardinality(fineDays'[c]) = Cardinality(fineDays[c]) + 1
  <2>1. IsFiniteSet(fineDays[c])
    <3>1. fineDays[c] \subseteq 0..MaxDay /\ 0 \in Int /\ MaxDay \in Int
      BY LedgerAssumption DEF AInv, IInv, TypeOK
    <3>2. QED  BY <3>1, FS_Interval, FS_Subset
  <2>2. Cardinality(fineDays[c] \cup {today}) = Cardinality(fineDays[c]) + 1
    BY <1>2, <2>1, FS_AddElement
  <2>3. QED  BY <1>2, <2>2
<1>5. \A b \in Bills : OnBill(b)' = OnBill(b)
  BY DEF ChargeFine, OnBill
<1>6. /\ FineRows \in ToReport
      /\ FineRows \notin {<<"payment.initiate">>, <<"payment.mark_offline">>,
                          ToldNext, <<"notify.overdue_admin">>, <<"notify.fine">>}
  BY DEF ToReport, FineRows, ToldNext
<1>7. /\ ThenReport(t, c, FineRows) /\ UNCHANGED <<crashes, log>>
      /\ thread[t].op # "report"
  BY <1>1 DEF ChargeFine
<1>8. \A b \in Bills :
        /\ IsFiniteSet(OnBill(b)')
        /\ Cardinality(fineDays'[b]) =
             IF b = c /\ FineRows = FineRows THEN Cardinality(fineDays[b]) + 1
                                             ELSE Cardinality(fineDays[b])
        /\ Cardinality(OnBill(b)') =
             IF b = c /\ FineRows \in {<<"payment.initiate">>, <<"payment.mark_offline">>}
             THEN Cardinality(OnBill(b)) + 1 ELSE Cardinality(OnBill(b))
  BY <1>3, <1>4, <1>5, <1>6 DEF AInv, RowsAreFinite
<1>9. QED  BY <1>6, <1>7, <1>8, AuditCommit

\* After a restart the log may lag behind; what was to be reported is forgotten.
LEMMA AuditCrash ==
    ASSUME AInv, IInv', Crash
    PROVE  AInv'
<1>1. \A b \in Bills, e \in Effects : Reporters(b, e)' = {}
  BY DEF Crash, Reporters, Idle
<1>2. \A b \in Bills : OnBill(b)' = OnBill(b)
  BY DEF Crash, tables, OnBill
<1>3. RowsAreFinite' /\ ReportsAreKnown'
  BY <1>1, <1>2, FS_EmptySet DEF AInv, RowsAreFinite, Crash, ReportsAreKnown, Idle
<1>4. crashes' # 0
  BY DEF Crash, AInv, IInv, TypeOK
<1>5. QED  BY <1>3, <1>4 DEF AInv, AuditAccountsForRows

LEMMA NextAInv == AInv /\ [Next]_vars => AInv'
<1> SUFFICES ASSUME AInv, [Next]_vars PROVE AInv'
  OBVIOUS
<1>0. IInv'
  BY NextIInv DEF AInv
<1>1. ASSUME NEW t \in Threads, RequestStep(t) PROVE AInv'
  <2>1. UNCHANGED <<crashes, fineDays, payment, log>>
    BY <1>1 DEF RequestStep, BeginInitiate, BeginOffline, BeginWaive, BeginCancel,
       BeginConfirm, Start, tables
  <2>2. \A u \in Threads : \/ thread'[u] = thread[u]
                           \/ thread[u].op # "report" /\ thread'[u].op # "report"
    BY <1>1 DEF RequestStep, BeginInitiate, BeginOffline, BeginWaive, BeginCancel,
       BeginConfirm, Start, IsFree, Idle, AInv, IInv, TypeOK
  <2>3. QED  BY <1>0, <2>1, <2>2, AuditQuiet
<1>2. ASSUME NEW t \in Threads,
             \/ LoadConfirmedBill(t) \/ ChargeConflict(t) \/ SendReminder(t) \/ JobDone(t)
             \/ \E b \in Bills : \/ SkipFined(t, b) \/ CheckFine(t, b)
                                 \/ SkipReminded(t, b) \/ CheckReminder(t, b)
      PROVE  AInv'
  <2>1. UNCHANGED <<crashes, fineDays, payment, log>>
    BY <1>2 DEF LoadConfirmedBill, ChargeConflict, SendReminder, JobDone, SkipFined,
       CheckFine, SkipReminded, CheckReminder, tables
  <2>2. \A u \in Threads : \/ thread'[u] = thread[u]
                           \/ thread[u].op # "report" /\ thread'[u].op # "report"
    BY <1>2 DEF LoadConfirmedBill, ChargeConflict, SendReminder, JobDone, SkipFined,
       CheckFine, SkipReminded, CheckReminder, InJob, Idle, AInv, IInv, TypeOK
  <2>3. QED  BY <1>0, <2>1, <2>2, AuditQuiet
<1>3. ASSUME NEW t \in Threads, Continue(t) PROVE AInv'
  BY <1>0, <1>2, <1>3, AuditNewPayment, AuditOtherCommit, AuditFine, AuditReport
     DEF Continue
<1>4. CASE Tick \/ (\E t \in Threads, kind \in Jobs : Fire(t, kind)) \/ UNCHANGED vars
  <2>1. UNCHANGED <<crashes, fineDays, payment, log, thread>>
    BY <1>4 DEF Tick, Fire, vars, tables
  <2>2. QED  BY <1>0, <2>1, AuditQuiet
<1>5. QED  BY <1>0, <1>1, <1>3, <1>4, AuditCrash DEF Next

LEMMA InitAInv == Init => AInv
<1> SUFFICES ASSUME Init PROVE AInv
  OBVIOUS
<1>1. \A b \in Bills, e \in Effects : Reporters(b, e) = {} /\ Reported(b, e) = 0
  <2> SUFFICES ASSUME NEW b \in Bills, NEW e \in Effects
               PROVE  Reporters(b, e) = {} /\ Reported(b, e) = 0
    OBVIOUS
  <2>1. Reporters(b, e) = {}
    BY DEF Init, Reporters, Idle
  <2>2. log[b][e] = 0 /\ Cardinality(Reporters(b, e)) = 0
    BY <2>1, FS_EmptySet DEF Init
  <2>3. QED  BY <2>1, <2>2, ReportedCounts
<1>2. \A b \in Bills : OnBill(b) = {} /\ fineDays[b] = {}
  BY DEF Init, OnBill
<1>3. RowsAreFinite /\ AuditAccountsForRows
  <2>1. RowsAreFinite
    BY <1>1, <1>2, FS_EmptySet DEF RowsAreFinite
  <2>2. \A b \in Bills : Cardinality(OnBill(b)) = 0 /\ Cardinality(fineDays[b]) = 0
    BY <1>2, FS_EmptySet
  <2>3. \A b \in Bills :
          /\ Reported(b, "bill.fine_accrued") = 0 /\ Reported(b, "notify.fine") = 0
          /\ Reported(b, "payment.initiate") = 0 /\ Reported(b, "payment.mark_offline") = 0
    BY <1>1 DEF Effects
  <2>4. QED  BY <2>1, <2>2, <2>3 DEF AuditAccountsForRows
<1>4. ReportsAreKnown
  BY DEF Init, ReportsAreKnown, Idle
<1>5. QED  BY <1>3, <1>4, InitIInv DEF AInv

\* Until the host restarts between a commit and the commit that reports it, every
\* fine and every payment row has its row in the audit log, and every fine its
\* notice, or a thread that is about to write it.
THEOREM AuditIsComplete == Spec => []AuditAccountsForRows
<1>1. AInv => AuditAccountsForRows
  BY DEF AInv
<1>2. QED  BY <1>1, InitAInv, NextAInv, PTL DEF Spec

-----------------------------------------------------------------------------
(* The daily fine.                                                         *)

\* The bills a fine_accrual run of today still has to charge.
Unfined == {b \in Bills : bill[b].status = "overdue" /\ UniqueFine(b)}

\* Thread t runs fine_accrual and is not about to die on the UNIQUE constraint.
Survives(t) ==
    /\ job[t].kind = "fine"
    /\ thread[t].op = "charge" => UniqueFine(thread[t].bill)

\* Once the first run of the day is fired, no bill falls overdue any more, every
\* run has all the bills on its list that are still to be charged, and one of the
\* runs survives as long as there is such a bill: a run dies only on a fine that
\* another one has inserted.
FinesUnderWay ==
    (crashes = 0 /\ fired["fine"] > 0) =>
      /\ fired["due"] = Processes
      /\ \A t \in Threads : job[t].kind # "due"
      /\ \A t \in Threads : job[t].kind = "fine" => Unfined \subseteq job[t].todo
      /\ Unfined # {} => \E t \in Threads : Survives(t)

\* A run under way has been fired, and a reminder is of a run that reminds.
RunsAreOfTheirKind ==
    \A t \in Threads :
      /\ job[t].kind = "fine" => fired["fine"] > 0
      /\ thread[t].op = "remind" => job[t].kind = "reminder"

DInv == IInv /\ RunsAreOfTheirKind /\ FinesUnderWay

\* A handler's step is its own thread's alone.
LEMMA OthersStay ==
    ASSUME TypeOK, NEW u \in Threads, RequestStep(u) \/ Continue(u),
           NEW t \in Threads, t # u
    PROVE  job'[t] = job[t] /\ thread'[t] = thread[t]
BY DEF RequestStep, BeginInitiate, BeginOffline, BeginWaive, BeginCancel,
   BeginConfirm, Start, Continue, FinishInitiate, FinishOffline, FinishWaive,
   FinishCancel, FailConfirm, LoadConfirmedBill, FinishConfirm, Report,
   MarkOverdue, SkipFined, CheckFine, SkipReminded, CheckReminder, ChargeFine,
   ChargeConflict, SendReminder, JobDone, DropTodo, DropTodoExpired, ThenReport,
   TypeOK

LEMMA HandlersKeepClock ==
    ASSUME NEW u \in Threads, RequestStep(u) \/ Continue(u)
    PROVE  UNCHANGED <<today, crashes, fired>>
BY DEF RequestStep, BeginInitiate, BeginOffline, BeginWaive, BeginCancel,
   BeginConfirm, Start, Continue, FinishInitiate, FinishOffline, FinishWaive,
   FinishCancel, FailConfirm, LoadConfirmedBill, FinishConfirm, Report,
   MarkOverdue, SkipFined, CheckFine, SkipReminded, CheckReminder, ChargeFine,
   ChargeConflict, SendReminder, JobDone

\* On a day without a due-date check under way, nothing is added to what is to be fined.
LEMMA UnfinedShrinks ==
    ASSUME IInv, [Next]_vars, today' = today,
           \A t \in Threads : job[t].kind # "due"
    PROVE  Unfined' \subseteq Unfined
<1> SUFFICES ASSUME NEW b \in Bills, bill'[b].status = "overdue",
                    today \notin fineDays'[b]
             PROVE  bill[b].status = "overdue" /\ today \notin fineDays[b]
  BY DEF Unfined, UniqueFine
<1>1. bill[b].status = "overdue"
  BY BillStep DEF IInv
<1>2. CASE fineDays'[b] = fineDays[b]
  BY <1>1, <1>2
<1>3. ASSUME NEW t \in Threads, ChargeFine(t), thread[t].bill = b
      PROVE  FALSE
  BY <1>3, ChargeEffect DEF IInv
<1>4. QED  BY <1>1, <1>2, <1>3, BillStep DEF IInv

\* A run takes a bill off its list only when the bill has today's fine.
LEMMA RunDropsFined ==
    ASSUME IInv, RunsAreOfTheirKind, NEW t \in Threads, Continue(t),
           job'[t].kind = "fine"
    PROVE  /\ job[t].kind = "fine"
           /\ \A b \in job[t].todo : b \in job'[t].todo \/ today \in fineDays'[b]
<1> job[t] \in JobLoop /\ thread[t] \in Operation
  BY DEF IInv, TypeOK
<1>1. CASE \/ FinishInitiate(t) \/ FinishOffline(t) \/ FinishWaive(t)
           \/ FinishCancel(t) \/ FailConfirm(t) \/ LoadConfirmedBill(t)
           \/ FinishConfirm(t) \/ Report(t)
           \/ \E b \in Bills : CheckFine(t, b) \/ CheckReminder(t, b)
  BY <1>1 DEF FinishInitiate, FinishOffline, FinishWaive, FinishCancel,
     FailConfirm, LoadConfirmedBill, FinishConfirm, Report, CheckFine, CheckReminder
<1>2. CASE \/ ChargeConflict(t) \/ JobDone(t)
  BY <1>2 DEF ChargeConflict, JobDone, NoJob, IInv, TypeOK
<1>3. ASSUME NEW c \in Bills, SkipFined(t, c)
      PROVE  /\ job[t].kind = "fine"
             /\ \A b \in job[t].todo : b \in job'[t].todo \/ today \in fineDays'[b]
  <2>1. job[t].kind = "fine" /\ today \in fineDays[c] /\ fineDays' = fineDays
    BY <1>3 DEF SkipFined, InJob, FinedToday, tables
  <2>2. job'[t].todo = job[t].todo \ {c}
    BY <1>3 DEF SkipFined, DropTodo, IInv, TypeOK, JobLoop
  <2>3. QED  BY <2>1, <2>2
<1>4. ASSUME NEW c \in Bills, MarkOverdue(t, c) \/ SkipReminded(t, c)
      PROVE  FALSE
  BY <1>4 DEF MarkOverdue, SkipReminded, InJob, DropTodo, IInv, TypeOK, JobLoop
<1>5. CASE ChargeFine(t)
  <2>1. PICK c \in Bills : thread[t].bill = c
    BY <1>5, OperationFields DEF ChargeFine
  <2>2. job[t].kind = "fine" /\ today \in fineDays'[c]
    BY <1>5, <2>1 DEF ChargeFine, IInv, TypeOK, ChargesAreListed
  <2>3. job'[t].todo = job[t].todo \ {c}
    BY <1>5, <2>1 DEF ChargeFine, DropTodoExpired, IInv, TypeOK
  <2>4. QED  BY <2>2, <2>3
<1>6. CASE SendReminder(t)
  <2>1. thread[t].bill \in Bills /\ job[t].kind = "reminder"
    BY <1>6, OperationFields DEF SendReminder, RunsAreOfTheirKind
  <2>2. job'[t].kind = job[t].kind
    BY <1>6, <2>1 DEF SendReminder, DropTodo, IInv, TypeOK, JobLoop
  <2>3. QED  BY <2>1, <2>2
<1>7. QED  BY <1>1, <1>2, <1>3, <1>4, <1>5, <1>6 DEF Continue

LEMMA RunsAreOfTheirKindStep ==
    ASSUME IInv, RunsAreOfTheirKind, [Next]_vars
    PROVE  RunsAreOfTheirKind'
<1>1. ASSUME NEW u \in Threads, RequestStep(u) \/ Continue(u)
      PROVE  RunsAreOfTheirKind'
  <2>1. \A t \in Threads : t # u => job'[t] = job[t] /\ thread'[t] = thread[t]
    BY <1>1, OthersStay DEF IInv
  <2>2. fired' = fired
    BY <1>1, HandlersKeepClock
  <2>3. job'[u].kind = "fine" => job[u].kind = "fine"
    <3>1. CASE RequestStep(u)
      BY <3>1 DEF RequestStep, BeginInitiate, BeginOffline, BeginWaive, BeginCancel,
         BeginConfirm, Start
    <3>2. CASE Continue(u)
      BY <3>2, RunDropsFined
    <3>3. QED  BY <1>1, <3>1, <3>2
  <2>4. thread'[u].op = "remind" => job'[u].kind = "reminder"
    <3>1. CASE RequestStep(u)
      BY <3>1 DEF RequestStep, BeginInitiate, BeginOffline, BeginWaive, BeginCancel,
         BeginConfirm, Start, IInv, TypeOK
    <3>2. ASSUME NEW b \in Bills, CheckReminder(u, b)
          PROVE  job'[u].kind = "reminder"
      BY <3>2 DEF CheckReminder, InJob
    <3>3. ASSUME \/ FinishInitiate(u) \/ FinishOffline(u) \/ FinishWaive(u)
                 \/ FinishCancel(u) \/ FailConfirm(u) \/ FinishConfirm(u)
                 \/ ChargeFine(u) \/ LoadConfirmedBill(u) \/ ChargeConflict(u)
                 \/ SendReminder(u) \/ JobDone(u)
                 \/ \E b \in Bills : \/ MarkOverdue(u, b) \/ SkipFined(u, b)
                                     \/ SkipReminded(u, b) \/ CheckFine(u, b)
          PROVE  thread'[u].op # "remind"
      BY <3>3 DEF FinishInitiate, FinishOffline, FinishWaive, FinishCancel,
         FailConfirm, FinishConfirm, ChargeFine, LoadConfirmedBill, ChargeConflict,
         SendReminder, JobDone, MarkOverdue, SkipFined, SkipReminded, CheckFine,
         ThenReport, InJob, Idle, IInv, TypeOK
    <3>4. CASE Report(u)
      <4>1. thread[u].op = "report" /\ job' = job
        BY <3>4 DEF Report
      <4>2. thread'[u].op \in {"idle", "report"}
        <5>1. [thread[u] EXCEPT !.rows = Tail(thread[u].rows)]
                = [op |-> "report", bill |-> thread[u].bill, rows |-> Tail(thread[u].rows)]
          BY <4>1, RestOfReport DEF IInv, TypeOK
        <5>2. QED  BY <3>4, <5>1 DEF Report, Idle, IInv, TypeOK
      <4>3. QED  BY <4>2
    <3>5. QED  BY <1>1, <3>1, <3>2, <3>3, <3>4 DEF Continue
  <2>5. QED  BY <2>1, <2>2, <2>3, <2>4 DEF RunsAreOfTheirKind
<1>2. ASSUME NEW u \in Threads, NEW kind \in Jobs, Fire(u, kind)
      PROVE  RunsAreOfTheirKind'
  <2>1. fired \in [Jobs -> Nat] /\ fired' = [fired EXCEPT ![kind] = @ + 1]
    BY <1>2, LedgerAssumption DEF Fire, IInv, TypeOK
  <2>2. fired'["fine"] >= fired["fine"] /\ (kind = "fine" => fired'["fine"] > 0)
    BY <2>1 DEF Jobs
  <2>3. /\ job'[u].kind = kind /\ thread' = thread /\ thread[u] = Idle
        /\ \A t \in Threads : t # u => job'[t] = job[t]
    BY <1>2 DEF Fire, IsFree, IInv, TypeOK
  <2>4. fired["fine"] \in Nat /\ fired'["fine"] \in Nat
    BY <2>1 DEF Jobs
  <2>5. QED  BY <2>2, <2>3, <2>4 DEF RunsAreOfTheirKind, Idle
<1>3. CASE Crash
  BY <1>3 DEF Crash, RunsAreOfTheirKind, NoJob, Idle
<1>4. CASE Tick
  BY <1>4 DEF Tick, RunsAreOfTheirKind
<1>5. CASE UNCHANGED vars
  BY <1>5 DEF vars, RunsAreOfTheirKind
<1>6. QED  BY <1>1, <1>2, <1>3, <1>4, <1>5 DEF Next

\* The runs that survive a handler's step.
LEMMA SurvivorStep ==
    ASSUME IInv, NEW u \in Threads, RequestStep(u) \/ Continue(u), today' = today,
           NEW t \in Threads, Survives(t), job[t].kind = "fine" => Unfined \subseteq job[t].todo,
           Unfined' \subseteq Unfined, Unfined' # {}
    PROVE  \E v \in Threads : Survives(v)'
<1> thread[t] \in Operation /\ job[t] \in JobLoop
  BY DEF IInv, TypeOK
<1>1. CASE ChargeFine(u)
  <2>1. job[u].kind = "fine" /\ thread'[u].op = "report"
    BY <1>1 DEF ChargeFine, ThenReport, IInv, TypeOK, ChargesAreListed
  <2>2. job'[u].kind = job[u].kind
    BY <1>1 DEF ChargeFine, DropTodoExpired, IInv, TypeOK
  <2>3. QED  BY <2>1, <2>2 DEF Survives
<1>2. CASE t # u /\ ~ChargeFine(u)
  <2>1. job'[t] = job[t] /\ thread'[t] = thread[t]
    BY <1>2, OthersStay DEF IInv
  <2>2. fineDays' = fineDays
    BY <1>2 DEF RequestStep, BeginInitiate, BeginOffline, BeginWaive, BeginCancel,
       BeginConfirm, Start, Continue, FinishInitiate, FinishOffline, FinishWaive,
       FinishCancel, FailConfirm, LoadConfirmedBill, FinishConfirm, Report,
       MarkOverdue, SkipFined, CheckFine, SkipReminded, CheckReminder,
       ChargeConflict, SendReminder, JobDone, tables
  <2>3. QED  BY <2>1, <2>2 DEF Survives, UniqueFine
<1>3. CASE t = u /\ ~ChargeFine(u)
  <2>1. ~RequestStep(u) /\ ~JobDone(u) /\ ~ChargeConflict(u)
    BY <1>3 DEF Survives, RequestStep, BeginInitiate, BeginOffline, BeginWaive,
       BeginCancel, BeginConfirm, Start, IsFree, NoJob, JobDone, ChargeConflict
  <2>2. job'[u].kind = "fine"
    <3>1. job[u].kind = "fine"
      BY <1>3 DEF Survives
    <3>2. CASE SendReminder(u)
      BY <3>1, <3>2 DEF SendReminder, DropTodo, IInv, TypeOK, JobLoop
    <3>3. CASE \E b \in Bills : MarkOverdue(u, b) \/ SkipFined(u, b) \/ SkipReminded(u, b)
      BY <3>1, <3>3 DEF MarkOverdue, SkipFined, SkipReminded, DropTodo, IInv, TypeOK, JobLoop
    <3>4. QED
      BY <1>3, <2>1, <3>1, <3>2, <3>3 DEF Continue, FinishInitiate, FinishOffline,
         FinishWaive, FinishCancel, FailConfirm, LoadConfirmedBill, FinishConfirm,
         Report, CheckFine, CheckReminder
  <2>3. thread'[u].op = "charge" => \E b \in Bills : CheckFine(u, b)
    <3>1. CASE Report(u)
      <4>1. [thread[u] EXCEPT !.rows = Tail(thread[u].rows)]
              = [op |-> "report", bill |-> thread[u].bill, rows |-> Tail(thread[u].rows)]
        BY <1>3, <3>1, RestOfReport DEF Report
      <4>2. QED  BY <3>1, <4>1 DEF Report, Idle, IInv, TypeOK
    <3>2. QED
      BY <1>3, <2>1, <3>1 DEF Continue, FinishInitiate, FinishOffline,
         FinishWaive, FinishCancel, FailConfirm, LoadConfirmedBill, FinishConfirm,
         MarkOverdue, SkipFined, SkipReminded, CheckReminder, SendReminder,
         ThenReport, InJob, Idle, IInv, TypeOK
  <2>4. ASSUME NEW b \in Bills, CheckFine(u, b)
        PROVE  today' \notin fineDays'[thread'[u].bill]
    <3>1. thread'[u].bill = b /\ today \notin fineDays[b] /\ fineDays' = fineDays
      BY <2>4 DEF CheckFine, FinedToday, tables, IInv, TypeOK
    <3>2. QED  BY <3>1
  <2>5. QED  BY <2>2, <2>3, <2>4 DEF Survives, UniqueFine
<1>4. QED  BY <1>1, <1>2, <1>3

LEMMA FinesUnderWayStep ==
    ASSUME DInv, [Next]_vars
    PROVE  FinesUnderWay'
<1> SUFFICES ASSUME crashes' = 0, fired'["fine"] > 0
             PROVE  /\ fired'["due"] = Processes
                    /\ \A t \in Threads : job'[t].kind # "due"
                    /\ \A t \in Threads : job'[t].kind = "fine" => Unfined' \subseteq job'[t].todo
                    /\ Unfined' # {} => \E t \in Threads : Survives(t)'
  BY DEF FinesUnderWay
<1> IInv
  BY DEF DInv
<1>1. ASSUME NEW u \in Threads, RequestStep(u) \/ Continue(u)
      PROVE  /\ fired'["due"] = Processes
             /\ \A t \in Threads : job'[t].kind # "due"
             /\ \A t \in Threads : job'[t].kind = "fine" => Unfined' \subseteq job'[t].todo
             /\ Unfined' # {} => \E t \in Threads : Survives(t)'
  <2>1. UNCHANGED <<today, crashes, fired>>
    BY <1>1, HandlersKeepClock
  <2>2. /\ fired["due"] = Processes
        /\ \A t \in Threads : job[t].kind # "due"
        /\ \A t \in Threads : job[t].kind = "fine" => Unfined \subseteq job[t].todo
        /\ Unfined # {} => \E t \in Threads : Survives(t)
    BY <2>1 DEF DInv, FinesUnderWay
  <2>3. Unfined' \subseteq Unfined
    BY <2>1, <2>2, UnfinedShrinks
  <2>4. \A t \in Threads : job'[t].kind # "due"
    <3> SUFFICES ASSUME NEW t \in Threads PROVE job'[t].kind # "due"
      OBVIOUS
    <3>1. CASE t # u
      BY <1>1, <2>2, <3>1, OthersStay DEF IInv
    <3>2. CASE t = u /\ RequestStep(u)
      BY <2>2, <3>2 DEF RequestStep, BeginInitiate, BeginOffline, BeginWaive,
         BeginCancel, BeginConfirm, Start
    <3>3. CASE t = u /\ Continue(u)
      <4>1. job[u].todo \subseteq Bills /\ thread[u] \in Operation
        BY DEF IInv, TypeOK, JobLoop
      <4>2. FinishConfirm(u) => job' = job
        BY DEF FinishConfirm
      <4>3. ~FinishConfirm(u) => job'[u].kind \in {job[u].kind, "none"}
        BY <3>3, <4>1, OperationFields DEF Continue, FinishInitiate, FinishOffline,
           FinishWaive, FinishCancel, FailConfirm, LoadConfirmedBill,
           Report, MarkOverdue, SkipFined, CheckFine, SkipReminded, CheckReminder,
           ChargeFine, ChargeConflict, SendReminder, JobDone, DropTodo,
           DropTodoExpired, NoJob, IInv, TypeOK, JobLoop
      <4>4. QED  BY <2>2, <3>3, <4>2, <4>3
    <3>4. QED  BY <1>1, <3>1, <3>2, <3>3
  <2>5. ASSUME NEW t \in Threads, job'[t].kind = "fine"
        PROVE  Unfined' \subseteq job'[t].todo
    <3>1. CASE t # u
      BY <1>1, <2>2, <2>3, <2>5, <3>1, OthersStay DEF IInv
    <3>2. CASE RequestStep(u)
      BY <2>2, <2>3, <2>5, <3>2 DEF RequestStep, BeginInitiate, BeginOffline, BeginWaive,
         BeginCancel, BeginConfirm, Start
    <3>3. CASE t = u /\ Continue(u)
      <4>1. /\ job[t].kind = "fine"
            /\ \A b \in job[t].todo : b \in job'[t].todo \/ today \in fineDays'[b]
        BY <2>5, <3>3, RunDropsFined DEF DInv
      <4>2. \A b \in Unfined' : today \notin fineDays'[b]
        BY <2>1 DEF Unfined, UniqueFine
      <4>3. QED  BY <2>2, <2>3, <4>1, <4>2
    <3>4. QED  BY <1>1, <3>1, <3>2, <3>3
  <2>6. Unfined' # {} => \E t \in Threads : Survives(t)'
    <3> SUFFICES ASSUME Unfined' # {} PROVE \E t \in Threads : Survives(t)'
      OBVIOUS
    <3>1. PICK t \in Threads : Survives(t)
      BY <2>2, <2>3
    <3>2. QED  BY <1>1, <2>1, <2>2, <2>3, <3>1, SurvivorStep
  <2>7. QED  BY <2>1, <2>2, <2>4, <2>5, <2>6
<1>2. ASSUME NEW u \in Threads, NEW kind \in Jobs, Fire(u, kind)
      PROVE  /\ fired'["due"] = Processes
             /\ \A t \in Threads : job'[t].kind # "due"
             /\ \A t \in Threads : job'[t].kind = "fine" => Unfined' \subseteq job'[t].todo
             /\ Unfined' # {} => \E t \in Threads : Survives(t)'
  <2>1. /\ UNCHANGED <<today, crashes, bill, fineDays, thread>>
        /\ thread[u] = Idle /\ job[u] = NoJob
        /\ job'[u].kind = kind /\ job'[u].todo = Selected(kind)
        /\ \A t \in Threads : t # u => job'[t] = job[t]
        /\ fired' = [fired EXCEPT ![kind] = @ + 1]
        /\ fired[kind] < Processes
    BY <1>2 DEF Fire, IsFree, tables, IInv, TypeOK
  <2>2. fired \in [Jobs -> 0..Processes] /\ Processes \in Nat
    BY LedgerAssumption DEF IInv, TypeOK
  <2>3. Unfined' = Unfined
    BY <2>1 DEF Unfined, UniqueFine
  <2>4. \A t \in Threads : Survives(t)' <=> \/ t # u /\ Survives(t)
                                            \/ t = u /\ kind = "fine"
    BY <2>1 DEF Survives, UniqueFine, Idle
  <2>5. CASE kind = "fine"
    <3>1. fired["due"] = Processes /\ \A t \in Threads : job[t].kind # "due"
      BY <1>2, <2>5 DEF Fire, Before
    <3>2. fired'["due"] = fired["due"]
      BY <2>1, <2>2, <2>5 DEF Jobs
    <3>3. Unfined \subseteq Selected("fine")
      BY DEF Unfined, Selected
    <3>4. \A t \in Threads : job[t].kind = "fine" => Unfined \subseteq job[t].todo
      BY <2>1 DEF DInv, RunsAreOfTheirKind, FinesUnderWay
    <3>5. QED  BY <2>1, <2>3, <2>4, <2>5, <3>1, <3>2, <3>3, <3>4
  <2>6. CASE kind # "fine"
    <3>1. fired'["fine"] = fired["fine"]
      BY <2>1, <2>2, <2>6 DEF Jobs
    <3>2. /\ fired["due"] = Processes
          /\ \A t \in Threads : job[t].kind # "due"
          /\ \A t \in Threads : job[t].kind = "fine" => Unfined \subseteq job[t].todo
          /\ Unfined # {} => \E t \in Threads : Survives(t)
      BY <2>1, <3>1 DEF DInv, FinesUnderWay
    <3>3. kind # "due"
      BY <2>1, <2>2, <3>2
    <3>4. fired'["due"] = fired["due"]
      BY <2>1, <2>2, <3>3 DEF Jobs
    <3>5. ~Survives(u)
      BY <2>1 DEF Survives, NoJob
    <3>6. QED  BY <2>1, <2>3, <2>4, <2>6, <3>2, <3>3, <3>4, <3>5
  <2>7. QED  BY <2>5, <2>6
<1>3. CASE Tick
  BY <1>3 DEF Tick, Jobs
<1>4. CASE Crash
  BY <1>4 DEF Crash, IInv, TypeOK
<1>5. CASE UNCHANGED vars
  <2>1. UNCHANGED <<today, crashes, fired, bill, fineDays, thread, job>>
    BY <1>5 DEF vars, tables
  <2>2. Unfined' = Unfined /\ \A t \in Threads : Survives(t)' <=> Survives(t)
    BY <2>1 DEF Unfined, Survives, UniqueFine
  <2>3. QED  BY <2>1, <2>2 DEF DInv, FinesUnderWay
<1>6. QED  BY <1>1, <1>2, <1>3, <1>4, <1>5 DEF Next

LEMMA InitDInv == Init => DInv
<1> SUFFICES ASSUME Init PROVE RunsAreOfTheirKind /\ FinesUnderWay
  BY InitIInv DEF DInv
<1>1. RunsAreOfTheirKind
  BY DEF Init, RunsAreOfTheirKind, Idle, NoJob
<1>2. fired["fine"] = 0
  BY DEF Init, Jobs
<1>3. QED  BY <1>1, <1>2 DEF FinesUnderWay

LEMMA NextDInv == DInv /\ [Next]_vars => DInv'
BY NextIInv, RunsAreOfTheirKindStep, FinesUnderWayStep DEF DInv

\* However the fine_accrual runs of a day overlap, with each other and with
\* requests, and although all but one of them may die on the UNIQUE constraint:
\* once they are over, every overdue bill has that day's fine.
THEOREM DailyFineIsApplied == Spec => []DailyFineApplied
<1>1. DInv => DailyFineApplied
  <2> SUFFICES ASSUME DInv, crashes = 0, fired["fine"] = Processes,
                      \A t \in Threads : job[t].kind # "fine"
               PROVE  Unfined = {}
    BY DEF DailyFineApplied, Unfined, UniqueFine
  <2>1. fired["fine"] > 0
    BY LedgerAssumption
  <2>2. QED  BY <2>1 DEF DInv, FinesUnderWay, Survives
<1>2. QED  BY <1>1, InitDInv, NextDInv, PTL DEF Spec

=============================================================================
