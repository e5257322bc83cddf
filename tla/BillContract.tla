---------------------------- MODULE BillContract ----------------------------
(***************************************************************************)
(* What a bill promises to the resident who receives it, without any       *)
(* handler, payment attempt or job in sight.  An issued bill falls overdue *)
(* after its due date, grows by one fine a day while it is overdue, and is *)
(* settled by a payment or released by the administrator.  The sum owed is *)
(* frozen from then on.  A settled bill stays settled; a payment that was  *)
(* begun earlier still settles a bill that has been released, and one that *)
(* arrives for a settled bill is received once more.                       *)
(***************************************************************************)
EXTENDS Integers, FiniteSets

CONSTANTS Bills, DueDay, AmountDue, FinePerDay

VARIABLES
    day,        \* the calendar
    status,     \* where the bill stands
    fined,      \* the days it has been fined for
    owed,       \* the sum owed on it
    receipts    \* payments received for it

vars == <<day, status, fined, owed, receipts>>

Open == {"issued", "overdue"}

Init ==
    /\ day = 0
    /\ status = [b \in Bills |-> "issued"]
    /\ fined = [b \in Bills |-> {}]
    /\ owed = AmountDue
    /\ receipts = [b \in Bills |-> 0]

FallOverdue(b) ==
    /\ status[b] = "issued"
    /\ DueDay[b] < day
    /\ status' = [status EXCEPT ![b] = "overdue"]
    /\ UNCHANGED <<day, fined, owed, receipts>>

\* At most one fine a day.
AddFine(b) ==
    /\ status[b] = "overdue"
    /\ day \notin fined[b]
    /\ fined' = [fined EXCEPT ![b] = @ \cup {day}]
    /\ owed' = [owed EXCEPT ![b] = @ + FinePerDay]
    /\ UNCHANGED <<day, status, receipts>>

Settle(b) ==
    /\ status' = [status EXCEPT ![b] = "paid"]
    /\ receipts' = [receipts EXCEPT ![b] = @ + 1]
    /\ UNCHANGED <<day, fined, owed>>

Release(b) ==
    /\ status[b] \in Open
    /\ \E s \in {"waived", "cancelled"} : status' = [status EXCEPT ![b] = s]
    /\ UNCHANGED <<day, fined, owed, receipts>>

NextDay ==
    /\ day' = day + 1
    /\ UNCHANGED <<status, fined, owed, receipts>>

Next ==
    \/ \E b \in Bills : FallOverdue(b) \/ AddFine(b) \/ Settle(b) \/ Release(b)
    \/ NextDay

Spec == Init /\ [][Next]_vars
=============================================================================
