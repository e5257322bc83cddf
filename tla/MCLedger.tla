------------------------------ MODULE MCLedger ------------------------------
(* Small instances of the ledger.                                          *)
EXTENDS LedgerProperties, TLC

Sym == Permutations(Threads) \cup Permutations(Payments)

\* All bills of a period fall due the same day, here the first; one has to fall
\* overdue and be fined within the two or three days of the calendar.
MCDueDay == [b \in Bills |-> 0]
MCAmountDue == [b \in Bills |-> 5]
=============================================================================
