----------------------------- MODULE MCReading -----------------------------
(* Small instances of the reading cycle.                                   *)
EXTENDS ReadingProperties, TLC

CONSTANTS m1, m2

MCPeriods == {m1, m2}

\* The first day is the last of month m1.
MCLabelOf == [d \in 0..MaxDay |-> IF d = 0 THEN m1 ELSE m2]

\* The administrator's window lasts one day; the job's own drafts last a day too,
\* so that the calendar has room for a period and the one after it.
MCWindows == {<<0, 0>>}

\* All days are of one month.
MCOneLabel == [d \in 0..MaxDay |-> m1]

Sym == Permutations(Threads) \cup Permutations(Residents)
=============================================================================
