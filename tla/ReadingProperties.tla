------------------------- MODULE ReadingProperties -------------------------
(***************************************************************************)
(* What the reading cycle promises: first what overlapping handlers cannot *)
(* break, then what holds as long as handlers run one at a time.           *)
(***************************************************************************)
EXTENDS ReadingCycle

-----------------------------------------------------------------------------
(* Whatever overlaps.                                                      *)

\* A period that has left DRAFT is never a draft again, although an edit loaded
\* before may be committed after: only the columns that were edited are written.
DraftNeverReturns ==
    [][\A p \in Periods :
         period[p].status \notin {"none", "draft"} => period'[p].status # "draft"]_vars

\* A period with bills is no draft, so that no new edit of its rate or dates is
\* accepted, whatever the transitions and generation runs in flight.
BilledIsNoDraft ==
    \A p \in Periods, r \in Residents :
      bill[p][r] # NoBill => period[p].status \notin {"none", "draft"}

\* A final reading is changed by the administrator, or by a handler that loaded
\* the row before it was final: a submission or confirmation that comes late.  And
\* such a write does not take the value away (bills are made from it) unless what
\* it loaded had one: a column that was NULL and is to be NULL is not written.
LateWritesOnly ==
    [][\A p \in Periods, r \in Residents :
         (reading[p][r].status \in Finalized /\ reading'[p][r] # reading[p][r]) =>
           \E t \in Threads :
             /\ thread[t].op \in {"submit", "confirm", "override", "reject"}
             /\ thread[t].period = p /\ thread[t].resident = r /\ thread'[t] = Idle
             /\ thread[t].op \in {"submit", "confirm"} =>
                  thread[t].seen.status \notin Finalized
             /\ reading'[p][r].final = NoValue =>
                  reading[p][r].final = NoValue \/ thread[t].seen.final # NoValue]_vars

-----------------------------------------------------------------------------
(* One handler at a time.                                                  *)

Rank == [none |-> 0, draft |-> 1, open_for_readings |-> 2,
         readings_closed |-> 3, billed |-> 4, closed |-> 5]

\* A period goes through its lifecycle one status after the other and never
\* back, whether the administrator or a job moves it.
PeriodsMoveForward ==
    [][\A p \in Periods :
         period'[p].status # period[p].status =>
           Rank[period'[p].status] = Rank[period[p].status] + 1]_vars

\* What a resident has confirmed is more than the meter has shown before: its
\* bill cannot be zero or negative.
ConfirmedConsumesGas ==
    \A p \in Periods, r \in Residents :
      reading[p][r].status = "resident_confirmed" =>
        /\ reading[p][r].final # NoValue
        /\ reading[p][r].previous < reading[p][r].final

\* A bill is made from what is final at that moment, at the period's rate, and
\* only once the period takes no more readings; no bill is made over.
BillsQuoteFinalReadings ==
    [][\A p \in Periods, r \in Residents :
         bill'[p][r] # bill[p][r] =>
           /\ bill[p][r] = NoBill
           /\ period[p].status \in Generatable
           /\ reading[p][r].status \in Finalized
           /\ bill'[p][r].current = reading[p][r].final
           /\ bill'[p][r].previous = reading[p][r].previous
           /\ bill'[p][r].rate = period[p].rate]_vars

\* When the deadline check has done with a period, every resident has a bill or
\* has been told that the reading is missing, and nobody both.
DeadlineAccountsForAll ==
    [][\A t \in Threads, p \in Periods :
         (/\ thread[t].op = "bill" /\ thread[t].period = p /\ thread'[t] = Idle
          /\ job[t].kind = "deadline" /\ job'[t].kind = "deadline") =>
           \A r \in Residents :
             (bill'[p][r] = NoBill) = (told[p][r]["missing"] > 0)]_vars

\* A resident is told once that the reading of a period is missing, and so is the
\* administrator, whenever restarts cut the deadline check short.
MissingToldOnce ==
    \A p \in Periods, r \in Residents :
      told[p][r]["missing_admin"] <= told[p][r]["missing"] /\ told[p][r]["missing"] <= 1

\* Periods still open for readings after their windows have ended.
Lingering ==
    {p \in Periods : period[p].status = "open_for_readings" /\ period[p].end < today}

\* Such periods are closed, all of them, as long as there is another day for the
\* deadline check to run, although a restart may have cut one short.
OpenPeriodsClose == (Lingering # {} /\ today < MaxDay) ~> Lingering = {}

-----------------------------------------------------------------------------
(* Said of the program, and not so.                                        *)

\* A final reading is changed by an administrator and by nobody else: residents
\* cannot submit again.  A submission checks the row before the photo is analysed
\* and writes it after, so that one that comes late takes the status back.
FinalReadingsStand ==
    [][\A p \in Periods, r \in Residents :
         (reading[p][r].status \in Finalized /\ reading'[p][r] # reading[p][r]) =>
           \E t \in Threads : /\ thread[t].op \in {"override", "reject"}
                              /\ thread[t].period = p /\ thread[t].resident = r
                              /\ thread'[t] = Idle]_vars

\* No resident is charged twice for the same gas: the stretches of the meter
\* that two bills cover do not overlap.  A reading finalised after the
\* next period's submission has copied an older previous value breaks it.
NoGasBilledTwice ==
    \A p, q \in Periods, r \in Residents :
      (p # q /\ bill[p][r] # NoBill /\ bill[q][r] # NoBill) =>
        \/ bill[p][r].current <= bill[q][r].previous
        \/ bill[q][r].current <= bill[p][r].previous
        \/ bill[p][r].current <= bill[p][r].previous
        \/ bill[q][r].current <= bill[q][r].previous
=============================================================================
