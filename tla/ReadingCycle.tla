---------------------------- MODULE ReadingCycle ----------------------------
(***************************************************************************)
(* The measuring side of the backend, for one community: billing periods   *)
(* and their lifecycle, the meter readings residents submit in them and    *)
(* administrators review, and the bills generated from final readings      *)
(* (services/billing_service.py, services/meter_reading_service.py and the *)
(* first two jobs of jobs/definitions.py).                                 *)
(*                                                                         *)
(* As in module Ledger an action is one load or one commit, and thread[t]  *)
(* keeps what a handler has loaded.  The ORM writes back only the columns  *)
(* that differ from what was loaded (Flush), so a late commit may mix its  *)
(* columns with those of a commit it never saw.  Audit rows are left out.  *)
(***************************************************************************)
EXTENDS Integers, FiniteSets

CONSTANTS
    Periods,        \* period labels, unique in the community
    Residents,      \* active residents, each with an active meter
    Values,         \* values a meter photo can be read as, or an override set
                    \* (a photo read as 0 can never be confirmed: left out)
    NoValue,        \* NULL
    Windows,        \* <<start, end>> dates an administrator enters
    Rates,          \* rates per unit an administrator enters
    LabelOf,        \* LabelOf[d]: the label that today.strftime gives day d
    ReadingDays,    \* configuration reading_window_duration_days
    DefaultRate,    \* configuration default_rate_per_unit
    Threads,        \* handler threads of the one backend process
    MaxDay,         \* bound: last day of the calendar that is explored
    MaxRequests,    \* bound: requests that are explored
    MaxCrashes      \* bound: restarts that are explored

ASSUME ReadingAssumption ==
    /\ Values \subseteq Nat \ {0}
    /\ NoValue \notin Int
    /\ {MaxDay, MaxRequests, MaxCrashes, ReadingDays} \subseteq Nat
    /\ Windows \subseteq Nat \X Nat
    /\ Rates \subseteq Nat \ {0} /\ DefaultRate \in Nat \ {0}
    /\ LabelOf \in [0..MaxDay -> Periods]

VARIABLES
    today,      \* date.today()
    crashes,    \* restarts so far
    requests,   \* requests begun so far
    fired,      \* the jobs the scheduler has fired today
    period,     \* the billing_periods table
    reading,    \* the meter_readings table, by period and resident
    bill,       \* the bills table, by period and resident
    told,       \* told[p][r][n]: notifications of kind n about p and r
    thread,     \* thread[t]: the operation t is in the middle of
    job         \* job[t]: the job t runs, and the periods left on its list

tables == <<period, reading, bill, told>>
world == <<today, crashes, requests, fired>>
vars == <<world, tables, thread, job>>

PeriodStatus == {"draft", "open_for_readings", "readings_closed", "billed", "closed"}

\* An empty reading is a row whose flush has never been committed.
ReadingStatus == {"ai_accepted", "needs_review", "rejected",
                  "resident_confirmed", "admin_overridden"}

Finalized == {"resident_confirmed", "admin_overridden"}

\* Mutant: what the resident has confirmed can be photographed again.
ResubmittableOrConfirmed ==
    {"ai_accepted", "needs_review", "rejected", "resident_confirmed"}

Resubmittable == {"ai_accepted", "needs_review", "rejected"}

Notices == {"opened", "missing", "missing_admin"}
Jobs == {"kickoff", "deadline"}

NoPeriod == [status |-> "none"]
NoReading == [status |-> "none"]
NoBill == [status |-> "none"]

Dates == 0..(MaxDay + ReadingDays) \cup UNION {{w[1], w[2]} : w \in Windows}

Period == [id: Nat, status: PeriodStatus, start: Dates, end: Dates,
           rate: Rates \cup {DefaultRate}]
Value == Values \cup {0}
Reading == [status: ReadingStatus, previous: Value, created: Nat,
            submitted: Values \cup {NoValue}, final: Values \cup {NoValue}]
Bill == [status: {"issued"}, previous: Value, current: Value,
         rate: Rates \cup {DefaultRate}]

Idle == [op |-> "idle"]
NoJob == [kind |-> "none", todo |-> {}]

Operation ==
    {Idle}
    \cup [op: {"update"}, period: Periods, seen: Period, wanted: Period]
    \cup [op: {"move"}, period: Periods, seen: Period, to: PeriodStatus]
    \cup [op: {"announce", "chase"}, period: Periods, left: SUBSET Residents]
    \cup [op: {"copy"}, period: Periods, left: SUBSET Residents, about: Residents]
    \cup [op: {"survey"}, period: Periods]
    \cup [op: {"generate"}, period: Periods, seen: Period]
    \cup [op: {"bill"}, period: Periods, seen: Period, billed: SUBSET Residents,
          rows: [Residents -> Reading \cup {NoReading}]]
    \cup [op: {"draft"}, period: Periods]
    \cup [op: {"submit"}, period: Periods, resident: Residents,
          seen: Reading \cup {NoReading}]
    \cup [op: {"confirm", "override", "reject"}, period: Periods,
          resident: Residents, seen: Reading, wanted: Reading]

TypeOK ==
    /\ today \in 0..MaxDay
    /\ crashes \in 0..MaxCrashes
    /\ requests \in 0..MaxRequests
    /\ fired \subseteq Jobs
    /\ period \in [Periods -> Period \cup {NoPeriod}]
    /\ reading \in [Periods -> [Residents -> Reading \cup {NoReading}]]
    /\ bill \in [Periods -> [Residents -> Bill \cup {NoBill}]]
    /\ told \in [Periods -> [Residents -> [Notices -> Nat]]]
    /\ thread \in [Threads -> Operation]
    /\ job \in [Threads -> [kind: Jobs \cup {"none"}, todo: SUBSET Periods]]

\* A community with residents and meters, and no billing period yet.
Init ==
    /\ today = 0
    /\ crashes = 0
    /\ requests = 0
    /\ fired = {}
    /\ period = [p \in Periods |-> NoPeriod]
    /\ reading = [p \in Periods |-> [r \in Residents |-> NoReading]]
    /\ bill = [p \in Periods |-> [r \in Residents |-> NoBill]]
    /\ told = [p \in Periods |-> [r \in Residents |-> [n \in Notices |-> 0]]]
    /\ thread = [t \in Threads |-> Idle]
    /\ job = [t \in Threads |-> NoJob]

-----------------------------------------------------------------------------
(* What the handlers are made of.                                          *)

IsFree(t) == thread[t] = Idle /\ job[t] = NoJob

Become(t, op) == thread' = [thread EXCEPT ![t] = op]

\* Thread t takes one more request.
Request(t) ==
    /\ IsFree(t)
    /\ requests < MaxRequests
    /\ requests' = requests + 1
    /\ UNCHANGED <<today, crashes, fired>>

\* The handler of the request has loaded what it needs.
Start(t, op) ==
    /\ Request(t)
    /\ Become(t, op)
    /\ UNCHANGED <<tables, job>>

\* Thread t goes on with op and no table changes.
Carry(t, op) ==
    /\ Become(t, op)
    /\ UNCHANGED <<world, tables, job>>

\* The handler ends, by return or exception, and so does the job it is part of.
Stop(t) ==
    /\ thread' = [thread EXCEPT ![t] = Idle]
    /\ job' = [job EXCEPT ![t] = NoJob]
    /\ UNCHANGED <<world, tables>>

\* Mutant: a commit writes every column of the row.
WholeRow(stored, seen, wanted) == wanted

\* What a commit leaves in a row that was loaded as seen: the columns set to
\* something else than their loaded value are written, the others stay.
Flush(stored, seen, wanted) ==
    [c \in DOMAIN stored |-> IF wanted[c] = seen[c] THEN stored[c] ELSE wanted[c]]

FinalizedIn(p) == {r \in Residents : reading[p][r].status \in Finalized}

-----------------------------------------------------------------------------
(* Billing periods: requests of the administrator.                         *)

\* A new row; UNIQUE(community, label) stops whoever comes second.
InsertPeriod(p, start, end, rate) ==
    /\ period[p] = NoPeriod
    /\ period' = [period EXCEPT
                    ![p] = [id |-> Cardinality({q \in Periods : period[q] # NoPeriod}) + 1,
                            status |-> "draft", start |-> start, end |-> end,
                            rate |-> rate]]

\* The label is looked up, then the row inserted.
CreatePeriod(t, p) ==
    /\ Request(t)
    /\ \E w \in Windows, rate \in Rates : InsertPeriod(p, w[1], w[2], rate)
    /\ UNCHANGED <<reading, bill, told, thread, job>>

BeginUpdate(t, p) ==
    /\ period[p].status = "draft"
    /\ \E w \in Windows, rate \in Rates :
         Start(t, [op |-> "update", period |-> p, seen |-> period[p],
                   wanted |-> [period[p] EXCEPT !.start = w[1],
                                                !.end = w[2], !.rate = rate]])

FinishUpdate(t) ==
    /\ thread[t].op = "update"
    /\ LET p == thread[t].period
       IN  period' = [period EXCEPT
                        ![p] = Flush(@, thread[t].seen, thread[t].wanted)]
    /\ Become(t, Idle)
    /\ UNCHANGED <<world, reading, bill, told, job>>

\* Mutant: readings that were closed can be opened once more.
LifecycleReopened == {<<"draft", "open_for_readings">>,
                      <<"open_for_readings", "readings_closed">>,
                      <<"readings_closed", "open_for_readings">>,
                      <<"billed", "closed">>}

\* The transitions an administrator may ask for.
Lifecycle == {<<"draft", "open_for_readings">>,
              <<"open_for_readings", "readings_closed">>,
              <<"billed", "closed">>}

BeginMove(t, p) ==
    \E to \in PeriodStatus :
      /\ <<period[p].status, to>> \in Lifecycle
      /\ Start(t, [op |-> "move", period |-> p, seen |-> period[p], to |-> to])

\* _transition commits; a job then goes on with the period it has moved.
FinishMove(t) ==
    /\ thread[t].op = "move"
    /\ LET p == thread[t].period
       IN  /\ period' = [period EXCEPT
                           ![p] = Flush(@, thread[t].seen,
                                        [thread[t].seen EXCEPT !.status = thread[t].to])]
           /\ \/ job[t].kind = "none" /\ Become(t, Idle)
              \/ /\ job[t].kind = "kickoff"
                 /\ Become(t, [op |-> "announce", period |-> p, left |-> Residents])
              \/ job[t].kind = "deadline" /\ Become(t, [op |-> "survey", period |-> p])
    /\ UNCHANGED <<world, reading, bill, told, job>>

-----------------------------------------------------------------------------
(* Bill generation.                                                        *)

Generatable == {"readings_closed", "billed"}

BeginGenerate(t, p) ==
    /\ period[p].status \in Generatable
    /\ Start(t, [op |-> "generate", period |-> p, seen |-> period[p]])

\* The final readings and the bills there are already, by two queries in a row.
LoadReadings(t) ==
    /\ thread[t].op = "generate"
    /\ LET p == thread[t].period
       IN  Carry(t, [op |-> "bill", period |-> p, seen |-> thread[t].seen,
                     rows |-> reading[p],
                     billed |-> {r \in Residents : bill[p][r] # NoBill}])

\* Mutant: whatever value is final is billed, although the review rejected it.
AnyFinalValue(x) == x # NoReading

\* Rows the finalized_readings query selects.
ToBill(x) == x.status \in Finalized

\* Residents the loop makes a bill for; rows without a value are skipped.
NewlyBilled(t) ==
    {r \in Residents \ thread[t].billed :
       ToBill(thread[t].rows[r]) /\ thread[t].rows[r].final # NoValue}

FinishGenerate(t) ==
    /\ thread[t].op = "bill"
    /\ LET p == thread[t].period
           rows == thread[t].rows
           seen == thread[t].seen
       IN  /\ \A r \in NewlyBilled(t) : bill[p][r] = NoBill
           /\ bill' = [bill EXCEPT ![p] =
                [r \in Residents |->
                   IF r \in NewlyBilled(t)
                   THEN [status |-> "issued", previous |-> rows[r].previous,
                         current |-> rows[r].final, rate |-> seen.rate]
                   ELSE bill[p][r]]]
           /\ period' = [period EXCEPT
                           ![p] = Flush(@, seen, [seen EXCEPT !.status = "billed"])]
    /\ Become(t, Idle)
    /\ UNCHANGED <<world, reading, told, job>>

\* UNIQUE(period, resident) rejects a bill made by another run: none is kept.
GenerateConflict(t) ==
    /\ thread[t].op = "bill"
    /\ \E r \in NewlyBilled(t) : bill[thread[t].period][r] # NoBill
    /\ Stop(t)

-----------------------------------------------------------------------------
(* Meter readings: requests of residents and administrators.               *)

\* What the photo pipeline returns: an accepted result always has a reading.
\* Nothing is ever done with the reading of another result, if it has one.
VisionResult ==
    [status: {"ai_accepted"}, value: Values]
    \cup [status: {"needs_review", "rejected"}, value: {NoValue}]

Rows(r) == {p \in Periods : reading[p][r] # NoReading}

\* Mutant: a meter without final readings has no previous value.
PreviousOrNull(r, p, seen) ==
    IF \E q \in Periods : reading[q][r].status \in Finalized
    THEN CHOOSE v \in Values : \E q \in Periods : reading[q][r].final = v
    ELSE NoValue

\* get_previous_reading_value, for a submission to period p that has loaded its
\* row as seen: of the latest final row, the identity map returns the loaded
\* copy where it has one.
PreviousReadingValue(r, p, seen) ==
    LET final == {q \in Periods : reading[q][r].status \in Finalized}
        last == CHOOSE q \in final :
                  \A o \in final : reading[o][r].created <= reading[q][r].created
        value == IF last = p /\ seen # NoReading THEN seen.final
                                                ELSE reading[last][r].final
    IN  IF final = {} \/ value = NoValue THEN 0 ELSE value

Open == {p \in Periods : period[p].status = "open_for_readings"}

\* The open period that readings are for: the one whose window starts last, of
\* several the one created last.
IsCurrent(p) ==
    /\ p \in Open
    /\ \A q \in Open :
         \/ period[q].start < period[p].start
         \/ period[q].start = period[p].start /\ period[q].id <= period[p].id

\* The endpoint is a coroutine that never waits: submissions do not overlap.
BeginSubmit(t, r) ==
    /\ \A u \in Threads : thread[u].op # "submit"
    /\ \E p \in Periods :
         /\ IsCurrent(p)
         /\ reading[p][r] = NoReading \/ reading[p][r].status \in Resubmittable
         /\ Start(t, [op |-> "submit", period |-> p, resident |-> r,
                      seen |-> reading[p][r]])

\* The pipeline has answered: the previous value is loaded and all is written.
FinishSubmit(t) ==
    /\ thread[t].op = "submit"
    /\ LET p == thread[t].period
           r == thread[t].resident
           seen == thread[t].seen
       IN  \E result \in VisionResult :
             LET wanted(created) ==
                   [status |-> result.status, submitted |-> result.value,
                    previous |-> PreviousReadingValue(r, p, seen),
                    final |-> NoValue, created |-> created]
             IN  reading' = [reading EXCEPT ![p][r] =
                   IF seen = NoReading THEN wanted(Cardinality(Rows(r)) + 1)
                                       ELSE Flush(@, seen, wanted(seen.created))]
    /\ Become(t, Idle)
    /\ UNCHANGED <<world, period, bill, told, job>>

\* The value is not a number, or the image cannot be stored: nothing is kept.
AbandonSubmit(t) ==
    /\ thread[t].op = "submit"
    /\ Stop(t)

\* Mutant: a reading that equals the previous one can be confirmed.
ConfirmableUnchanged(x) ==
    x.status = "ai_accepted" /\ x.submitted # NoValue /\ x.previous <= x.submitted

Confirmable(x) ==
    x.status = "ai_accepted" /\ x.submitted # NoValue /\ x.previous < x.submitted

BeginConfirm(t, p, r) ==
    /\ reading[p][r] # NoReading
    /\ Confirmable(reading[p][r])
    /\ Start(t, [op |-> "confirm", period |-> p, resident |-> r,
                 seen |-> reading[p][r],
                 wanted |-> [reading[p][r] EXCEPT !.status = "resident_confirmed",
                                                  !.final = reading[p][r].submitted]])

BeginOverride(t, p, r) ==
    /\ reading[p][r] # NoReading
    /\ \E v \in Values :
         Start(t, [op |-> "override", period |-> p, resident |-> r,
                   seen |-> reading[p][r],
                   wanted |-> [reading[p][r] EXCEPT !.status = "admin_overridden",
                                                    !.final = v]])

BeginReject(t, p, r) ==
    /\ reading[p][r] # NoReading
    /\ Start(t, [op |-> "reject", period |-> p, resident |-> r,
                 seen |-> reading[p][r],
                 wanted |-> [reading[p][r] EXCEPT !.status = "rejected"]])

FinishReview(t) ==
    /\ thread[t].op \in {"confirm", "override", "reject"}
    /\ LET p == thread[t].period
           r == thread[t].resident
       IN  reading' = [reading EXCEPT
                         ![p][r] = Flush(@, thread[t].seen, thread[t].wanted)]
    /\ Become(t, Idle)
    /\ UNCHANGED <<world, period, bill, told, job>>

-----------------------------------------------------------------------------
(* The two jobs, each run at most once a day.                              *)

\* Mutant: only windows that have ended yesterday are looked for.
EndedYesterday(p) == period[p].end = today - 1

WindowOver(p) == period[p].end < today

From == [kickoff |-> "draft", deadline |-> "open_for_readings"]
To == [kickoff |-> "open_for_readings", deadline |-> "readings_closed"]

\* Mutant: the deadline check takes up what a restart has left half done.
ListedAgain(kind) ==
    {p \in Periods :
       IF kind = "kickoff" THEN period[p].status = "draft" /\ period[p].start <= today
       ELSE period[p].status \in {"open_for_readings", "readings_closed"} /\ WindowOver(p)}

\* The rows a job's opening query selects.
Listed(kind) ==
    {p \in Periods :
       /\ period[p].status = From[kind]
       /\ IF kind = "kickoff" THEN period[p].start <= today ELSE WindowOver(p)}

MoveByJob(t, kind, p) ==
    Become(t, [op |-> "move", period |-> p, seen |-> period[p], to |-> To[kind]])

\* The first period is moved from what the list has loaded.  Assumed of the
\* calendar: the kickoff (00:15) is over before the deadline check (00:30).
Fire(t, kind) ==
    /\ IsFree(t)
    /\ kind \notin fired
    /\ kind = "deadline" =>
         "kickoff" \in fired /\ \A u \in Threads : job[u].kind # "kickoff"
    /\ fired' = fired \cup {kind}
    /\ \/ /\ Listed(kind) = {}
          /\ job' = [job EXCEPT ![t] = [kind |-> kind, todo |-> {}]]
          /\ UNCHANGED thread
       \/ \E p \in Listed(kind) :
            /\ job' = [job EXCEPT ![t] = [kind |-> kind, todo |-> Listed(kind) \ {p}]]
            /\ MoveByJob(t, kind, p)
    /\ UNCHANGED <<today, crashes, requests, tables>>

\* Later ones are read again, the commits since having expired them; a period
\* that has been moved meanwhile raises ConflictError out of the job.
NextPeriod(t, p) ==
    /\ thread[t] = Idle
    /\ p \in job[t].todo
    /\ period[p].status = From[job[t].kind]
    /\ job' = [job EXCEPT ![t].todo = @ \ {p}]
    /\ MoveByJob(t, job[t].kind, p)
    /\ UNCHANGED <<world, tables>>

NextPeriodConflict(t, p) ==
    /\ thread[t] = Idle
    /\ p \in job[t].todo
    /\ period[p].status # From[job[t].kind]
    /\ Stop(t)

Tell(t, p, r, n) ==
    /\ told' = [told EXCEPT ![p][r][n] = @ + 1]
    /\ UNCHANGED <<world, period, reading, bill, job>>

TellOpened(t, r) ==
    /\ thread[t].op = "announce"
    /\ r \in thread[t].left
    /\ Tell(t, thread[t].period, r, "opened")
    /\ Become(t, [thread[t] EXCEPT !.left = @ \ {r}])

Announced(t) ==
    /\ thread[t].op = "announce"
    /\ thread[t].left = {}
    /\ Carry(t, Idle)

\* Mutant: residents with a reading in review are not chased.
FinalizedOrReviewed(p) == {r \in Residents : reading[p][r].status # "none"}

\* finalized_resident_ids: everyone else is to be told, and the administrator.
FinalizedResidents(p) == FinalizedIn(p)

Survey(t) ==
    /\ thread[t].op = "survey"
    /\ LET p == thread[t].period
       IN  Carry(t, [op |-> "chase", period |-> p,
                     left |-> Residents \ FinalizedResidents(p)])

TellMissing(t, r) ==
    /\ thread[t].op = "chase"
    /\ r \in thread[t].left
    /\ Tell(t, thread[t].period, r, "missing")
    /\ Become(t, [op |-> "copy", period |-> thread[t].period,
                  left |-> thread[t].left \ {r}, about |-> r])

TellMissingAdmin(t) ==
    /\ thread[t].op = "copy"
    /\ Tell(t, thread[t].period, thread[t].about, "missing_admin")
    /\ Become(t, [op |-> "chase", period |-> thread[t].period,
                  left |-> thread[t].left])

JobGenerate(t) ==
    /\ thread[t].op = "chase"
    /\ thread[t].left = {}
    /\ LET p == thread[t].period
       IN  /\ period[p].status \in Generatable
           /\ Carry(t, [op |-> "generate", period |-> p, seen |-> period[p]])

JobGenerateConflict(t) ==
    /\ thread[t].op = "chase"
    /\ thread[t].left = {}
    /\ period[thread[t].period].status \notin Generatable
    /\ Stop(t)

\* The kickoff ends with the next draft, unless one is pending or the month has
\* had its period.
Pending == \E p \in Periods : period[p].status \in {"draft", "open_for_readings"}

LoopDone(t, kind) ==
    /\ thread[t] = Idle
    /\ job[t] = [kind |-> kind, todo |-> {}]

CheckDraft(t) ==
    /\ LoopDone(t, "kickoff")
    /\ ~Pending
    /\ period[LabelOf[today]] = NoPeriod
    /\ Carry(t, [op |-> "draft", period |-> LabelOf[today]])

NoDraftNeeded(t) ==
    /\ LoopDone(t, "kickoff")
    /\ Pending \/ period[LabelOf[today]] # NoPeriod
    /\ Stop(t)

CreateDraft(t) ==
    /\ thread[t].op = "draft"
    /\ InsertPeriod(thread[t].period, today, today + ReadingDays, DefaultRate)
    /\ Become(t, Idle)
    /\ job' = [job EXCEPT ![t] = NoJob]
    /\ UNCHANGED <<world, reading, bill, told>>

\* The administrator has taken the label: the insert fails.
CreateDraftConflict(t) ==
    /\ thread[t].op = "draft"
    /\ period[thread[t].period] # NoPeriod
    /\ Stop(t)

DeadlineDone(t) ==
    /\ LoopDone(t, "deadline")
    /\ Stop(t)

-----------------------------------------------------------------------------
(* The environment.                                                        *)

\* Midnight.  Assumed of the calendar: the day's jobs have fired and are over.
Tick ==
    /\ today < MaxDay
    /\ fired = Jobs
    /\ \A t \in Threads : job[t].kind = "none"
    /\ today' = today + 1
    /\ fired' = {}
    /\ UNCHANGED <<crashes, requests, tables, thread, job>>

\* A restart loses what is in memory; jobs whose time passes are not made up
\* for.  Bound: not on the last day explored.
Crash ==
    /\ crashes < MaxCrashes
    /\ today < MaxDay
    /\ crashes' = crashes + 1
    /\ thread' = [t \in Threads |-> Idle]
    /\ job' = [t \in Threads |-> NoJob]
    /\ \E missed \in {{}, {"kickoff"}, Jobs} : fired' = fired \cup missed
    /\ UNCHANGED <<today, requests, tables>>

RequestStep(t) ==
    \/ \E p \in Periods : \/ CreatePeriod(t, p) \/ BeginUpdate(t, p)
                          \/ BeginMove(t, p)    \/ BeginGenerate(t, p)
    \/ \E r \in Residents : BeginSubmit(t, r)
    \/ \E p \in Periods, r \in Residents :
         BeginConfirm(t, p, r) \/ BeginOverride(t, p, r) \/ BeginReject(t, p, r)

\* Steps by which a thread carries on with what it has started.
Continue(t) ==
    \/ FinishUpdate(t) \/ FinishMove(t)
    \/ LoadReadings(t) \/ FinishGenerate(t) \/ GenerateConflict(t)
    \/ FinishSubmit(t) \/ AbandonSubmit(t) \/ FinishReview(t)
    \/ \E p \in Periods : NextPeriod(t, p) \/ NextPeriodConflict(t, p)
    \/ \E r \in Residents : TellOpened(t, r) \/ TellMissing(t, r)
    \/ Announced(t) \/ Survey(t) \/ TellMissingAdmin(t)
    \/ JobGenerate(t) \/ JobGenerateConflict(t)
    \/ CheckDraft(t) \/ NoDraftNeeded(t) \/ CreateDraft(t) \/ CreateDraftConflict(t)
    \/ DeadlineDone(t)

Next ==
    \/ \E t \in Threads : RequestStep(t) \/ Continue(t)
    \/ \E t \in Threads, kind \in Jobs : Fire(t, kind)
    \/ Tick
    \/ Crash

Spec == Init /\ [][Next]_vars

\* A started handler is run to its end; the scheduler fires every job, whatever
\* requests come and go (its pool is its own); days pass.
Fairness ==
    /\ \A t \in Threads : WF_vars(Continue(t))
    /\ SF_vars(\E t \in Threads, kind \in Jobs : Fire(t, kind))
    /\ WF_vars(Tick)

FairSpec == Spec /\ Fairness
=============================================================================
