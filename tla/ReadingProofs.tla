---------------------------- MODULE ReadingProofs ----------------------------
(***************************************************************************)
(* Proofs about the reading cycle for every set of periods, residents and  *)
(* threads and every calendar, however handlers overlap and wherever the   *)
(* host restarts.                                                          *)
(***************************************************************************)
EXTENDS ReadingProperties, TLAPS, FiniteSetTheorems, WellFoundedInduction

-----------------------------------------------------------------------------
(* Rows and what a commit leaves of them.                                  *)

PeriodColumns == {"id", "status", "start", "end", "rate"}

ReadingColumns == {"status", "previous", "created", "submitted", "final"}

LEMMA PeriodFields ==
    ASSUME NEW x \in Period
    PROVE  /\ DOMAIN x = PeriodColumns
           /\ x.id \in Nat /\ x.status \in PeriodStatus
           /\ x.start \in Dates /\ x.end \in Dates /\ x.rate \in Rates \cup {DefaultRate}
BY DEF Period, PeriodColumns

LEMMA ReadingFields ==
    ASSUME NEW x \in Reading
    PROVE  /\ DOMAIN x = ReadingColumns
           /\ x.status \in ReadingStatus /\ x.previous \in Value /\ x.created \in Nat
           /\ x.submitted \in Values \cup {NoValue} /\ x.final \in Values \cup {NoValue}
BY DEF Reading, ReadingColumns

\* A column is the one stored or the one wanted; what is not edited stays.
LEMMA FlushPeriod ==
    ASSUME NEW stored \in Period, NEW seen \in Period, NEW wanted \in Period
    PROVE  /\ Flush(stored, seen, wanted) \in Period
           /\ Flush(stored, seen, wanted).status =
                IF wanted.status = seen.status THEN stored.status ELSE wanted.status
<1> DEFINE y == [c \in PeriodColumns |->
                   IF wanted[c] = seen[c] THEN stored[c] ELSE wanted[c]]
<1>1. Flush(stored, seen, wanted) = y
  BY PeriodFields DEF Flush
<1>2. /\ y["id"] \in Nat /\ y["status"] \in PeriodStatus
      /\ y["start"] \in Dates /\ y["end"] \in Dates
      /\ y["rate"] \in Rates \cup {DefaultRate}
      /\ y["status"] = IF wanted.status = seen.status THEN stored.status ELSE wanted.status
  BY PeriodFields DEF PeriodColumns
<1>3. y = [id |-> y["id"], status |-> y["status"], start |-> y["start"],
           end |-> y["end"], rate |-> y["rate"]]
  BY DEF PeriodColumns
<1> HIDE DEF y
<1>4. y \in Period
  BY <1>2, <1>3 DEF Period
<1>5. QED  BY <1>1, <1>2, <1>4

LEMMA FlushReading ==
    ASSUME NEW stored \in Reading, NEW seen \in Reading, NEW wanted \in Reading
    PROVE  /\ Flush(stored, seen, wanted) \in Reading
           /\ wanted.created = seen.created =>
                Flush(stored, seen, wanted).created = stored.created
           /\ Flush(stored, seen, wanted).final =
                IF wanted.final = seen.final THEN stored.final ELSE wanted.final
<1> DEFINE y == [c \in ReadingColumns |->
                   IF wanted[c] = seen[c] THEN stored[c] ELSE wanted[c]]
<1>1. Flush(stored, seen, wanted) = y
  BY ReadingFields DEF Flush
<1>2. /\ y["status"] \in ReadingStatus /\ y["previous"] \in Value /\ y["created"] \in Nat
      /\ y["submitted"] \in Values \cup {NoValue} /\ y["final"] \in Values \cup {NoValue}
      /\ wanted.created = seen.created => y["created"] = stored.created
      /\ y["final"] = IF wanted.final = seen.final THEN stored.final ELSE wanted.final
  BY ReadingFields DEF ReadingColumns
<1>3. y = [status |-> y["status"], previous |-> y["previous"], created |-> y["created"],
           submitted |-> y["submitted"], final |-> y["final"]]
  BY DEF ReadingColumns
<1> HIDE DEF y
<1>4. y \in Reading
  BY <1>2, <1>3 DEF Reading
<1>5. QED  BY <1>1, <1>2, <1>4

\* Rows that exist.
LEMMA RowsExist ==
    ASSUME TypeOK, NEW p \in Periods
    PROVE  /\ period[p] # NoPeriod <=> period[p] \in Period
           /\ period[p].status # "none" <=> period[p] \in Period
           /\ \A r \in Residents : /\ reading[p][r] # NoReading <=> reading[p][r] \in Reading
                                   /\ reading[p][r].status # "none" <=> reading[p][r] \in Reading
<1>1. NoPeriod \notin Period /\ NoPeriod.status = "none"
  BY DEF NoPeriod, Period, PeriodStatus
<1>2. NoReading \notin Reading /\ NoReading.status = "none"
  BY DEF NoReading, Reading, ReadingStatus
<1>3. \A x \in Period : x.status # "none"
  BY DEF Period, PeriodStatus
<1>4. \A x \in Reading : x.status # "none"
  BY DEF Reading, ReadingStatus
<1>5. QED  BY <1>1, <1>2, <1>3, <1>4 DEF TypeOK

\* The fields an operation has, by its name.
LEMMA OperationFields ==
    ASSUME NEW x \in Operation
    PROVE  /\ x.op # "idle" => x.period \in Periods
           /\ x.op \in {"update", "move", "generate", "bill"} => x.seen \in Period
           /\ x.op = "update" => x.wanted \in Period
           /\ x.op = "move" => x.to \in PeriodStatus
           /\ x.op \in {"announce", "chase", "copy"} => x.left \in SUBSET Residents
           /\ x.op = "copy" => x.about \in Residents
           /\ x.op = "bill" => /\ x.billed \in SUBSET Residents
                               /\ x.rows \in [Residents -> Reading \cup {NoReading}]
           /\ x.op = "submit" => x.resident \in Residents /\ x.seen \in Reading \cup {NoReading}
           /\ x.op \in {"confirm", "override", "reject"} =>
                x.resident \in Residents /\ x.seen \in Reading /\ x.wanted \in Reading
BY DEF Operation, Idle

-----------------------------------------------------------------------------
(* A nonempty set of numbers has a least element.                          *)

LEMMA Least ==
    ASSUME NEW T \in SUBSET Nat, T # {}
    PROVE  \E m \in T : \A n \in T : m <= n
<1> DEFINE R == OpToRel(<, Nat)
<1>1. IsWellFoundedOn(R, Nat)
  BY NatLessThanWellFounded
<1>2. \A x, y \in Nat : y < x => <<y, x>> \in R
  BY DEF OpToRel
<1> HIDE DEF R
<1>3. PICK m \in T : \A n \in T : ~(<<n, m>> \in R)
  BY <1>1, WFMin
<1>4. ASSUME NEW n \in T PROVE m <= n
  <2>1. ~(<<n, m>> \in R)
    BY <1>3
  <2>2. n \in Nat /\ m \in Nat
    OBVIOUS
  <2>3. ~(n < m)
    BY <2>1, <2>2, <1>2
  <2>4. QED  BY <2>2, <2>3
<1>5. QED  BY <1>4

-----------------------------------------------------------------------------
(* The invariant.                                                          *)

Existing == {q \in Periods : period[q] # NoPeriod}

\* Rows are numbered as they are inserted, so that one of them is the latest.
RowsNumbered ==
    \A r \in Residents :
      /\ IsFiniteSet(Rows(r))
      /\ \A p \in Rows(r) : reading[p][r].created <= Cardinality(Rows(r))

OneSubmission ==
    \A t, u \in Threads :
      (thread[t].op = "submit" /\ thread[u].op = "submit") => t = u

\* What an operation in flight still knows of the row it has loaded, however
\* many other handlers have written to it since: the row is there, its period has
\* not gone back to DRAFT, and nothing but the edited columns will be written.  Nor
\* is a final reading submitted again or confirmed by who has seen it final.
StillTrue(x) ==
    /\ x.op \in {"update", "move", "generate", "bill"} => period[x.period] # NoPeriod
    /\ x.op = "update" => x.wanted.status = x.seen.status
    /\ x.op = "move" => x.to # "draft"
    /\ x.op \in {"generate", "bill"} => period[x.period].status \notin {"none", "draft"}
    /\ x.op = "submit" =>
         (x.seen = NoReading <=> reading[x.period][x.resident] = NoReading)
    /\ x.op \in {"confirm", "override", "reject"} =>
         reading[x.period][x.resident] # NoReading /\ x.wanted.created = x.seen.created
    /\ x.op \in {"submit", "confirm"} => x.seen.status \notin Finalized
    /\ x.op \in {"confirm", "override"} => x.wanted.final # NoValue
    /\ x.op = "reject" => x.wanted.final = x.seen.final

RInv ==
    /\ TypeOK
    /\ IsFiniteSet(Existing)
    /\ RowsNumbered
    /\ OneSubmission
    /\ \A t \in Threads : StillTrue(thread[t])
    /\ \A t \in Threads : job[t].kind = "none" => job[t].todo = {}
    /\ BilledIsNoDraft

-----------------------------------------------------------------------------
(* What a step does to each table.                                         *)

LEMMA PeriodStep ==
    ASSUME TypeOK, [Next]_vars
    PROVE  \/ UNCHANGED period
           \/ /\ UNCHANGED <<reading, bill>>
              /\ \E p \in Periods, start, end \in Dates, rate \in Rates \cup {DefaultRate} :
                   InsertPeriod(p, start, end, rate)
           \/ \E t \in Threads : FinishUpdate(t) \/ FinishMove(t) \/ FinishGenerate(t)
<1>1. ASSUME NEW t \in Threads, NEW p \in Periods, CreatePeriod(t, p)
      PROVE  /\ UNCHANGED <<reading, bill>>
             /\ \E start, end \in Dates, rate \in Rates \cup {DefaultRate} :
                  InsertPeriod(p, start, end, rate)
  <2>1. PICK w \in Windows, rate \in Rates : InsertPeriod(p, w[1], w[2], rate)
    BY <1>1 DEF CreatePeriod
  <2>2. w[1] \in Dates /\ w[2] \in Dates
    BY DEF Dates
  <2>3. QED  BY <1>1, <2>1, <2>2 DEF CreatePeriod
<1>2. ASSUME NEW t \in Threads, CreateDraft(t)
      PROVE  /\ UNCHANGED <<reading, bill>>
             /\ \E p \in Periods, start, end \in Dates, rate \in Rates \cup {DefaultRate} :
                  InsertPeriod(p, start, end, rate)
  <2>1. thread[t].period \in Periods
    BY <1>2, OperationFields DEF CreateDraft, TypeOK
  <2>2. today \in Dates /\ today + ReadingDays \in Dates
    BY ReadingAssumption DEF TypeOK, Dates
  <2>3. QED  BY <1>2, <2>1, <2>2 DEF CreateDraft
<1>3. ASSUME NEW t \in Threads, RequestStep(t)
      PROVE  UNCHANGED period \/ \E p \in Periods : CreatePeriod(t, p)
  BY <1>3 DEF RequestStep, BeginUpdate, BeginMove, BeginGenerate, BeginSubmit,
     BeginConfirm, BeginOverride, BeginReject, Start, tables
<1>4. ASSUME NEW t \in Threads, Continue(t)
      PROVE  UNCHANGED period \/ CreateDraft(t) \/ FinishUpdate(t) \/ FinishMove(t)
               \/ FinishGenerate(t)
  BY <1>4 DEF Continue, LoadReadings, GenerateConflict, FinishSubmit, AbandonSubmit,
     FinishReview, NextPeriod, NextPeriodConflict, TellOpened, TellMissing, Announced,
     Survey, TellMissingAdmin, JobGenerate, JobGenerateConflict, CheckDraft,
     NoDraftNeeded, CreateDraftConflict, DeadlineDone, Carry, Stop, Tell, tables
<1>5. ASSUME \/ Tick \/ Crash \/ UNCHANGED vars
             \/ \E t \in Threads, kind \in Jobs : Fire(t, kind)
      PROVE  UNCHANGED period
  BY <1>5 DEF Tick, Crash, Fire, vars, tables
<1>6. QED  BY <1>1, <1>2, <1>3, <1>4, <1>5 DEF Next

LEMMA ReadingStep ==
    ASSUME [Next]_vars
    PROVE  UNCHANGED reading \/ \E t \in Threads : FinishSubmit(t) \/ FinishReview(t)
<1>1. ASSUME NEW t \in Threads, RequestStep(t)
      PROVE  UNCHANGED reading
  BY <1>1 DEF RequestStep, CreatePeriod, BeginUpdate, BeginMove, BeginGenerate,
     BeginSubmit, BeginConfirm, BeginOverride, BeginReject, Start, tables
<1>2. ASSUME NEW t \in Threads, Continue(t)
      PROVE  UNCHANGED reading \/ FinishSubmit(t) \/ FinishReview(t)
  BY <1>2 DEF Continue, FinishUpdate, FinishMove, LoadReadings, FinishGenerate,
     GenerateConflict, AbandonSubmit, NextPeriod, NextPeriodConflict, TellOpened,
     TellMissing, Announced, Survey, TellMissingAdmin, JobGenerate,
     JobGenerateConflict, CheckDraft, NoDraftNeeded, CreateDraft, CreateDraftConflict,
     DeadlineDone, Carry, Stop, Tell, tables
<1>3. ASSUME \/ Tick \/ Crash \/ UNCHANGED vars
             \/ \E t \in Threads, kind \in Jobs : Fire(t, kind)
      PROVE  UNCHANGED reading
  BY <1>3 DEF Tick, Crash, Fire, vars, tables
<1>4. QED  BY <1>1, <1>2, <1>3 DEF Next

LEMMA BillStep ==
    ASSUME [Next]_vars
    PROVE  UNCHANGED bill \/ \E t \in Threads : FinishGenerate(t)
<1>1. ASSUME NEW t \in Threads, RequestStep(t)
      PROVE  UNCHANGED bill
  BY <1>1 DEF RequestStep, CreatePeriod, BeginUpdate, BeginMove, BeginGenerate,
     BeginSubmit, BeginConfirm, BeginOverride, BeginReject, Start, tables
<1>2. ASSUME NEW t \in Threads, Continue(t)
      PROVE  UNCHANGED bill \/ FinishGenerate(t)
  BY <1>2 DEF Continue, FinishUpdate, FinishMove, LoadReadings, FinishSubmit,
     FinishReview, GenerateConflict, AbandonSubmit, NextPeriod, NextPeriodConflict,
     TellOpened, TellMissing, Announced, Survey, TellMissingAdmin, JobGenerate,
     JobGenerateConflict, CheckDraft, NoDraftNeeded, CreateDraft, CreateDraftConflict,
     DeadlineDone, Carry, Stop, Tell, tables
<1>3. ASSUME \/ Tick \/ Crash \/ UNCHANGED vars
             \/ \E t \in Threads, kind \in Jobs : Fire(t, kind)
      PROVE  UNCHANGED bill
  BY <1>3 DEF Tick, Crash, Fire, vars, tables
<1>4. QED  BY <1>1, <1>2, <1>3 DEF Next

LEMMA ToldStep ==
    ASSUME [Next]_vars
    PROVE  \/ UNCHANGED told
           \/ \E t \in Threads, r \in Residents : TellOpened(t, r) \/ TellMissing(t, r)
           \/ \E t \in Threads : TellMissingAdmin(t)
<1>1. ASSUME NEW t \in Threads, RequestStep(t)
      PROVE  UNCHANGED told
  BY <1>1 DEF RequestStep, CreatePeriod, BeginUpdate, BeginMove, BeginGenerate,
     BeginSubmit, BeginConfirm, BeginOverride, BeginReject, Start, tables
<1>2. ASSUME NEW t \in Threads, Continue(t)
      PROVE  \/ UNCHANGED told
             \/ \E r \in Residents : TellOpened(t, r) \/ TellMissing(t, r)
             \/ TellMissingAdmin(t)
  BY <1>2 DEF Continue, FinishUpdate, FinishMove, LoadReadings, FinishGenerate,
     FinishSubmit, FinishReview, GenerateConflict, AbandonSubmit, NextPeriod,
     NextPeriodConflict, Announced, Survey, JobGenerate, JobGenerateConflict,
     CheckDraft, NoDraftNeeded, CreateDraft, CreateDraftConflict, DeadlineDone,
     Carry, Stop, tables
<1>3. ASSUME \/ Tick \/ Crash \/ UNCHANGED vars
             \/ \E t \in Threads, kind \in Jobs : Fire(t, kind)
      PROVE  UNCHANGED told
  BY <1>3 DEF Tick, Crash, Fire, vars, tables
<1>4. QED  BY <1>1, <1>2, <1>3 DEF Next

-----------------------------------------------------------------------------
(* Types.                                                                  *)

LEMMA PeriodWithStatus ==
    ASSUME NEW x \in Period, NEW s \in PeriodStatus
    PROVE  /\ [x EXCEPT !.status = s] \in Period
           /\ [x EXCEPT !.status = s].status = s
           /\ [x EXCEPT !.status = s].id = x.id /\ [x EXCEPT !.status = s].rate = x.rate
           /\ [x EXCEPT !.status = s].start = x.start /\ [x EXCEPT !.status = s].end = x.end
BY DEF Period

\* Of a resident's final rows one is the latest, and its value is a number.
LEMMA PreviousValueType ==
    ASSUME TypeOK, RowsNumbered, NEW r \in Residents, NEW p \in Periods,
           NEW seen \in Reading \cup {NoReading}
    PROVE  PreviousReadingValue(r, p, seen) \in Value
<1> DEFINE final == {q \in Periods : reading[q][r].status \in Finalized}
           last == CHOOSE q \in final :
                     \A o \in final : reading[o][r].created <= reading[q][r].created
           value == IF last = p /\ seen # NoReading THEN seen.final
                                                    ELSE reading[last][r].final
           below == {Cardinality(Rows(r)) - reading[q][r].created : q \in final}
<1>1. \A q \in final : /\ reading[q][r] \in Reading /\ reading[q][r].created \in Nat
                       /\ reading[q][r].created <= Cardinality(Rows(r))
  <2> TAKE q \in final
  <2>1. q \in Periods /\ reading[q][r].status # "none"
    BY DEF Finalized
  <2>2. reading[q][r] \in Reading /\ reading[q][r] # NoReading
    BY <2>1, RowsExist
  <2>3. q \in Rows(r)
    BY <2>1, <2>2 DEF Rows
  <2>4. QED  BY <2>2, <2>3, ReadingFields DEF RowsNumbered
<1>2. Cardinality(Rows(r)) \in Nat
  BY FS_CardinalityType DEF RowsNumbered
<1>3. CASE final = {}
  BY <1>3 DEF PreviousReadingValue, Value
<1>4. CASE final # {}
  <2>1. below \in SUBSET Nat /\ below # {}
    <3>1. \A c, d \in Nat : c <= d => d - c \in Nat
      OBVIOUS
    <3>2. \A q \in final : Cardinality(Rows(r)) - reading[q][r].created \in Nat
      <4> HIDE DEF final
      <4> QED  BY <1>1, <1>2, <3>1
    <3> HIDE DEF final
    <3>3. QED  BY <3>2, <1>4
  <2>2. PICK m \in below : \A n \in below : m <= n
    <3> HIDE DEF below
    <3> QED  BY <2>1, Least
  <2>3. PICK q \in final : m = Cardinality(Rows(r)) - reading[q][r].created
    BY <2>2
  <2>4. \A o \in final : reading[o][r].created <= reading[q][r].created
    <3> TAKE o \in final
    <3>1. m <= Cardinality(Rows(r)) - reading[o][r].created
      BY <2>2
    <3>2. QED  BY <1>1, <1>2, <2>3, <3>1
  <2>5. last \in final
    <3> HIDE DEF final
    <3> QED  BY <2>3, <2>4
  <2>6. value \in Values \cup {NoValue}
    <3>1. reading[last][r].final \in Values \cup {NoValue}
      BY <2>5, <1>1, ReadingFields
    <3>2. seen # NoReading => seen.final \in Values \cup {NoValue}
      BY ReadingFields
    <3> HIDE DEF last
    <3>3. QED  BY <3>1, <3>2
  <2>7. PreviousReadingValue(r, p, seen) = IF final = {} \/ value = NoValue THEN 0 ELSE value
    BY DEF PreviousReadingValue
  <2> HIDE DEF value
  <2>8. QED  BY <2>6, <2>7 DEF Value
<1>5. QED  BY <1>3, <1>4

LEMMA PeriodType ==
    ASSUME TypeOK, IsFiniteSet(Existing), \A t \in Threads : StillTrue(thread[t]), [Next]_vars
    PROVE  period' \in [Periods -> Period \cup {NoPeriod}]
<1>1. ASSUME NEW p \in Periods, NEW start \in Dates, NEW end \in Dates,
             NEW rate \in Rates \cup {DefaultRate}, InsertPeriod(p, start, end, rate)
      PROVE  period' \in [Periods -> Period \cup {NoPeriod}]
  <2>1. Cardinality({q \in Periods : period[q] # NoPeriod}) + 1 \in Nat
    BY FS_CardinalityType DEF Existing
  <2>2. QED  BY <1>1, <2>1 DEF InsertPeriod, TypeOK, Period, PeriodStatus
<1>2. ASSUME NEW t \in Threads, FinishUpdate(t)
      PROVE  period' \in [Periods -> Period \cup {NoPeriod}]
  <2>1. /\ thread[t].period \in Periods /\ thread[t].seen \in Period
        /\ thread[t].wanted \in Period
    BY <1>2, OperationFields DEF FinishUpdate, TypeOK
  <2>2. period[thread[t].period] \in Period
    BY <1>2, <2>1, RowsExist DEF FinishUpdate, StillTrue
  <2>3. QED  BY <1>2, <2>1, <2>2, FlushPeriod DEF FinishUpdate, TypeOK
<1>3. ASSUME NEW t \in Threads, FinishMove(t)
      PROVE  period' \in [Periods -> Period \cup {NoPeriod}]
  <2>1. /\ thread[t].period \in Periods /\ thread[t].seen \in Period
        /\ thread[t].to \in PeriodStatus
    BY <1>3, OperationFields DEF FinishMove, TypeOK
  <2>2. period[thread[t].period] \in Period
    BY <1>3, <2>1, RowsExist DEF FinishMove, StillTrue
  <2>3. PICK y : y = [thread[t].seen EXCEPT !.status = thread[t].to]
    OBVIOUS
  <2>4. y \in Period
    BY <2>1, <2>3, PeriodWithStatus
  <2>5. period' = [period EXCEPT ![thread[t].period] =
                     Flush(period[thread[t].period], thread[t].seen, y)]
    BY <1>3, <2>3 DEF FinishMove
  <2>6. QED  BY <2>1, <2>2, <2>4, <2>5, FlushPeriod DEF TypeOK
<1>4. ASSUME NEW t \in Threads, FinishGenerate(t)
      PROVE  period' \in [Periods -> Period \cup {NoPeriod}]
  <2>1. /\ thread[t].period \in Periods /\ thread[t].seen \in Period
        /\ "billed" \in PeriodStatus
    BY <1>4, OperationFields DEF FinishGenerate, TypeOK, PeriodStatus
  <2>2. period[thread[t].period] \in Period
    BY <1>4, <2>1, RowsExist DEF FinishGenerate, StillTrue
  <2>3. PICK y : y = [thread[t].seen EXCEPT !.status = "billed"]
    OBVIOUS
  <2>4. y \in Period
    BY <2>1, <2>3, PeriodWithStatus
  <2>5. period' = [period EXCEPT ![thread[t].period] =
                     Flush(period[thread[t].period], thread[t].seen, y)]
    BY <1>4, <2>3 DEF FinishGenerate
  <2>6. QED  BY <2>1, <2>2, <2>4, <2>5, FlushPeriod DEF TypeOK
<1>5. QED  BY <1>1, <1>2, <1>3, <1>4, PeriodStep DEF TypeOK

LEMMA SubmitType ==
    ASSUME TypeOK, RowsNumbered, NEW t \in Threads, StillTrue(thread[t]), FinishSubmit(t)
    PROVE  /\ thread[t].op = "submit"
           /\ thread[t].period \in Periods /\ thread[t].resident \in Residents
           /\ thread'[t] = Idle
           /\ \E y \in Reading :
                /\ reading' = [reading EXCEPT ![thread[t].period][thread[t].resident] = y]
                /\ y.status \notin Finalized \/ (thread[t].seen # NoReading)
                /\ y.created = IF thread[t].seen = NoReading
                               THEN Cardinality(Rows(thread[t].resident)) + 1
                               ELSE reading[thread[t].period][thread[t].resident].created
                /\ (thread[t].seen # NoReading /\ y.final = NoValue) =>
                     \/ reading[thread[t].period][thread[t].resident].final = NoValue
                     \/ thread[t].seen.final # NoValue
<1> DEFINE p == thread[t].period
           r == thread[t].resident
           seen == thread[t].seen
           row(result, created) ==
             [status |-> result.status, submitted |-> result.value,
              previous |-> PreviousReadingValue(r, p, seen),
              final |-> NoValue, created |-> created]
<1>1. /\ thread[t].op = "submit" /\ thread'[t] = Idle
      /\ p \in Periods /\ r \in Residents /\ seen \in Reading \cup {NoReading}
  BY OperationFields DEF FinishSubmit, TypeOK, Become
<1>2. PICK result \in VisionResult :
        reading' = [reading EXCEPT ![p][r] =
          IF seen = NoReading THEN row(result, Cardinality(Rows(r)) + 1)
                              ELSE Flush(reading[p][r], seen, row(result, seen.created))]
  BY DEF FinishSubmit
<1>3. PreviousReadingValue(r, p, seen) \in Value
  BY <1>1, PreviousValueType
<1>4. /\ result.status \in ReadingStatus /\ result.status \notin Finalized
      /\ result.value \in Values \cup {NoValue}
  BY DEF VisionResult, ReadingStatus, Finalized
<1>5. ASSUME NEW created \in Nat
      PROVE  /\ row(result, created) \in Reading
             /\ row(result, created).created = created
             /\ row(result, created).status \notin Finalized
             /\ row(result, created).final = NoValue
  BY <1>3, <1>4 DEF Reading
<1>6. CASE seen = NoReading
  <2>1. Cardinality(Rows(r)) + 1 \in Nat
    BY <1>1, FS_CardinalityType DEF RowsNumbered
  <2>2. PICK y : y = row(result, Cardinality(Rows(r)) + 1)
    OBVIOUS
  <2>3. y \in Reading /\ y.created = Cardinality(Rows(r)) + 1 /\ y.status \notin Finalized
    BY <1>5, <2>1, <2>2
  <2>4. reading' = [reading EXCEPT ![p][r] = y]
    BY <1>2, <1>6, <2>2
  <2>5. QED  BY <1>1, <1>6, <2>3, <2>4
<1>7. CASE seen # NoReading
  <2>1. seen \in Reading /\ seen.created \in Nat
    BY <1>1, <1>7, ReadingFields
  <2>2. reading[p][r] \in Reading
    BY <1>1, <1>7, RowsExist DEF StillTrue
  <2>3. PICK w : w = row(result, seen.created)
    OBVIOUS
  <2>4. w \in Reading /\ w.created = seen.created /\ w.final = NoValue
    BY <1>5, <2>1, <2>3
  <2>5. PICK y : y = Flush(reading[p][r], seen, w)
    OBVIOUS
  <2>6. /\ y \in Reading /\ y.created = reading[p][r].created
        /\ y.final = NoValue => reading[p][r].final = NoValue \/ seen.final # NoValue
    BY <2>1, <2>2, <2>4, <2>5, FlushReading
  <2>7. reading' = [reading EXCEPT ![p][r] = y]
    BY <1>2, <1>7, <2>3, <2>5
  <2>8. QED  BY <1>1, <1>7, <2>6, <2>7
<1>8. QED  BY <1>6, <1>7

LEMMA ReviewType ==
    ASSUME TypeOK, NEW t \in Threads, StillTrue(thread[t]), FinishReview(t)
    PROVE  /\ thread[t].op \in {"confirm", "override", "reject"}
           /\ thread[t].period \in Periods /\ thread[t].resident \in Residents
           /\ thread'[t] = Idle
           /\ reading[thread[t].period][thread[t].resident] # NoReading
           /\ \E y \in Reading :
                /\ reading' = [reading EXCEPT ![thread[t].period][thread[t].resident] = y]
                /\ y.created = reading[thread[t].period][thread[t].resident].created
                /\ y.final = NoValue =>
                     reading[thread[t].period][thread[t].resident].final = NoValue
<1> DEFINE p == thread[t].period
           r == thread[t].resident
<1>1. /\ thread[t].op \in {"confirm", "override", "reject"} /\ thread'[t] = Idle
      /\ p \in Periods /\ r \in Residents
      /\ thread[t].seen \in Reading /\ thread[t].wanted \in Reading
  BY OperationFields DEF FinishReview, TypeOK, Become
<1>2. /\ reading[p][r] # NoReading /\ thread[t].wanted.created = thread[t].seen.created
      /\ thread[t].wanted.final # NoValue \/ thread[t].wanted.final = thread[t].seen.final
  BY <1>1 DEF StillTrue
<1>3. reading[p][r] \in Reading
  BY <1>1, <1>2, RowsExist
<1>4. PICK y : y = Flush(reading[p][r], thread[t].seen, thread[t].wanted)
  OBVIOUS
<1>5. /\ y \in Reading /\ y.created = reading[p][r].created
      /\ y.final = NoValue => reading[p][r].final = NoValue
  BY <1>1, <1>2, <1>3, <1>4, FlushReading
<1>6. reading' = [reading EXCEPT ![p][r] = y]
  BY <1>4 DEF FinishReview
<1>7. QED  BY <1>1, <1>2, <1>5, <1>6

LEMMA ReadingType ==
    ASSUME TypeOK, RowsNumbered, \A t \in Threads : StillTrue(thread[t]), [Next]_vars
    PROVE  reading' \in [Periods -> [Residents -> Reading \cup {NoReading}]]
<1>1. ASSUME NEW p \in Periods, NEW r \in Residents, NEW y \in Reading,
             reading' = [reading EXCEPT ![p][r] = y]
      PROVE  reading' \in [Periods -> [Residents -> Reading \cup {NoReading}]]
  BY <1>1 DEF TypeOK
<1>2. ASSUME NEW t \in Threads, FinishSubmit(t) \/ FinishReview(t)
      PROVE  \E p \in Periods, r \in Residents, y \in Reading :
               reading' = [reading EXCEPT ![p][r] = y]
  <2> DEFINE p == thread[t].period
             r == thread[t].resident
  <2>1. CASE FinishSubmit(t)
    <3>1. /\ p \in Periods /\ r \in Residents
          /\ \E y \in Reading : reading' = [reading EXCEPT ![p][r] = y]
      BY <2>1, SubmitType
    <3> HIDE DEF p, r
    <3>2. QED  BY <3>1
  <2>2. CASE FinishReview(t)
    <3>1. /\ p \in Periods /\ r \in Residents
          /\ \E y \in Reading : reading' = [reading EXCEPT ![p][r] = y]
      BY <2>2, ReviewType
    <3> HIDE DEF p, r
    <3>2. QED  BY <3>1
  <2>3. QED  BY <1>2, <2>1, <2>2
<1>3. CASE UNCHANGED reading
  BY <1>3 DEF TypeOK
<1>4. QED  BY <1>1, <1>2, <1>3, ReadingStep

LEMMA BillType ==
    ASSUME TypeOK, [Next]_vars
    PROVE  bill' \in [Periods -> [Residents -> Bill \cup {NoBill}]]
<1>1. ASSUME NEW t \in Threads, FinishGenerate(t)
      PROVE  bill' \in [Periods -> [Residents -> Bill \cup {NoBill}]]
  <2>1. /\ thread[t].period \in Periods /\ thread[t].seen.rate \in Rates \cup {DefaultRate}
        /\ thread[t].rows \in [Residents -> Reading \cup {NoReading}]
    BY <1>1, OperationFields, PeriodFields DEF FinishGenerate, TypeOK
  <2>2. ASSUME NEW r \in NewlyBilled(t)
        PROVE  [status |-> "issued", previous |-> thread[t].rows[r].previous,
                current |-> thread[t].rows[r].final, rate |-> thread[t].seen.rate] \in Bill
    <3>1. /\ thread[t].rows[r] \in Reading \cup {NoReading}
          /\ thread[t].rows[r].status \in Finalized /\ thread[t].rows[r].final # NoValue
      BY <2>1 DEF NewlyBilled, ToBill
    <3>2. thread[t].rows[r] \in Reading
      BY <3>1 DEF NoReading, Finalized
    <3>3. thread[t].rows[r].previous \in Value /\ thread[t].rows[r].final \in Value
      BY <3>1, <3>2, ReadingFields DEF Value
    <3>4. QED  BY <2>1, <3>3 DEF Bill
  <2>3. bill' = [bill EXCEPT ![thread[t].period] =
                [r \in Residents |->
                   IF r \in NewlyBilled(t)
                   THEN [status |-> "issued", previous |-> thread[t].rows[r].previous,
                         current |-> thread[t].rows[r].final, rate |-> thread[t].seen.rate]
                   ELSE bill[thread[t].period][r]]]
    BY <1>1 DEF FinishGenerate
  <2>4. QED  BY <2>1, <2>2, <2>3 DEF TypeOK
<1>2. QED  BY <1>1, BillStep DEF TypeOK

LEMMA ToldType ==
    ASSUME TypeOK, [Next]_vars
    PROVE  told' \in [Periods -> [Residents -> [Notices -> Nat]]]
<1>1. ASSUME NEW t \in Threads, NEW p \in Periods, NEW r \in Residents, NEW n \in Notices,
             Tell(t, p, r, n)
      PROVE  told' \in [Periods -> [Residents -> [Notices -> Nat]]]
  BY <1>1 DEF Tell, TypeOK
<1>2. ASSUME NEW t \in Threads, NEW r \in Residents, TellOpened(t, r) \/ TellMissing(t, r)
      PROVE  \E p \in Periods, n \in Notices : Tell(t, p, r, n)
  BY <1>2, OperationFields DEF TellOpened, TellMissing, TypeOK, Notices
<1>3. ASSUME NEW t \in Threads, TellMissingAdmin(t)
      PROVE  \E p \in Periods, r \in Residents, n \in Notices : Tell(t, p, r, n)
  BY <1>3, OperationFields DEF TellMissingAdmin, TypeOK, Notices
<1>4. QED  BY <1>1, <1>2, <1>3, ToldStep DEF TypeOK

LEMMA JobType ==
    ASSUME TypeOK, \A t \in Threads : job[t].kind = "none" => job[t].todo = {}, [Next]_vars
    PROVE  /\ job' \in [Threads -> [kind: Jobs \cup {"none"}, todo: SUBSET Periods]]
           /\ \A t \in Threads : job'[t].kind = "none" => job'[t].todo = {}
<1>1. ASSUME NEW t \in Threads, NEW kind \in Jobs, Fire(t, kind)
      PROVE  \E todo \in SUBSET Periods : job' = [job EXCEPT ![t] = [kind |-> kind, todo |-> todo]]
  BY <1>1 DEF Fire, Listed
<1>2. ASSUME NEW t \in Threads, NEW p \in Periods, NextPeriod(t, p)
      PROVE  job' = [job EXCEPT ![t] = [kind |-> job[t].kind, todo |-> job[t].todo \ {p}]]
  <2>1. \A j \in [kind: Jobs \cup {"none"}, todo: SUBSET Periods], S \in SUBSET Periods :
          [j EXCEPT !.todo = S] = [kind |-> j.kind, todo |-> S]
    OBVIOUS
  <2>2. job[t] \in [kind: Jobs \cup {"none"}, todo: SUBSET Periods]
    BY DEF TypeOK
  <2>3. job' = [job EXCEPT ![t] = [job[t] EXCEPT !.todo = job[t].todo \ {p}]]
    BY <1>2 DEF NextPeriod
  <2>4. [job[t] EXCEPT !.todo = job[t].todo \ {p}]
          = [kind |-> job[t].kind, todo |-> job[t].todo \ {p}]
    BY <2>1, <2>2
  <2>5. QED  BY <2>3, <2>4
<1>3. ASSUME NEW t \in Threads, Stop(t) \/ CreateDraft(t)
      PROVE  job' = [job EXCEPT ![t] = [kind |-> "none", todo |-> {}]]
  BY <1>3 DEF Stop, CreateDraft, NoJob
<1>4. ASSUME NEW t \in Threads, RequestStep(t)
      PROVE  UNCHANGED job
  BY <1>4 DEF RequestStep, CreatePeriod, BeginUpdate, BeginMove, BeginGenerate,
     BeginSubmit, BeginConfirm, BeginOverride, BeginReject, Start
<1>5. ASSUME NEW t \in Threads, Continue(t)
      PROVE  UNCHANGED job \/ Stop(t) \/ CreateDraft(t) \/ \E p \in Periods : NextPeriod(t, p)
  BY <1>5 DEF Continue, FinishUpdate, FinishMove, LoadReadings, FinishGenerate,
     FinishSubmit, FinishReview, GenerateConflict, AbandonSubmit, NextPeriodConflict,
     TellOpened, TellMissing, Announced, Survey, TellMissingAdmin, JobGenerate,
     JobGenerateConflict, CheckDraft, NoDraftNeeded, CreateDraftConflict,
     DeadlineDone, Carry, Tell
<1>6. ASSUME Tick \/ UNCHANGED vars
      PROVE  UNCHANGED job
  BY <1>6 DEF Tick, vars
<1>7. ASSUME Crash
      PROVE  job' = [t \in Threads |-> [kind |-> "none", todo |-> {}]]
  BY <1>7 DEF Crash, NoJob
<1>8. \A t \in Threads : "kickoff" # "none" /\ "deadline" # "none"
  OBVIOUS
<1>9. CASE UNCHANGED job
  BY <1>9 DEF TypeOK
<1>10. ASSUME NEW t \in Threads, NEW k \in Jobs \cup {"none"}, NEW todo \in SUBSET Periods,
              job' = [job EXCEPT ![t] = [kind |-> k, todo |-> todo]], k = "none" => todo = {}
       PROVE  /\ job' \in [Threads -> [kind: Jobs \cup {"none"}, todo: SUBSET Periods]]
              /\ \A u \in Threads : job'[u].kind = "none" => job'[u].todo = {}
  BY <1>10 DEF TypeOK
<1>11. ASSUME NEW t \in Threads, NEW kind \in Jobs, Fire(t, kind)
       PROVE  /\ job' \in [Threads -> [kind: Jobs \cup {"none"}, todo: SUBSET Periods]]
              /\ \A u \in Threads : job'[u].kind = "none" => job'[u].todo = {}
  BY <1>1, <1>10, <1>11 DEF Jobs
<1>12. ASSUME NEW t \in Threads, NEW p \in Periods, NextPeriod(t, p)
       PROVE  /\ job' \in [Threads -> [kind: Jobs \cup {"none"}, todo: SUBSET Periods]]
              /\ \A u \in Threads : job'[u].kind = "none" => job'[u].todo = {}
  <2>1. /\ job[t].kind \in Jobs \cup {"none"} /\ job[t].kind # "none"
        /\ job[t].todo \ {p} \in SUBSET Periods
    <3>1. p \in job[t].todo
      BY <1>12 DEF NextPeriod
    <3>2. job[t] \in [kind: Jobs \cup {"none"}, todo: SUBSET Periods]
      BY DEF TypeOK
    <3>3. QED  BY <3>1, <3>2
  <2>2. PICK k, todo : k = job[t].kind /\ todo = job[t].todo \ {p}
    OBVIOUS
  <2>3. job' = [job EXCEPT ![t] = [kind |-> k, todo |-> todo]]
    BY <1>2, <1>12, <2>2
  <2>4. k \in Jobs \cup {"none"} /\ k # "none" /\ todo \in SUBSET Periods
    BY <2>1, <2>2
  <2>5. QED  BY <1>10, <2>3, <2>4
<1>13. ASSUME NEW t \in Threads, Stop(t) \/ CreateDraft(t)
       PROVE  /\ job' \in [Threads -> [kind: Jobs \cup {"none"}, todo: SUBSET Periods]]
              /\ \A u \in Threads : job'[u].kind = "none" => job'[u].todo = {}
  BY <1>3, <1>10, <1>13
<1>14. CASE Crash
  BY <1>7, <1>14
<1>15. QED  BY <1>4, <1>5, <1>6, <1>9, <1>11, <1>12, <1>13, <1>14 DEF Next

LEMMA WorldType ==
    ASSUME TypeOK, [Next]_vars
    PROVE  /\ today' \in 0..MaxDay /\ crashes' \in 0..MaxCrashes
           /\ requests' \in 0..MaxRequests /\ fired' \subseteq Jobs
<1>1. ASSUME NEW t \in Threads, RequestStep(t)
      PROVE  Request(t)
  BY <1>1 DEF RequestStep, CreatePeriod, BeginUpdate, BeginMove, BeginGenerate,
     BeginSubmit, BeginConfirm, BeginOverride, BeginReject, Start
<1>2. ASSUME NEW t \in Threads, Continue(t)
      PROVE  UNCHANGED world
  BY <1>2 DEF Continue, FinishUpdate, FinishMove, LoadReadings, FinishGenerate,
     FinishSubmit, FinishReview, GenerateConflict, AbandonSubmit, NextPeriod,
     NextPeriodConflict, TellOpened, TellMissing, Announced, Survey, TellMissingAdmin,
     JobGenerate, JobGenerateConflict, CheckDraft, NoDraftNeeded, CreateDraft,
     CreateDraftConflict, DeadlineDone, Carry, Stop, Tell
<1>3. ASSUME NEW t \in Threads, Request(t)
      PROVE  UNCHANGED <<today, crashes, fired>> /\ requests' \in 0..MaxRequests
  BY <1>3, ReadingAssumption DEF Request, TypeOK
<1>4. CASE Tick
  BY <1>4, ReadingAssumption DEF Tick, tables, TypeOK
<1>5. CASE Crash
  <2>1. fired' \subseteq Jobs
    BY <1>5 DEF Crash, TypeOK, Jobs
  <2>2. /\ crashes < MaxCrashes /\ crashes' = crashes + 1
        /\ today' = today /\ requests' = requests
    BY <1>5 DEF Crash
  <2>3. QED  BY <2>1, <2>2, ReadingAssumption DEF TypeOK
<1>6. CASE \E t \in Threads, kind \in Jobs : Fire(t, kind)
  BY <1>6 DEF Fire, TypeOK
<1>7. CASE UNCHANGED world
  BY <1>7 DEF world, TypeOK
<1>8. CASE UNCHANGED vars
  BY <1>7, <1>8 DEF vars
<1>9. QED  BY <1>1, <1>2, <1>3, <1>4, <1>5, <1>6, <1>7, <1>8 DEF Next, TypeOK

-----------------------------------------------------------------------------
(* What a thread has in hand after a step.                                 *)

LEMMA JobMoves ==
    ASSUME TypeOK, NEW t \in Threads, NEW kind \in Jobs, NEW p \in Periods,
           period[p].status = From[kind], MoveByJob(t, kind, p)
    PROVE  /\ thread' \in [Threads -> Operation]
           /\ \A u \in Threads : u # t => thread'[u] = thread[u]
           /\ thread'[t].op = "move" /\ thread'[t].period = p
           /\ thread'[t].to = To[kind] /\ To[kind] # "draft"
           /\ thread'[t].seen = period[p] /\ period[p] \in Period
<1>1. From[kind] # "none" /\ To[kind] \in PeriodStatus /\ To[kind] # "draft"
  BY DEF From, To, Jobs, PeriodStatus
<1>2. period[p] \in Period
  BY <1>1, RowsExist
<1>3. [op |-> "move", period |-> p, seen |-> period[p], to |-> To[kind]] \in Operation
  BY <1>1, <1>2 DEF Operation
<1>4. QED  BY <1>1, <1>2, <1>3 DEF MoveByJob, Become, TypeOK

LEMMA ReadingReviewed ==
    ASSUME NEW x \in Reading, NEW s \in ReadingStatus, NEW v \in Values \cup {NoValue}
    PROVE  /\ [x EXCEPT !.status = s] \in Reading
           /\ [x EXCEPT !.status = s].created = x.created
           /\ [x EXCEPT !.status = s].final = x.final
           /\ [x EXCEPT !.status = s, !.final = v] \in Reading
           /\ [x EXCEPT !.status = s, !.final = v].final = v
           /\ [x EXCEPT !.status = s, !.final = v].created = x.created
BY DEF Reading

\* The operations that hold what they have loaded.
Loaded == {"update", "move", "generate", "bill", "submit", "confirm", "override", "reject"}

\* What thread t has in hand after a step that puts it there.
Begun(t) ==
    /\ thread' \in [Threads -> Operation]
    /\ \A u \in Threads : u # t => thread'[u] = thread[u]
    /\ thread'[t].op \in Loaded =>
         /\ UNCHANGED <<period, reading, bill>>
         /\ StillTrue(thread'[t])
    /\ thread'[t].op = "submit" => \A u \in Threads : thread[u].op # "submit"

LEMMA Started ==
    ASSUME TypeOK, NEW t \in Threads, NEW x \in Operation, StillTrue(x),
           UNCHANGED <<period, reading, bill>>, Become(t, x),
           x.op = "submit" => \A u \in Threads : thread[u].op # "submit"
    PROVE  Begun(t)
BY DEF Begun, Become, TypeOK

LEMMA PeriodRequests ==
    ASSUME TypeOK, NEW t \in Threads, NEW p \in Periods,
           BeginUpdate(t, p) \/ BeginMove(t, p) \/ BeginGenerate(t, p)
    PROVE  Begun(t)
<1>1. CASE BeginUpdate(t, p)
  <2>1. period[p] \in Period /\ period[p] # NoPeriod
    BY <1>1, RowsExist DEF BeginUpdate
  <2>2. PICK w \in Windows, rate \in Rates :
          Start(t, [op |-> "update", period |-> p, seen |-> period[p],
                    wanted |-> [period[p] EXCEPT !.start = w[1],
                                                 !.end = w[2], !.rate = rate]])
    BY <1>1 DEF BeginUpdate
  <2>3. w[1] \in Dates /\ w[2] \in Dates
    BY DEF Dates
  <2>4. PICK y : y = [period[p] EXCEPT !.start = w[1], !.end = w[2], !.rate = rate]
    OBVIOUS
  <2>5. y \in Period /\ y.status = period[p].status
    <3>1. PICK c, start, end : c = period[p] /\ start = w[1] /\ end = w[2]
      OBVIOUS
    <3>2. y = [c EXCEPT !.start = start, !.end = end, !.rate = rate]
      BY <2>4, <3>1
    <3>3. c \in Period /\ start \in Dates /\ end \in Dates /\ rate \in Rates \cup {DefaultRate}
      BY <2>1, <2>3, <3>1
    <3>4. y \in Period /\ y.status = c.status
      BY <3>2, <3>3 DEF Period
    <3>5. QED  BY <3>1, <3>4
  <2>6. PICK x : x = [op |-> "update", period |-> p, seen |-> period[p], wanted |-> y]
    OBVIOUS
  <2>7. x \in Operation /\ StillTrue(x) /\ x.op # "submit"
    BY <2>1, <2>5, <2>6 DEF Operation, StillTrue
  <2>8. Become(t, x) /\ UNCHANGED <<period, reading, bill>>
    BY <2>2, <2>4, <2>6 DEF Start, tables
  <2>9. QED  BY <2>7, <2>8, Started
<1>2. CASE BeginMove(t, p)
  <2>1. PICK to \in PeriodStatus :
          /\ <<period[p].status, to>> \in Lifecycle
          /\ Start(t, [op |-> "move", period |-> p, seen |-> period[p], to |-> to])
    BY <1>2 DEF BeginMove
  <2>2. period[p].status # "none" /\ to # "draft"
    BY <2>1 DEF Lifecycle
  <2>3. period[p] \in Period /\ period[p] # NoPeriod
    BY <2>2, RowsExist
  <2>4. PICK x : x = [op |-> "move", period |-> p, seen |-> period[p], to |-> to]
    OBVIOUS
  <2>5. x \in Operation /\ StillTrue(x) /\ x.op # "submit"
    BY <2>2, <2>3, <2>4 DEF Operation, StillTrue
  <2>6. Become(t, x) /\ UNCHANGED <<period, reading, bill>>
    BY <2>1, <2>4 DEF Start, tables
  <2>7. QED  BY <2>5, <2>6, Started
<1>3. CASE BeginGenerate(t, p)
  <2>1. period[p].status \notin {"none", "draft"}
    BY <1>3 DEF BeginGenerate, Generatable
  <2>2. period[p] \in Period /\ period[p] # NoPeriod
    BY <2>1, RowsExist
  <2>3. PICK x : x = [op |-> "generate", period |-> p, seen |-> period[p]]
    OBVIOUS
  <2>4. x \in Operation /\ StillTrue(x) /\ x.op # "submit"
    BY <2>1, <2>2, <2>3 DEF Operation, StillTrue
  <2>5. Become(t, x) /\ UNCHANGED <<period, reading, bill>>
    BY <1>3, <2>3 DEF BeginGenerate, Start, tables
  <2>6. QED  BY <2>4, <2>5, Started
<1>4. QED  BY <1>1, <1>2, <1>3

LEMMA ReadingRequests ==
    ASSUME TypeOK, NEW t \in Threads, NEW r \in Residents,
           \/ BeginSubmit(t, r)
           \/ \E p \in Periods : \/ BeginConfirm(t, p, r) \/ BeginOverride(t, p, r)
                                 \/ BeginReject(t, p, r)
    PROVE  Begun(t)
<1>1. CASE BeginSubmit(t, r)
  <2>1. PICK p \in Periods :
          /\ Start(t, [op |-> "submit", period |-> p, resident |-> r,
                       seen |-> reading[p][r]])
          /\ reading[p][r].status \notin Finalized
    BY <1>1 DEF BeginSubmit, NoReading, Resubmittable, Finalized
  <2>2. PICK x : x = [op |-> "submit", period |-> p, resident |-> r, seen |-> reading[p][r]]
    OBVIOUS
  <2>3. x \in Operation /\ StillTrue(x)
    BY <2>1, <2>2 DEF Operation, StillTrue, TypeOK
  <2>4. Become(t, x) /\ UNCHANGED <<period, reading, bill>>
    BY <2>1, <2>2 DEF Start, tables
  <2>5. \A u \in Threads : thread[u].op # "submit"
    BY <1>1 DEF BeginSubmit
  <2>6. QED  BY <2>3, <2>4, <2>5, Started
<1>2. ASSUME NEW p \in Periods, NEW op \in {"confirm", "override", "reject"}, NEW y \in Reading,
             reading[p][r] \in Reading, y.created = reading[p][r].created,
             op = "confirm" => reading[p][r].status \notin Finalized,
             op # "reject" => y.final # NoValue,
             op = "reject" => y.final = reading[p][r].final,
             Start(t, [op |-> op, period |-> p, resident |-> r, seen |-> reading[p][r],
                       wanted |-> y])
      PROVE  Begun(t)
  <2>1. PICK x : x = [op |-> op, period |-> p, resident |-> r, seen |-> reading[p][r],
                      wanted |-> y]
    OBVIOUS
  <2>2. reading[p][r] # NoReading
    BY <1>2, RowsExist
  <2>3. x \in Operation
    BY <1>2, <2>1 DEF Operation
  <2>4. StillTrue(x) /\ x.op # "submit"
    BY <1>2, <2>1, <2>2 DEF StillTrue
  <2>5. Become(t, x) /\ UNCHANGED <<period, reading, bill>>
    BY <1>2, <2>1 DEF Start, tables
  <2>6. QED  BY <2>3, <2>4, <2>5, Started
<1>3. ASSUME NEW p \in Periods, BeginConfirm(t, p, r)
      PROVE  Begun(t)
  <2>1. reading[p][r] \in Reading
    BY <1>3, RowsExist DEF BeginConfirm
  <2>2. PICK y : y = [reading[p][r] EXCEPT !.status = "resident_confirmed",
                                           !.final = reading[p][r].submitted]
    OBVIOUS
  <2>3. /\ y \in Reading /\ y.created = reading[p][r].created
        /\ y.final = reading[p][r].submitted
    BY <2>1, <2>2, ReadingReviewed, ReadingFields DEF ReadingStatus
  <2>4. y.final # NoValue /\ reading[p][r].status \notin Finalized
    BY <1>3, <2>3 DEF BeginConfirm, Confirmable, Finalized
  <2>5. QED  BY <1>2, <1>3, <2>1, <2>2, <2>3, <2>4 DEF BeginConfirm
<1>4. ASSUME NEW p \in Periods, BeginOverride(t, p, r)
      PROVE  Begun(t)
  <2>1. reading[p][r] \in Reading
    BY <1>4, RowsExist DEF BeginOverride
  <2>2. PICK v \in Values :
          Start(t, [op |-> "override", period |-> p, resident |-> r,
                    seen |-> reading[p][r],
                    wanted |-> [reading[p][r] EXCEPT !.status = "admin_overridden",
                                                     !.final = v]])
    BY <1>4 DEF BeginOverride
  <2>3. PICK y : y = [reading[p][r] EXCEPT !.status = "admin_overridden", !.final = v]
    OBVIOUS
  <2>4. y \in Reading /\ y.created = reading[p][r].created /\ y.final = v
    BY <2>1, <2>3, ReadingReviewed DEF ReadingStatus
  <2>5. v # NoValue
    BY ReadingAssumption
  <2>6. QED  BY <1>2, <2>1, <2>2, <2>3, <2>4, <2>5
<1>5. ASSUME NEW p \in Periods, BeginReject(t, p, r)
      PROVE  Begun(t)
  <2>1. reading[p][r] \in Reading
    BY <1>5, RowsExist DEF BeginReject
  <2>2. PICK y : y = [reading[p][r] EXCEPT !.status = "rejected"]
    OBVIOUS
  <2>3. /\ y \in Reading /\ y.created = reading[p][r].created
        /\ y.final = reading[p][r].final
    BY <2>1, <2>2, ReadingReviewed DEF ReadingStatus
  <2>4. QED  BY <1>2, <1>5, <2>1, <2>2, <2>3 DEF BeginReject
<1>6. QED  BY <1>1, <1>3, <1>4, <1>5

\* An operation that has loaded nothing it holds, or nothing at all.
LEMMA Freed ==
    ASSUME TypeOK, NEW t \in Threads, NEW x \in Operation, Become(t, x), x.op \notin Loaded
    PROVE  Begun(t)
BY DEF Begun, Become, TypeOK, Loaded

LEMMA Continued ==
    ASSUME TypeOK, \A t \in Threads : StillTrue(thread[t]),
           \A t \in Threads : job[t].kind = "none" => job[t].todo = {},
           NEW t \in Threads, Continue(t)
    PROVE  Begun(t)
<1>1. Idle \in Operation /\ Idle.op \notin Loaded
  BY DEF Operation, Idle, Loaded
<1>2. CASE \/ FinishUpdate(t) \/ FinishGenerate(t) \/ GenerateConflict(t)
           \/ FinishSubmit(t) \/ AbandonSubmit(t) \/ FinishReview(t) \/ Announced(t)
           \/ JobGenerateConflict(t) \/ NoDraftNeeded(t) \/ CreateDraft(t)
           \/ CreateDraftConflict(t) \/ DeadlineDone(t)
           \/ \E p \in Periods : NextPeriodConflict(t, p)
  <2>1. Become(t, Idle)
    BY <1>2 DEF FinishUpdate, FinishGenerate, GenerateConflict, FinishSubmit,
       AbandonSubmit, FinishReview, Announced, JobGenerateConflict, NoDraftNeeded,
       CreateDraft, CreateDraftConflict, DeadlineDone, NextPeriodConflict, Stop, Carry,
       Become
  <2>2. QED  BY <1>1, <2>1, Freed
<1>3. CASE FinishMove(t)
  <2>1. thread[t].period \in Periods
    BY <1>3, OperationFields DEF FinishMove, TypeOK
  <2>2. PICK x : /\ Become(t, x)
                 /\ \/ x = Idle
                    \/ x = [op |-> "announce", period |-> thread[t].period, left |-> Residents]
                    \/ x = [op |-> "survey", period |-> thread[t].period]
    BY <1>3 DEF FinishMove
  <2>3. x \in Operation /\ x.op \notin Loaded
    BY <1>1, <2>1, <2>2 DEF Operation, Loaded
  <2>4. QED  BY <2>2, <2>3, Freed
<1>4. CASE LoadReadings(t)
  <2>1. thread[t].op = "generate" /\ thread[t].period \in Periods /\ thread[t].seen \in Period
    BY <1>4, OperationFields DEF LoadReadings, TypeOK
  <2>2. PICK x : x = [op |-> "bill", period |-> thread[t].period, seen |-> thread[t].seen,
                      rows |-> reading[thread[t].period],
                      billed |-> {r \in Residents : bill[thread[t].period][r] # NoBill}]
    OBVIOUS
  <2>3. x \in Operation /\ x.op = "bill" /\ x.period = thread[t].period
    BY <2>1, <2>2 DEF Operation, TypeOK
  <2>4. StillTrue(x)
    BY <2>1, <2>3 DEF StillTrue
  <2>5. Become(t, x) /\ UNCHANGED <<period, reading, bill>>
    BY <1>4, <2>2 DEF LoadReadings, Carry, tables
  <2>6. QED  BY <2>3, <2>4, <2>5, Started
<1>5. CASE JobGenerate(t)
  <2>1. thread[t].period \in Periods /\ period[thread[t].period].status \notin {"none", "draft"}
    BY <1>5, OperationFields DEF JobGenerate, TypeOK, Generatable
  <2>2. period[thread[t].period] \in Period /\ period[thread[t].period] # NoPeriod
    BY <2>1, RowsExist
  <2>3. PICK x : x = [op |-> "generate", period |-> thread[t].period,
                      seen |-> period[thread[t].period]]
    OBVIOUS
  <2>4. x \in Operation /\ x.op = "generate" /\ x.period = thread[t].period
    BY <2>1, <2>2, <2>3 DEF Operation
  <2>5. StillTrue(x)
    BY <2>1, <2>2, <2>4 DEF StillTrue
  <2>6. Become(t, x) /\ UNCHANGED <<period, reading, bill>>
    BY <1>5, <2>3 DEF JobGenerate, Carry, tables
  <2>7. QED  BY <2>4, <2>5, <2>6, Started
<1>6. ASSUME NEW p \in Periods, NextPeriod(t, p)
      PROVE  Begun(t)
  <2>1. p \in job[t].todo /\ job[t] \in [kind: Jobs \cup {"none"}, todo: SUBSET Periods]
    BY <1>6 DEF NextPeriod, TypeOK
  <2>2. job[t].kind \in Jobs
    BY <2>1
  <2>3. period[p].status = From[job[t].kind] /\ MoveByJob(t, job[t].kind, p)
        /\ UNCHANGED <<period, reading, bill>>
    BY <1>6 DEF NextPeriod, tables
  <2>4. PICK kind \in Jobs : kind = job[t].kind
    BY <2>2
  <2>5. /\ thread' \in [Threads -> Operation]
        /\ \A u \in Threads : u # t => thread'[u] = thread[u]
        /\ thread'[t].op = "move" /\ thread'[t].period = p /\ thread'[t].to # "draft"
        /\ period[p] \in Period
    BY <2>3, <2>4, JobMoves
  <2>6. period[p] # NoPeriod
    BY <2>5, RowsExist
  <2>7. StillTrue(thread'[t])
    BY <2>5, <2>6 DEF StillTrue
  <2>8. QED  BY <2>3, <2>5, <2>7 DEF Begun
<1>7. ASSUME NEW r \in Residents, TellOpened(t, r)
      PROVE  Begun(t)
  <2>1. thread[t] \in [op: {"announce", "chase"}, period: Periods, left: SUBSET Residents]
    <3>1. thread[t] \in Operation /\ thread[t].op = "announce"
      BY <1>7 DEF TellOpened, TypeOK
    <3>2. QED  BY <3>1 DEF Operation, Idle
  <2>2. PICK x : x = [thread[t] EXCEPT !.left = thread[t].left \ {r}]
    OBVIOUS
  <2>3. x \in Operation /\ x.op \notin Loaded
    BY <2>1, <2>2 DEF Operation, Loaded
  <2>4. Become(t, x)
    BY <1>7, <2>2 DEF TellOpened
  <2>5. QED  BY <2>3, <2>4, Freed
<1>8. ASSUME NEW r \in Residents, TellMissing(t, r)
      PROVE  Begun(t)
  <2>1. thread[t].period \in Periods /\ thread[t].left \in SUBSET Residents
    BY <1>8, OperationFields DEF TellMissing, TypeOK
  <2>2. PICK x : x = [op |-> "copy", period |-> thread[t].period,
                      left |-> thread[t].left \ {r}, about |-> r]
    OBVIOUS
  <2>3. x \in Operation /\ x.op \notin Loaded
    BY <2>1, <2>2 DEF Operation, Loaded
  <2>4. Become(t, x)
    BY <1>8, <2>2 DEF TellMissing
  <2>5. QED  BY <2>3, <2>4, Freed
<1>9. CASE Survey(t)
  <2>1. thread[t].period \in Periods
    BY <1>9, OperationFields DEF Survey, TypeOK
  <2>2. PICK x : x = [op |-> "chase", period |-> thread[t].period,
                      left |-> Residents \ FinalizedResidents(thread[t].period)]
    OBVIOUS
  <2>3. x \in Operation /\ x.op \notin Loaded
    BY <2>1, <2>2 DEF Operation, Loaded
  <2>4. Become(t, x)
    BY <1>9, <2>2 DEF Survey, Carry
  <2>5. QED  BY <2>3, <2>4, Freed
<1>10. CASE TellMissingAdmin(t)
  <2>1. thread[t].period \in Periods /\ thread[t].left \in SUBSET Residents
    BY <1>10, OperationFields DEF TellMissingAdmin, TypeOK
  <2>2. PICK x : x = [op |-> "chase", period |-> thread[t].period, left |-> thread[t].left]
    OBVIOUS
  <2>3. x \in Operation /\ x.op \notin Loaded
    BY <2>1, <2>2 DEF Operation, Loaded
  <2>4. Become(t, x)
    BY <1>10, <2>2 DEF TellMissingAdmin
  <2>5. QED  BY <2>3, <2>4, Freed
<1>11. CASE CheckDraft(t)
  <2>1. LabelOf[today] \in Periods
    BY ReadingAssumption DEF TypeOK
  <2>2. PICK x : x = [op |-> "draft", period |-> LabelOf[today]]
    OBVIOUS
  <2>3. x \in Operation /\ x.op \notin Loaded
    BY <2>1, <2>2 DEF Operation, Loaded
  <2>4. Become(t, x)
    BY <1>11, <2>2 DEF CheckDraft, Carry
  <2>5. QED  BY <2>3, <2>4, Freed
<1>12. QED
  BY <1>2, <1>3, <1>4, <1>5, <1>6, <1>7, <1>8, <1>9, <1>10, <1>11 DEF Continue

\* A step puts an operation into the hands of one thread, of none, or, when the
\* process restarts, takes the operations of all threads away.
LEMMA ThreadStep ==
    ASSUME TypeOK, \A t \in Threads : StillTrue(thread[t]),
           \A t \in Threads : job[t].kind = "none" => job[t].todo = {}, [Next]_vars
    PROVE  \/ UNCHANGED thread
           \/ thread' = [t \in Threads |-> Idle]
           \/ \E t \in Threads : Begun(t)
<1>1. ASSUME NEW t \in Threads, RequestStep(t)
      PROVE  UNCHANGED thread \/ Begun(t)
  <2>1. ASSUME NEW p \in Periods, CreatePeriod(t, p)
        PROVE  UNCHANGED thread
    BY <2>1 DEF CreatePeriod
  <2>2. QED  BY <1>1, <2>1, PeriodRequests, ReadingRequests DEF RequestStep
<1>2. ASSUME NEW t \in Threads, NEW kind \in Jobs, Fire(t, kind)
      PROVE  UNCHANGED thread \/ Begun(t)
  <2>1. CASE UNCHANGED thread
    BY <2>1
  <2>2. CASE \E p \in Listed(kind) : MoveByJob(t, kind, p)
    <3>1. PICK p \in Listed(kind) : MoveByJob(t, kind, p)
      BY <2>2
    <3>2. p \in Periods /\ period[p].status = From[kind]
      BY DEF Listed
    <3>3. /\ thread' \in [Threads -> Operation]
          /\ \A u \in Threads : u # t => thread'[u] = thread[u]
          /\ thread'[t].op = "move" /\ thread'[t].period = p /\ thread'[t].to # "draft"
          /\ period[p] \in Period
      BY <3>1, <3>2, JobMoves
    <3>4. period[p] # NoPeriod
      BY <3>2, <3>3, RowsExist
    <3>5. StillTrue(thread'[t])
      BY <3>3, <3>4 DEF StillTrue
    <3>6. UNCHANGED <<period, reading, bill>>
      BY <1>2 DEF Fire, tables
    <3>7. QED  BY <3>3, <3>5, <3>6 DEF Begun
  <2>3. QED  BY <1>2, <2>1, <2>2 DEF Fire
<1>3. ASSUME Tick \/ UNCHANGED vars
      PROVE  UNCHANGED thread
  BY <1>3 DEF Tick, vars
<1>4. ASSUME Crash
      PROVE  thread' = [t \in Threads |-> Idle]
  BY <1>4 DEF Crash
<1>5. QED  BY <1>1, <1>2, <1>3, <1>4, Continued DEF Next

-----------------------------------------------------------------------------
(* The invariant holds.                                                    *)

LEMMA PeriodsStay ==
    ASSUME RInv, [Next]_vars, NEW p \in Periods
    PROVE  /\ period[p] # NoPeriod => period'[p] # NoPeriod
           /\ period[p].status \notin {"none", "draft"} =>
                period'[p].status \notin {"none", "draft"}
<1>1. TypeOK /\ \A t \in Threads : StillTrue(thread[t])
  BY DEF RInv
<1>2. period' \in [Periods -> Period \cup {NoPeriod}]
  BY PeriodType DEF RInv
<1>3. /\ \A x \in Period : x # NoPeriod /\ x.status # "none"
      /\ NoPeriod.status = "none"
  BY DEF Period, PeriodStatus, NoPeriod
<1>4. ASSUME NEW q \in Periods, NEW y \in Period, period[q] \in Period,
             y.status = period[q].status \/ y.status # "draft",
             period' = [period EXCEPT ![q] = y]
      PROVE  /\ period[p] # NoPeriod => period'[p] # NoPeriod
             /\ period[p].status \notin {"none", "draft"} =>
                  period'[p].status \notin {"none", "draft"}
  BY <1>1, <1>3, <1>4 DEF TypeOK
<1>5. ASSUME NEW q \in Periods, NEW start, NEW end, NEW rate,
             InsertPeriod(q, start, end, rate)
      PROVE  /\ period[p] # NoPeriod => period'[p] # NoPeriod
             /\ period[p].status \notin {"none", "draft"} =>
                  period'[p].status \notin {"none", "draft"}
  BY <1>1, <1>3, <1>5 DEF InsertPeriod, TypeOK
<1>6. ASSUME NEW t \in Threads, FinishUpdate(t)
      PROVE  \E q \in Periods, y \in Period :
               /\ period[q] \in Period /\ period' = [period EXCEPT ![q] = y]
               /\ y.status = period[q].status
  <2>1. /\ thread[t].period \in Periods /\ thread[t].seen \in Period
        /\ thread[t].wanted \in Period /\ thread[t].op = "update"
    BY <1>1, <1>6, OperationFields DEF FinishUpdate, TypeOK
  <2>2. /\ period[thread[t].period] \in Period
        /\ thread[t].wanted.status = thread[t].seen.status
    BY <1>1, <2>1, RowsExist DEF StillTrue
  <2>3. PICK y : y = Flush(period[thread[t].period], thread[t].seen, thread[t].wanted)
    OBVIOUS
  <2>4. y \in Period /\ y.status = period[thread[t].period].status
    BY <2>1, <2>2, <2>3, FlushPeriod
  <2>5. period' = [period EXCEPT ![thread[t].period] = y]
    BY <1>6, <2>3 DEF FinishUpdate
  <2>6. QED  BY <2>1, <2>2, <2>4, <2>5
<1>7. ASSUME NEW t \in Threads, NEW to \in PeriodStatus \ {"draft"},
             thread[t].period \in Periods, thread[t].seen \in Period,
             period[thread[t].period] # NoPeriod,
             period' = [period EXCEPT ![thread[t].period] =
                          Flush(period[thread[t].period], thread[t].seen,
                                [thread[t].seen EXCEPT !.status = to])]
      PROVE  \E q \in Periods, y \in Period :
               /\ period[q] \in Period /\ period' = [period EXCEPT ![q] = y]
               /\ y.status = period[q].status \/ y.status # "draft"
  <2>1. period[thread[t].period] \in Period
    BY <1>1, <1>7, RowsExist
  <2>2. PICK w : w = [thread[t].seen EXCEPT !.status = to]
    OBVIOUS
  <2>3. w \in Period /\ w.status = to
    BY <1>7, <2>2, PeriodWithStatus
  <2>4. PICK y : y = Flush(period[thread[t].period], thread[t].seen, w)
    OBVIOUS
  <2>5. /\ y \in Period
        /\ y.status = period[thread[t].period].status \/ y.status # "draft"
    BY <1>7, <2>1, <2>3, <2>4, FlushPeriod
  <2>6. period' = [period EXCEPT ![thread[t].period] = y]
    BY <1>7, <2>2, <2>4
  <2>7. QED  BY <1>7, <2>1, <2>5, <2>6
<1>8. ASSUME NEW t \in Threads, FinishMove(t) \/ FinishGenerate(t)
      PROVE  \E q \in Periods, y \in Period :
               /\ period[q] \in Period /\ period' = [period EXCEPT ![q] = y]
               /\ y.status = period[q].status \/ y.status # "draft"
  <2>1. CASE FinishMove(t)
    <3>1. /\ thread[t].period \in Periods /\ thread[t].seen \in Period
          /\ thread[t].to \in PeriodStatus /\ thread[t].op = "move"
      BY <1>1, <2>1, OperationFields DEF FinishMove, TypeOK
    <3>2. thread[t].to \in PeriodStatus \ {"draft"} /\ period[thread[t].period] # NoPeriod
      BY <1>1, <3>1 DEF StillTrue
    <3>3. QED  BY <1>7, <2>1, <3>1, <3>2 DEF FinishMove
  <2>2. CASE FinishGenerate(t)
    <3>1. /\ thread[t].period \in Periods /\ thread[t].seen \in Period
          /\ "billed" \in PeriodStatus \ {"draft"} /\ thread[t].op = "bill"
      BY <1>1, <2>2, OperationFields DEF FinishGenerate, TypeOK, PeriodStatus
    <3>2. period[thread[t].period] # NoPeriod
      BY <1>1, <3>1 DEF StillTrue
    <3>3. period' = [period EXCEPT ![thread[t].period] =
                       Flush(period[thread[t].period], thread[t].seen,
                             [thread[t].seen EXCEPT !.status = "billed"])]
      BY <2>2 DEF FinishGenerate
    <3>4. QED  BY <1>7, <3>1, <3>2, <3>3
  <2>3. QED  BY <1>8, <2>1, <2>2
<1>9. CASE UNCHANGED period
  BY <1>9
<1>10. QED  BY <1>1, <1>4, <1>5, <1>6, <1>8, <1>9, PeriodStep

LEMMA ReadingsStay ==
    ASSUME RInv, [Next]_vars, NEW p \in Periods, NEW r \in Residents
    PROVE  /\ reading[p][r] # NoReading => reading'[p][r] # NoReading
           /\ (reading[p][r] = NoReading /\ reading'[p][r] # NoReading) =>
                \E t \in Threads : thread[t].op = "submit" /\ thread'[t] = Idle
<1>1. TypeOK /\ RowsNumbered /\ \A t \in Threads : StillTrue(thread[t])
  BY DEF RInv
<1>2. \A x \in Reading : x # NoReading
  BY DEF Reading, ReadingStatus, NoReading
<1>3. ASSUME NEW t \in Threads, FinishSubmit(t)
      PROVE  /\ reading[p][r] # NoReading => reading'[p][r] # NoReading
             /\ thread[t].op = "submit" /\ thread'[t] = Idle
  <2>1. PICK y \in Reading :
          reading' = [reading EXCEPT ![thread[t].period][thread[t].resident] = y]
    BY <1>1, <1>3, SubmitType
  <2>2. thread[t].op = "submit" /\ thread'[t] = Idle
    BY <1>1, <1>3, SubmitType
  <2>3. QED  BY <1>1, <1>2, <2>1, <2>2 DEF TypeOK
<1>4. ASSUME NEW t \in Threads, FinishReview(t)
      PROVE  reading[p][r] # NoReading <=> reading'[p][r] # NoReading
  <2>1. PICK y \in Reading :
          reading' = [reading EXCEPT ![thread[t].period][thread[t].resident] = y]
    BY <1>1, <1>4, ReviewType
  <2>2. /\ thread[t].period \in Periods /\ thread[t].resident \in Residents
        /\ reading[thread[t].period][thread[t].resident] # NoReading
    BY <1>1, <1>4, ReviewType
  <2>3. QED  BY <1>1, <1>2, <2>1, <2>2 DEF TypeOK
<1>5. QED  BY <1>3, <1>4, ReadingStep

LEMMA ExistingStep ==
    ASSUME RInv, [Next]_vars
    PROVE  IsFiniteSet(Existing')
<1>1. TypeOK /\ IsFiniteSet(Existing) /\ \A t \in Threads : StillTrue(thread[t])
  BY DEF RInv
<1>2. ASSUME NEW p \in Periods, NEW y, period' = [period EXCEPT ![p] = y]
      PROVE  IsFiniteSet(Existing')
  <2>1. Existing' \in SUBSET (Existing \cup {p})
    BY <1>1, <1>2 DEF Existing, TypeOK
  <2>2. IsFiniteSet(Existing \cup {p})
    BY <1>1, FS_AddElement
  <2>3. QED  BY <2>1, <2>2, FS_Subset
<1>3. ASSUME NEW p \in Periods, NEW start, NEW end, NEW rate, InsertPeriod(p, start, end, rate)
      PROVE  IsFiniteSet(Existing')
  <2>1. \E y : period' = [period EXCEPT ![p] = y]
    BY <1>3 DEF InsertPeriod
  <2>2. QED  BY <1>2, <2>1
<1>4. ASSUME NEW t \in Threads, FinishUpdate(t) \/ FinishMove(t) \/ FinishGenerate(t)
      PROVE  IsFiniteSet(Existing')
  <2>1. thread[t].period \in Periods
    BY <1>1, <1>4, OperationFields DEF TypeOK, FinishUpdate, FinishMove, FinishGenerate
  <2>2. \E y : period' = [period EXCEPT ![thread[t].period] = y]
    BY <1>4 DEF FinishUpdate, FinishMove, FinishGenerate
  <2>3. QED  BY <1>2, <2>1, <2>2
<1>5. CASE UNCHANGED period
  BY <1>1, <1>5 DEF Existing
<1>6. QED  BY <1>1, <1>3, <1>4, <1>5, PeriodStep

LEMMA RowsNumberedStep ==
    ASSUME RInv, [Next]_vars
    PROVE  RowsNumbered'
<1>1. TypeOK /\ RowsNumbered /\ \A t \in Threads : StillTrue(thread[t])
  BY DEF RInv
<1>2. \A x \in Reading : x # NoReading
  BY DEF Reading, ReadingStatus, NoReading
<1>3. CASE UNCHANGED reading
  BY <1>1, <1>3 DEF RowsNumbered, Rows
<1>4. ASSUME NEW p \in Periods, NEW r \in Residents, NEW y \in Reading,
             reading[p][r] # NoReading, y.created = reading[p][r].created,
             reading' = [reading EXCEPT ![p][r] = y]
      PROVE  RowsNumbered'
  <2>1. \A s \in Residents : Rows(s)' = Rows(s)
    BY <1>1, <1>2, <1>4 DEF Rows, TypeOK
  <2>2. \A s \in Residents, q \in Periods : reading'[q][s].created = reading[q][s].created
    BY <1>1, <1>4 DEF TypeOK
  <2>3. \A s \in Residents : Rows(s) \subseteq Periods
    BY DEF Rows
  <2>4. QED  BY <1>1, <2>1, <2>2, <2>3 DEF RowsNumbered
<1>5. ASSUME NEW p \in Periods, NEW r \in Residents, NEW y \in Reading,
             reading[p][r] = NoReading, y.created = Cardinality(Rows(r)) + 1,
             reading' = [reading EXCEPT ![p][r] = y]
      PROVE  RowsNumbered'
  <2> SUFFICES ASSUME NEW s \in Residents
               PROVE  /\ IsFiniteSet(Rows(s)')
                      /\ \A q \in Rows(s)' : reading'[q][s].created <= Cardinality(Rows(s)')
    BY DEF RowsNumbered
  <2>1. CASE s # r
    <3>1. Rows(s)' = Rows(s) /\ \A q \in Periods : reading'[q][s] = reading[q][s]
      BY <1>1, <1>5, <2>1 DEF Rows, TypeOK
    <3>2. Rows(s) \subseteq Periods
      BY DEF Rows
    <3>3. QED  BY <1>1, <3>1, <3>2 DEF RowsNumbered
  <2>2. CASE s = r
    <3>1. Rows(s)' = Rows(s) \cup {p} /\ p \notin Rows(s)
      BY <1>1, <1>2, <1>5, <2>2 DEF Rows, TypeOK
    <3>2. IsFiniteSet(Rows(s)) /\ Cardinality(Rows(s)) \in Nat
      BY <1>1, FS_CardinalityType DEF RowsNumbered
    <3>3. /\ IsFiniteSet(Rows(s) \cup {p})
          /\ Cardinality(Rows(s) \cup {p}) = Cardinality(Rows(s)) + 1
      BY <3>1, <3>2, FS_AddElement
    <3>4. \A q \in Rows(s) : /\ q # p /\ reading'[q][s] = reading[q][s]
                             /\ reading[q][s].created <= Cardinality(Rows(s))
                             /\ reading[q][s].created \in Nat
      <4> TAKE q \in Rows(s)
      <4>1. q \in Periods /\ q # p /\ reading[q][s] \in Reading
        BY <1>1, <3>1 DEF Rows, TypeOK
      <4>2. QED  BY <1>1, <1>5, <4>1, ReadingFields DEF RowsNumbered, TypeOK
    <3>5. reading'[p][s].created = Cardinality(Rows(s)) + 1
      BY <1>1, <1>5, <2>2 DEF TypeOK
    <3> DEFINE n == Cardinality(Rows(s))
    <3>6. \A q \in Rows(s) \cup {p} : reading'[q][s].created <= n + 1
      <4>1. n \in Nat
        BY <3>2
      <4>2. \A q \in Rows(s) : reading'[q][s].created <= n /\ reading'[q][s].created \in Nat
        BY <3>4
      <4>3. reading'[p][s].created = n + 1
        BY <3>5
      <4> HIDE DEF n
      <4>4. QED  BY <4>1, <4>2, <4>3
    <3>7. QED  BY <3>1, <3>3, <3>6
  <2>3. QED  BY <2>1, <2>2
<1>6. ASSUME NEW t \in Threads, FinishSubmit(t)
      PROVE  RowsNumbered'
  <2>1. PICK p \in Periods, r \in Residents : p = thread[t].period /\ r = thread[t].resident
    BY <1>1, <1>6, SubmitType
  <2>2. PICK y \in Reading :
          /\ reading' = [reading EXCEPT ![p][r] = y]
          /\ y.created = IF thread[t].seen = NoReading THEN Cardinality(Rows(r)) + 1
                                                       ELSE reading[p][r].created
    BY <1>1, <1>6, <2>1, SubmitType
  <2>3. thread[t].seen = NoReading <=> reading[p][r] = NoReading
    BY <1>1, <1>6, <2>1 DEF StillTrue, FinishSubmit
  <2>4. CASE thread[t].seen = NoReading
    BY <1>5, <2>2, <2>3, <2>4
  <2>5. CASE thread[t].seen # NoReading
    BY <1>4, <2>2, <2>3, <2>5
  <2>6. QED  BY <2>4, <2>5
<1>7. ASSUME NEW t \in Threads, FinishReview(t)
      PROVE  RowsNumbered'
  <2>1. PICK p \in Periods, r \in Residents : p = thread[t].period /\ r = thread[t].resident
    BY <1>1, <1>7, ReviewType
  <2>2. PICK y \in Reading :
          /\ reading' = [reading EXCEPT ![p][r] = y]
          /\ y.created = reading[p][r].created
    BY <1>1, <1>7, <2>1, ReviewType
  <2>3. reading[p][r] # NoReading
    BY <1>1, <1>7, <2>1, ReviewType
  <2>4. QED  BY <1>4, <2>2, <2>3
<1>8. QED  BY <1>3, <1>6, <1>7, ReadingStep

LEMMA StillTrueStep ==
    ASSUME RInv, [Next]_vars
    PROVE  OneSubmission' /\ \A t \in Threads : StillTrue(thread[t])'
<1>1. /\ TypeOK /\ OneSubmission /\ \A t \in Threads : StillTrue(thread[t])
      /\ \A t \in Threads : job[t].kind = "none" => job[t].todo = {}
  BY DEF RInv
<1>2. \/ UNCHANGED thread
      \/ thread' = [t \in Threads |-> Idle]
      \/ \E t \in Threads : Begun(t)
  BY <1>1, ThreadStep
<1>3. OneSubmission'
  <2>1. CASE UNCHANGED thread
    BY <1>1, <2>1 DEF OneSubmission
  <2>2. CASE thread' = [t \in Threads |-> Idle]
    BY <2>2 DEF OneSubmission, Idle
  <2>3. ASSUME NEW t \in Threads, Begun(t)
        PROVE  OneSubmission'
    BY <1>1, <2>3 DEF OneSubmission, Begun
  <2>4. QED  BY <1>2, <2>1, <2>2, <2>3
<1>4. ASSUME NEW u \in Threads, thread'[u] = thread[u]
      PROVE  StillTrue(thread[u])'
  <2> DEFINE x == thread[u]
  <2>1. x \in Operation /\ StillTrue(x)
    BY <1>1 DEF TypeOK
  <2>2. /\ x.op \in {"update", "move", "generate", "bill"} => period'[x.period] # NoPeriod
        /\ x.op \in {"generate", "bill"} => period'[x.period].status \notin {"none", "draft"}
    BY <2>1, OperationFields, PeriodsStay DEF StillTrue
  <2>3. x.op \in {"confirm", "override", "reject"} => reading'[x.period][x.resident] # NoReading
    BY <2>1, OperationFields, ReadingsStay DEF StillTrue
  <2>4. ASSUME x.op = "submit"
        PROVE  x.seen = NoReading <=> reading'[x.period][x.resident] = NoReading
    <3>1. x.period \in Periods /\ x.resident \in Residents
      BY <2>1, <2>4, OperationFields
    <3>2. x.seen = NoReading <=> reading[x.period][x.resident] = NoReading
      BY <2>1, <2>4 DEF StillTrue
    <3>3. ~\E t \in Threads : thread[t].op = "submit" /\ thread'[t] = Idle
      BY <1>1, <1>4, <2>4 DEF OneSubmission, Idle
    <3>4. QED  BY <3>1, <3>2, <3>3, ReadingsStay
  <2>5. QED  BY <1>4, <2>1, <2>2, <2>3, <2>4 DEF StillTrue
<1>5. ASSUME NEW u \in Threads, thread'[u].op \notin Loaded
      PROVE  StillTrue(thread[u])'
  BY <1>5 DEF StillTrue, Loaded
<1>6. ASSUME NEW t \in Threads, Begun(t), NEW u \in Threads
      PROVE  StillTrue(thread[u])'
  <2>1. CASE u # t
    BY <1>4, <1>6, <2>1 DEF Begun
  <2>2. CASE u = t /\ thread'[t].op \in Loaded
    BY <1>6, <2>2 DEF Begun, StillTrue
  <2>3. CASE u = t /\ thread'[t].op \notin Loaded
    BY <1>5, <2>3
  <2>4. QED  BY <2>1, <2>2, <2>3
<1>7. ASSUME NEW u \in Threads, thread' = [t \in Threads |-> Idle]
      PROVE  StillTrue(thread[u])'
  BY <1>5, <1>7 DEF Idle, Loaded
<1>8. ASSUME NEW u \in Threads
      PROVE  StillTrue(thread[u])'
  BY <1>2, <1>4, <1>6, <1>7
<1>9. QED  BY <1>3, <1>8

LEMMA BilledStep ==
    ASSUME RInv, [Next]_vars
    PROVE  BilledIsNoDraft'
<1>1. TypeOK /\ BilledIsNoDraft /\ \A t \in Threads : StillTrue(thread[t])
  BY DEF RInv
<1>2. SUFFICES ASSUME NEW p \in Periods, NEW r \in Residents, bill'[p][r] # NoBill
               PROVE  period'[p].status \notin {"none", "draft"}
  BY DEF BilledIsNoDraft
<1>3. CASE bill[p][r] # NoBill
  BY <1>1, <1>3, PeriodsStay DEF BilledIsNoDraft
<1>4. ASSUME NEW t \in Threads, FinishGenerate(t), bill[p][r] = NoBill
      PROVE  period'[p].status \notin {"none", "draft"}
  <2>1. thread[t].op = "bill" /\ thread[t].period \in Periods
    BY <1>1, <1>4, OperationFields DEF FinishGenerate, TypeOK
  <2>2. p = thread[t].period
    BY <1>1, <1>2, <1>4, <2>1 DEF FinishGenerate, TypeOK
  <2>3. period[p].status \notin {"none", "draft"}
    BY <1>1, <2>1, <2>2 DEF StillTrue
  <2>4. QED  BY <2>3, PeriodsStay
<1>5. QED  BY <1>2, <1>3, <1>4, BillStep

LEMMA InitRInv == Init => RInv
<1> SUFFICES ASSUME Init PROVE RInv
  OBVIOUS
<1>1. TypeOK
  BY ReadingAssumption DEF Init, TypeOK, Operation, NoJob, Jobs
<1>2. \A t \in Threads : thread[t].op = "idle" /\ job[t].todo = {}
  BY DEF Init, Idle, NoJob
<1>3. Existing = {} /\ \A r \in Residents : Rows(r) = {}
  BY DEF Init, Existing, Rows
<1>4. IsFiniteSet(Existing) /\ RowsNumbered
  BY <1>3, FS_EmptySet DEF RowsNumbered
<1>5. QED  BY <1>1, <1>2, <1>4 DEF RInv, OneSubmission, StillTrue, BilledIsNoDraft, Init

LEMMA NextRInv == RInv /\ [Next]_vars => RInv'
<1> SUFFICES ASSUME RInv, [Next]_vars PROVE RInv'
  OBVIOUS
<1>1. /\ TypeOK /\ IsFiniteSet(Existing) /\ RowsNumbered
      /\ \A t \in Threads : StillTrue(thread[t])
      /\ \A t \in Threads : job[t].kind = "none" => job[t].todo = {}
  BY DEF RInv
<1>2. thread' \in [Threads -> Operation]
  <2>1. Idle \in Operation
    BY DEF Operation
  <2>2. QED  BY <1>1, <2>1, ThreadStep DEF Begun, TypeOK
<1>3. TypeOK'
  <2>1. period' \in [Periods -> Period \cup {NoPeriod}]
    BY <1>1, PeriodType
  <2>2. reading' \in [Periods -> [Residents -> Reading \cup {NoReading}]]
    BY <1>1, ReadingType
  <2>3. bill' \in [Periods -> [Residents -> Bill \cup {NoBill}]]
    BY <1>1, BillType
  <2>4. QED  BY <1>1, <1>2, <2>1, <2>2, <2>3, ToldType, JobType, WorldType DEF TypeOK
<1>4. \A t \in Threads : job'[t].kind = "none" => job'[t].todo = {}
  BY <1>1, JobType
<1>5. IsFiniteSet(Existing') /\ RowsNumbered' /\ BilledIsNoDraft'
  BY ExistingStep, RowsNumberedStep, BilledStep
<1>6. OneSubmission' /\ \A t \in Threads : StillTrue(thread[t])'
  BY StillTrueStep
<1>7. QED  BY <1>3, <1>4, <1>5, <1>6 DEF RInv

-----------------------------------------------------------------------------
(* What follows.                                                           *)

\* The invariant the other results rest on: what handlers have loaded stays true
\* as far as their commits depend on it, whatever the others commit meanwhile.
THEOREM CycleInvariant == Spec => []RInv
<1>1. RInv /\ UNCHANGED vars => RInv'
  BY NextRInv
<1>2. QED  BY InitRInv, NextRInv, <1>1, PTL DEF Spec

\* The columns of every row and the fields of every operation in flight are what
\* the tables and handlers of the code hold; above all, the value a submission
\* takes for the meter's previous one is always a number.
THEOREM CycleTypes == Spec => []TypeOK
<1>1. RInv => TypeOK
  BY DEF RInv
<1>2. QED  BY <1>1, CycleInvariant, PTL

\* A period that has bills is no draft any more, so that its rate and dates can
\* no longer be edited, however generation runs and transitions overlap.
THEOREM BilledPeriodsAreFixed == Spec => []BilledIsNoDraft
<1>1. RInv => BilledIsNoDraft
  BY DEF RInv
<1>2. QED  BY <1>1, CycleInvariant, PTL

\* No commit takes a period back to DRAFT, not even that of an edit which has
\* loaded the period while it was one.
THEOREM DraftsAreLeftForGood == Spec => DraftNeverReturns
<1>1. RInv /\ [Next]_vars =>
        [\A p \in Periods :
           period[p].status \notin {"none", "draft"} => period'[p].status # "draft"]_vars
  BY PeriodsStay
<1>2. QED  BY <1>1, CycleInvariant, PTL DEF Spec, DraftNeverReturns

\* What a commit may do to a final reading, however long ago it loaded the row.
LEMMA LateWriteStep ==
    ASSUME RInv, [Next]_vars, NEW p \in Periods, NEW r \in Residents,
           reading[p][r].status \in Finalized, reading'[p][r] # reading[p][r]
    PROVE  \E t \in Threads :
             /\ thread[t].op \in {"submit", "confirm", "override", "reject"}
             /\ thread[t].period = p /\ thread[t].resident = r /\ thread'[t] = Idle
             /\ thread[t].op \in {"submit", "confirm"} =>
                  thread[t].seen.status \notin Finalized
             /\ reading'[p][r].final = NoValue =>
                  reading[p][r].final = NoValue \/ thread[t].seen.final # NoValue
<1>1. TypeOK /\ RowsNumbered /\ \A t \in Threads : StillTrue(thread[t])
  BY DEF RInv
<1>2. reading[p][r] # NoReading
  BY DEF NoReading, Finalized
<1>3. ASSUME NEW t \in Threads, FinishSubmit(t)
      PROVE  /\ thread[t].op = "submit" /\ thread'[t] = Idle
             /\ thread[t].period = p /\ thread[t].resident = r
             /\ thread[t].seen.status \notin Finalized
             /\ reading'[p][r].final = NoValue =>
                  reading[p][r].final = NoValue \/ thread[t].seen.final # NoValue
  <2>1. /\ thread[t].op = "submit" /\ thread'[t] = Idle
        /\ thread[t].period \in Periods /\ thread[t].resident \in Residents
    BY <1>1, <1>3, SubmitType
  <2>2. PICK y \in Reading :
          /\ reading' = [reading EXCEPT ![thread[t].period][thread[t].resident] = y]
          /\ (thread[t].seen # NoReading /\ y.final = NoValue) =>
               \/ reading[thread[t].period][thread[t].resident].final = NoValue
               \/ thread[t].seen.final # NoValue
    BY <1>1, <1>3, SubmitType
  <2>3. thread[t].period = p /\ thread[t].resident = r
    BY <1>1, <2>1, <2>2 DEF TypeOK
  <2>4. thread[t].seen # NoReading /\ thread[t].seen.status \notin Finalized
    BY <1>1, <1>2, <2>1, <2>3 DEF StillTrue
  <2>5. reading'[p][r] = y
    BY <1>1, <2>2, <2>3 DEF TypeOK
  <2>6. QED  BY <2>1, <2>2, <2>3, <2>4, <2>5
<1>4. ASSUME NEW t \in Threads, FinishReview(t)
      PROVE  /\ thread[t].op \in {"confirm", "override", "reject"} /\ thread'[t] = Idle
             /\ thread[t].period = p /\ thread[t].resident = r
             /\ thread[t].op = "confirm" => thread[t].seen.status \notin Finalized
             /\ reading'[p][r].final = NoValue => reading[p][r].final = NoValue
  <2>1. /\ thread[t].op \in {"confirm", "override", "reject"} /\ thread'[t] = Idle
        /\ thread[t].period \in Periods /\ thread[t].resident \in Residents
    BY <1>1, <1>4, ReviewType
  <2>2. PICK y \in Reading :
          /\ reading' = [reading EXCEPT ![thread[t].period][thread[t].resident] = y]
          /\ y.final = NoValue =>
               reading[thread[t].period][thread[t].resident].final = NoValue
    BY <1>1, <1>4, ReviewType
  <2>3. thread[t].period = p /\ thread[t].resident = r
    BY <1>1, <2>1, <2>2 DEF TypeOK
  <2>4. thread[t].op = "confirm" => thread[t].seen.status \notin Finalized
    BY <1>1 DEF StillTrue
  <2>5. reading'[p][r] = y
    BY <1>1, <2>2, <2>3 DEF TypeOK
  <2>6. QED  BY <2>1, <2>2, <2>3, <2>4, <2>5
<1>5. QED  BY <1>3, <1>4, ReadingStep

\* However submissions, confirmations and reviews of one reading overlap, only who
\* has loaded it before it was final can reopen it, and the value it was made
\* final with survives unless that late submission had loaded one.
THEOREM OnlyLateWritesReopen == Spec => LateWritesOnly
<1>1. RInv /\ [Next]_vars =>
        [\A p \in Periods, r \in Residents :
           (reading[p][r].status \in Finalized /\ reading'[p][r] # reading[p][r]) =>
             \E t \in Threads :
               /\ thread[t].op \in {"submit", "confirm", "override", "reject"}
               /\ thread[t].period = p /\ thread[t].resident = r /\ thread'[t] = Idle
               /\ thread[t].op \in {"submit", "confirm"} =>
                    thread[t].seen.status \notin Finalized
               /\ reading'[p][r].final = NoValue =>
                    reading[p][r].final = NoValue \/ thread[t].seen.final # NoValue]_vars
  BY LateWriteStep
<1>2. QED  BY <1>1, CycleInvariant, PTL DEF Spec, LateWritesOnly

=============================================================================
