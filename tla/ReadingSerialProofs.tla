------------------------ MODULE ReadingSerialProofs ------------------------
(***************************************************************************)
(* Proofs about the reading cycle as long as handlers run one at a time,   *)
(* which is when a handler's commit finds the rows it has loaded: for      *)
(* every set of periods and residents and every calendar, wherever the     *)
(* host restarts.                                                          *)
(***************************************************************************)
EXTENDS ReadingProofs

\* Handlers run one at a time.
OneThread == \A t, u \in Threads : t = u

-----------------------------------------------------------------------------
(* The invariant.                                                          *)

\* Nobody is chased and nothing billed before a period's readings are closed.
Early == {"none", "draft", "open_for_readings"}

QuietWhileEarly ==
    \A p \in Periods : period[p].status \in Early =>
      \A r \in Residents : /\ bill[p][r] = NoBill
                           /\ told[p][r]["missing"] = 0
                           /\ told[p][r]["missing_admin"] = 0

FinalHasValue ==
    \A p \in Periods, r \in Residents :
      reading[p][r].status \in Finalized => reading[p][r].final # NoValue

\* Of a period's residents those are told who have no final reading, but not
\* those still on the list of the deadline check.
ToldButFor(p, left) ==
    \A r \in Residents :
      told[p][r]["missing"] > 0 <=> r \notin FinalizedIn(p) /\ r \notin left

Unbilled(p) == \A r \in Residents : bill[p][r] = NoBill

\* What is loaded is what is stored, and what is wanted follows from it.
RowInHand(x) ==
    /\ x.op \in {"update", "move", "generate", "bill"} => x.seen = period[x.period]
    /\ x.op = "move" => <<x.seen.status, x.to>> \in Lifecycle
    /\ x.op \in {"generate", "bill"} => x.seen.status \in Generatable
    /\ x.op = "bill" => /\ x.rows = reading[x.period]
                        /\ x.billed = {r \in Residents : bill[x.period][r] # NoBill}
    /\ x.op \in {"submit", "confirm", "override", "reject"} =>
         x.seen = reading[x.period][x.resident]
    /\ x.op = "submit" => x.seen = NoReading \/ x.seen.status \in Resubmittable
    /\ x.op = "confirm" =>
         /\ Confirmable(x.seen)
         /\ x.wanted.status = "resident_confirmed"
         /\ x.wanted.previous = x.seen.previous /\ x.wanted.final = x.seen.submitted
    /\ x.op = "override" => x.wanted.status = "admin_overridden" /\ x.wanted.final # NoValue
    /\ x.op = "reject" => x.wanted.status = "rejected"

\* How far the deadline check has come with the period it holds.
CheckInHand(x, kind) ==
    /\ x.op \in {"survey", "chase", "copy"} => kind = "deadline"
    /\ (kind = "deadline" /\ x.op = "move") =>
         <<x.seen.status, x.to>> = <<"open_for_readings", "readings_closed">>
    /\ (kind = "deadline" /\ x.op \in {"survey", "chase", "copy", "generate", "bill"}) =>
         period[x.period].status \notin Early /\ Unbilled(x.period)
    /\ (kind = "deadline" /\ x.op = "survey") => ToldButFor(x.period, Residents)
    /\ (kind = "deadline" /\ x.op \in {"chase", "copy"}) =>
         ToldButFor(x.period, x.left) /\ x.left \cap FinalizedIn(x.period) = {}
    /\ x.op = "copy" => /\ told[x.period][x.about]["missing"] = 1
                        /\ told[x.period][x.about]["missing_admin"] = 0
    /\ (kind = "deadline" /\ x.op \in {"generate", "bill"}) => ToldButFor(x.period, {})

CInv ==
    /\ RInv
    /\ QuietWhileEarly
    /\ FinalHasValue
    /\ ConfirmedConsumesGas
    /\ MissingToldOnce
    /\ \A t \in Threads : RowInHand(thread[t]) /\ CheckInHand(thread[t], job[t].kind)

-----------------------------------------------------------------------------
(* What a step does to each table, rows being what their handlers loaded.  *)

\* A commit that finds the row it has loaded leaves the row it wants.
LEMMA FlushFound ==
    /\ \A x, w \in Period : Flush(x, x, w) = w
    /\ \A x, w \in Reading : Flush(x, x, w) = w
<1>1. ASSUME NEW x \in Period, NEW w \in Period
      PROVE  Flush(x, x, w) = w
  <2>1. DOMAIN x = DOMAIN w
    BY PeriodFields
  <2>2. Flush(x, x, w) = [c \in DOMAIN w |-> w[c]]
    BY <2>1 DEF Flush
  <2>3. w = [c \in DOMAIN w |-> w[c]]
    BY DEF Period
  <2>4. QED  BY <2>2, <2>3
<1>2. ASSUME NEW x \in Reading, NEW w \in Reading
      PROVE  Flush(x, x, w) = w
  <2>1. DOMAIN x = DOMAIN w
    BY ReadingFields
  <2>2. Flush(x, x, w) = [c \in DOMAIN w |-> w[c]]
    BY <2>1 DEF Flush
  <2>3. w = [c \in DOMAIN w |-> w[c]]
    BY DEF Reading
  <2>4. QED  BY <2>2, <2>3
<1>3. QED  BY <1>1, <1>2

LEMMA UpdateEffect ==
    ASSUME CInv, NEW t \in Threads, FinishUpdate(t)
    PROVE  \E p \in Periods, y \in Period :
             /\ p = thread[t].period /\ period[p] \in Period
             /\ period' = [period EXCEPT ![p] = y] /\ y.status = period[p].status
<1>1. TypeOK /\ StillTrue(thread[t]) /\ RowInHand(thread[t])
  BY DEF CInv, RInv
<1>2. /\ thread[t].period \in Periods /\ thread[t].seen \in Period
      /\ thread[t].wanted \in Period /\ thread[t].op = "update"
  BY <1>1, OperationFields DEF FinishUpdate, TypeOK
<1>3. /\ thread[t].seen = period[thread[t].period]
      /\ thread[t].wanted.status = thread[t].seen.status
  BY <1>1, <1>2 DEF StillTrue, RowInHand
<1>4. Flush(period[thread[t].period], thread[t].seen, thread[t].wanted) = thread[t].wanted
  BY <1>2, <1>3, FlushFound
<1>5. period' = [period EXCEPT ![thread[t].period] = thread[t].wanted]
  BY <1>4 DEF FinishUpdate
<1>6. QED  BY <1>2, <1>3, <1>5

LEMMA MoveEffect ==
    ASSUME CInv, NEW t \in Threads, FinishMove(t)
    PROVE  \E p \in Periods, y \in Period :
             /\ p = thread[t].period /\ period[p] \in Period
             /\ thread[t].op = "move" /\ thread[t].seen = period[p]
             /\ period' = [period EXCEPT ![p] = y]
             /\ y.status = thread[t].to /\ <<period[p].status, y.status>> \in Lifecycle
<1>1. TypeOK /\ RowInHand(thread[t])
  BY DEF CInv, RInv
<1>2. /\ thread[t].period \in Periods /\ thread[t].seen \in Period
      /\ thread[t].to \in PeriodStatus /\ thread[t].op = "move"
  BY <1>1, OperationFields DEF FinishMove, TypeOK
<1>3. /\ thread[t].seen = period[thread[t].period]
      /\ <<thread[t].seen.status, thread[t].to>> \in Lifecycle
  BY <1>1, <1>2 DEF RowInHand
<1>4. PICK y : y = [thread[t].seen EXCEPT !.status = thread[t].to]
  OBVIOUS
<1>5. y \in Period /\ y.status = thread[t].to
  BY <1>2, <1>4, PeriodWithStatus
<1>6. Flush(period[thread[t].period], thread[t].seen, y) = y
  BY <1>2, <1>3, <1>5, FlushFound
<1>7. period' = [period EXCEPT ![thread[t].period] = y]
  BY <1>4, <1>6 DEF FinishMove
<1>8. <<period[thread[t].period].status, y.status>> \in Lifecycle
  BY <1>3, <1>5
<1>9. QED  BY <1>2, <1>3, <1>5, <1>7, <1>8

LEMMA GenerateEffect ==
    ASSUME CInv, NEW t \in Threads, FinishGenerate(t)
    PROVE  \E p \in Periods, y \in Period :
             /\ p = thread[t].period /\ period[p] \in Period
             /\ thread[t].op = "bill" /\ thread[t].seen = period[p]
             /\ thread[t].rows = reading[p]
             /\ period[p].status \in Generatable
             /\ period' = [period EXCEPT ![p] = y] /\ y.status = "billed"
<1>1. TypeOK /\ RowInHand(thread[t])
  BY DEF CInv, RInv
<1>2. /\ thread[t].period \in Periods /\ thread[t].seen \in Period
      /\ "billed" \in PeriodStatus /\ thread[t].op = "bill"
  BY <1>1, OperationFields DEF FinishGenerate, TypeOK, PeriodStatus
<1>3. /\ thread[t].seen = period[thread[t].period] /\ thread[t].seen.status \in Generatable
      /\ thread[t].rows = reading[thread[t].period]
  BY <1>1, <1>2 DEF RowInHand
<1>4. PICK y : y = [thread[t].seen EXCEPT !.status = "billed"]
  OBVIOUS
<1>5. y \in Period /\ y.status = "billed"
  BY <1>2, <1>4, PeriodWithStatus
<1>6. Flush(period[thread[t].period], thread[t].seen, y) = y
  BY <1>2, <1>3, <1>5, FlushFound
<1>7. period' = [period EXCEPT ![thread[t].period] =
                   Flush(period[thread[t].period], thread[t].seen,
                         [thread[t].seen EXCEPT !.status = "billed"])]
  BY DEF FinishGenerate
<1>8. period' = [period EXCEPT ![thread[t].period] = y]
  BY <1>4, <1>6, <1>7
<1>9. QED  BY <1>2, <1>3, <1>5, <1>8

\* A period keeps its status or goes to the next one.
LEMMA StatusStep ==
    ASSUME CInv, [Next]_vars, NEW p \in Periods
    PROVE  \/ period'[p].status = period[p].status
           \/ period[p].status = "none" /\ period'[p].status = "draft"
           \/ <<period[p].status, period'[p].status>> \in Lifecycle
           \/ period[p].status = "readings_closed" /\ period'[p].status = "billed"
<1>1. TypeOK
  BY DEF CInv, RInv
<1>2. ASSUME NEW q \in Periods, NEW start, NEW end, NEW rate,
             InsertPeriod(q, start, end, rate)
      PROVE  \/ period'[p].status = period[p].status
             \/ period[p].status = "none" /\ period'[p].status = "draft"
  BY <1>1, <1>2 DEF InsertPeriod, TypeOK, NoPeriod
<1>3. ASSUME NEW t \in Threads, FinishUpdate(t)
      PROVE  period'[p].status = period[p].status
  BY <1>1, <1>3, UpdateEffect DEF TypeOK
<1>4. ASSUME NEW t \in Threads, FinishMove(t)
      PROVE  \/ period'[p].status = period[p].status
             \/ <<period[p].status, period'[p].status>> \in Lifecycle
  BY <1>1, <1>4, MoveEffect DEF TypeOK
<1>5. ASSUME NEW t \in Threads, FinishGenerate(t)
      PROVE  \/ period'[p].status = period[p].status
             \/ period[p].status = "readings_closed" /\ period'[p].status = "billed"
  BY <1>1, <1>5, GenerateEffect DEF TypeOK, Generatable
<1>6. QED  BY <1>1, <1>2, <1>3, <1>4, <1>5, PeriodStep

\* What becomes of a reading, and by whom.
LEMMA RowStep ==
    ASSUME CInv, [Next]_vars, NEW p \in Periods, NEW r \in Residents,
           reading'[p][r] # reading[p][r]
    PROVE  \E t \in Threads :
             /\ thread[t].period = p /\ thread[t].resident = r /\ thread'[t] = Idle
             /\ \/ /\ thread[t].op = "submit"
                   /\ reading[p][r] = NoReading \/ reading[p][r].status \in Resubmittable
                   /\ reading'[p][r].status \in Resubmittable
                \/ /\ thread[t].op = "confirm"
                   /\ reading[p][r] \in Reading
                   /\ Confirmable(reading[p][r])
                   /\ reading'[p][r].status = "resident_confirmed"
                   /\ reading'[p][r].previous = reading[p][r].previous
                   /\ reading'[p][r].final = reading[p][r].submitted
                \/ /\ thread[t].op = "override"
                   /\ reading'[p][r].status = "admin_overridden"
                   /\ reading'[p][r].final # NoValue
                \/ /\ thread[t].op = "reject"
                   /\ reading'[p][r].status = "rejected"
<1>1. /\ TypeOK /\ RowsNumbered
      /\ \A t \in Threads : StillTrue(thread[t]) /\ RowInHand(thread[t])
  BY DEF CInv, RInv
<1>2. ASSUME NEW t \in Threads, FinishReview(t)
      PROVE  /\ thread[t].period = p /\ thread[t].resident = r /\ thread'[t] = Idle
             /\ thread[t].op \in {"confirm", "override", "reject"}
             /\ thread[t].seen = reading[p][r] /\ reading[p][r] \in Reading
             /\ reading'[p][r] = thread[t].wanted
  <2>1. /\ thread[t].period \in Periods /\ thread[t].resident \in Residents
        /\ thread[t].op \in {"confirm", "override", "reject"} /\ thread'[t] = Idle
        /\ thread[t].seen \in Reading /\ thread[t].wanted \in Reading
    BY <1>1, <1>2, ReviewType, OperationFields DEF TypeOK
  <2>2. thread[t].seen = reading[thread[t].period][thread[t].resident]
    BY <1>1, <2>1 DEF RowInHand
  <2>3. Flush(reading[thread[t].period][thread[t].resident], thread[t].seen, thread[t].wanted)
          = thread[t].wanted
    BY <2>1, <2>2, FlushFound
  <2>4. reading' = [reading EXCEPT ![thread[t].period][thread[t].resident] = thread[t].wanted]
    BY <1>2, <2>3 DEF FinishReview
  <2>5. thread[t].period = p /\ thread[t].resident = r
    BY <1>1, <2>1, <2>4 DEF TypeOK
  <2>6. QED  BY <1>1, <2>1, <2>2, <2>4, <2>5 DEF TypeOK
<1>3. ASSUME NEW t \in Threads, FinishSubmit(t)
      PROVE  /\ thread[t].period = p /\ thread[t].resident = r /\ thread'[t] = Idle
             /\ thread[t].op = "submit"
             /\ reading[p][r] = NoReading \/ reading[p][r].status \in Resubmittable
             /\ reading'[p][r].status \in Resubmittable
  <2>1. /\ thread[t].op = "submit" /\ thread[t].period \in Periods
        /\ thread[t].resident \in Residents /\ thread'[t] = Idle
    BY <1>1, <1>3, SubmitType
  <2>2. \E y \in Reading :
          reading' = [reading EXCEPT ![thread[t].period][thread[t].resident] = y]
    BY <1>1, <1>3, SubmitType
  <2>3. thread[t].period = p /\ thread[t].resident = r
    BY <1>1, <2>1, <2>2 DEF TypeOK
  <2>4. /\ thread[t].seen = reading[p][r]
        /\ thread[t].seen = NoReading \/ thread[t].seen.status \in Resubmittable
        /\ thread[t].seen = NoReading <=> reading[p][r] = NoReading
    BY <1>1, <2>1, <2>3 DEF RowInHand, StillTrue
  <2>5. reading'[p][r].status \in Resubmittable
    <3> DEFINE row(result, created) ==
                 [status |-> result.status, submitted |-> result.value,
                  previous |-> PreviousReadingValue(r, p, thread[t].seen),
                  final |-> NoValue, created |-> created]
    <3>1. PICK result \in VisionResult :
            reading' = [reading EXCEPT ![p][r] =
              IF thread[t].seen = NoReading THEN row(result, Cardinality(Rows(r)) + 1)
              ELSE Flush(reading[p][r], thread[t].seen, row(result, thread[t].seen.created))]
      BY <1>3, <2>3 DEF FinishSubmit
    <3>2. result.status \in Resubmittable /\ result.status \in ReadingStatus
          /\ result.value \in Values \cup {NoValue}
      BY DEF VisionResult, Resubmittable, ReadingStatus
    <3>3. CASE thread[t].seen = NoReading
      <4>1. PICK w : w = row(result, Cardinality(Rows(r)) + 1)
        OBVIOUS
      <4>2. w.status \in Resubmittable
        BY <3>2, <4>1
      <4>3. reading' = [reading EXCEPT ![p][r] = w]
        BY <3>1, <3>3, <4>1
      <4>4. QED  BY <1>1, <4>2, <4>3 DEF TypeOK
    <3>4. CASE thread[t].seen # NoReading
      <4>1. reading[p][r] \in Reading /\ thread[t].seen.created \in Nat
        BY <1>1, <2>4, <3>4, RowsExist, ReadingFields
      <4>2. PICK w : w = row(result, thread[t].seen.created)
        OBVIOUS
      <4>3. PreviousReadingValue(r, p, thread[t].seen) \in Value
        BY <1>1, <2>4, <4>1, PreviousValueType
      <4>4. w \in Reading /\ w.status \in Resubmittable
        BY <3>2, <4>1, <4>2, <4>3 DEF Reading
      <4>5. Flush(reading[p][r], thread[t].seen, w) = w
        BY <2>4, <4>1, <4>4, FlushFound
      <4>6. reading' = [reading EXCEPT ![p][r] = w]
        BY <3>1, <3>4, <4>2, <4>5
      <4>7. QED  BY <1>1, <4>4, <4>6 DEF TypeOK
    <3>5. QED  BY <3>3, <3>4
  <2>6. QED  BY <2>1, <2>3, <2>4, <2>5
<1>4. ASSUME NEW t \in Threads, FinishReview(t)
      PROVE  \/ /\ thread[t].op = "confirm"
                /\ Confirmable(reading[p][r])
                /\ reading'[p][r].status = "resident_confirmed"
                /\ reading'[p][r].previous = reading[p][r].previous
                /\ reading'[p][r].final = reading[p][r].submitted
             \/ /\ thread[t].op = "override"
                /\ reading'[p][r].status = "admin_overridden"
                /\ reading'[p][r].final # NoValue
             \/ /\ thread[t].op = "reject"
                /\ reading'[p][r].status = "rejected"
  BY <1>1, <1>2, <1>4 DEF RowInHand
<1>5. QED  BY <1>2, <1>3, <1>4, ReadingStep

\* A bill comes from a final reading of its period, by a run that finds none.
LEMMA BillMade ==
    ASSUME CInv, [Next]_vars, NEW p \in Periods, NEW r \in Residents,
           bill'[p][r] # bill[p][r]
    PROVE  /\ bill[p][r] = NoBill
           /\ period[p].status \in Generatable
           /\ reading[p][r].status \in Finalized
           /\ bill'[p][r] = [status |-> "issued", previous |-> reading[p][r].previous,
                             current |-> reading[p][r].final, rate |-> period[p].rate]
<1>1. TypeOK /\ \A t \in Threads : RowInHand(thread[t])
  BY DEF CInv, RInv
<1>2. PICK t \in Threads : FinishGenerate(t)
  BY BillStep
<1>3. PICK q \in Periods :
        /\ q = thread[t].period /\ thread[t].seen = period[q]
        /\ thread[t].rows = reading[q] /\ period[q].status \in Generatable
  BY <1>2, GenerateEffect
<1>4. /\ \A s \in NewlyBilled(t) : bill[q][s] = NoBill
      /\ bill' = [bill EXCEPT ![q] =
           [s \in Residents |->
              IF s \in NewlyBilled(t)
              THEN [status |-> "issued", previous |-> reading[q][s].previous,
                    current |-> reading[q][s].final, rate |-> period[q].rate]
              ELSE bill[q][s]]]
  BY <1>2, <1>3 DEF FinishGenerate
<1>5. q = p /\ r \in NewlyBilled(t)
  BY <1>1, <1>4 DEF TypeOK
<1>6. reading[p][r].status \in Finalized
  BY <1>3, <1>5 DEF NewlyBilled, ToBill
<1>7. QED  BY <1>1, <1>3, <1>4, <1>5, <1>6 DEF TypeOK

LEMMA FinalHasValueStep ==
    ASSUME CInv, [Next]_vars
    PROVE  FinalHasValue' /\ ConfirmedConsumesGas'
<1>1. TypeOK /\ FinalHasValue /\ ConfirmedConsumesGas
  BY DEF CInv, RInv
<1>2. ASSUME NEW p \in Periods, NEW r \in Residents, reading'[p][r].status \in Finalized
      PROVE  /\ reading'[p][r].final # NoValue
             /\ reading'[p][r].status = "resident_confirmed" =>
                  reading'[p][r].previous < reading'[p][r].final
  <2>1. CASE reading'[p][r] = reading[p][r]
    BY <1>1, <1>2, <2>1 DEF FinalHasValue, ConfirmedConsumesGas
  <2>2. CASE reading'[p][r] # reading[p][r]
    <3>1. \/ reading'[p][r].status \in Resubmittable
          \/ /\ Confirmable(reading[p][r])
             /\ reading'[p][r].previous = reading[p][r].previous
             /\ reading'[p][r].final = reading[p][r].submitted
          \/ /\ reading'[p][r].status = "admin_overridden"
             /\ reading'[p][r].final # NoValue
          \/ reading'[p][r].status = "rejected"
      BY <2>2, RowStep
    <3>2. QED  BY <1>2, <3>1 DEF Resubmittable, Finalized, Confirmable
  <2>3. QED  BY <2>1, <2>2
<1>3. FinalHasValue'
  BY <1>2 DEF FinalHasValue
<1>4. ConfirmedConsumesGas'
  BY <1>2 DEF ConfirmedConsumesGas, Finalized
<1>5. QED  BY <1>3, <1>4

\* Notices: what a step adds, and for whom.
LEMMA ToldEffect ==
    ASSUME CInv, [Next]_vars, NEW p \in Periods, NEW r \in Residents
    PROVE  \/ /\ told'[p][r]["missing"] = told[p][r]["missing"]
              /\ told'[p][r]["missing_admin"] = told[p][r]["missing_admin"]
           \/ /\ \E t \in Threads : /\ thread[t].op = "chase" /\ thread[t].period = p
                                    /\ r \in thread[t].left
              /\ told'[p][r]["missing"] = told[p][r]["missing"] + 1
              /\ told'[p][r]["missing_admin"] = told[p][r]["missing_admin"]
           \/ /\ \E t \in Threads : /\ thread[t].op = "copy" /\ thread[t].period = p
                                    /\ thread[t].about = r
              /\ told'[p][r]["missing"] = told[p][r]["missing"]
              /\ told'[p][r]["missing_admin"] = told[p][r]["missing_admin"] + 1
<1>1. TypeOK
  BY DEF CInv, RInv
<1>3. ASSUME NEW q \in Periods, NEW s \in Residents, NEW n \in Notices,
             told' = [told EXCEPT ![q][s][n] = @ + 1], NEW m \in Notices
      PROVE  told'[p][r][m] = IF p = q /\ r = s /\ m = n THEN told[p][r][m] + 1
                                                         ELSE told[p][r][m]
  BY <1>1, <1>3 DEF TypeOK
<1>4. {"opened", "missing", "missing_admin"} \subseteq Notices
  BY DEF Notices
<1>5. ASSUME NEW t \in Threads, NEW s \in Residents, TellOpened(t, s)
      PROVE  /\ told'[p][r]["missing"] = told[p][r]["missing"]
             /\ told'[p][r]["missing_admin"] = told[p][r]["missing_admin"]
  <2>1. PICK q \in Periods : told' = [told EXCEPT ![q][s]["opened"] = @ + 1]
    BY <1>1, <1>5, OperationFields DEF TellOpened, Tell, TypeOK
  <2>2. QED  BY <1>3, <1>4, <2>1
<1>6. ASSUME NEW t \in Threads, NEW s \in Residents, TellMissing(t, s)
      PROVE  \/ /\ told'[p][r]["missing"] = told[p][r]["missing"]
                /\ told'[p][r]["missing_admin"] = told[p][r]["missing_admin"]
             \/ /\ thread[t].op = "chase" /\ thread[t].period = p /\ r \in thread[t].left
                /\ told'[p][r]["missing"] = told[p][r]["missing"] + 1
                /\ told'[p][r]["missing_admin"] = told[p][r]["missing_admin"]
  <2>1. PICK q \in Periods : /\ q = thread[t].period
                             /\ told' = [told EXCEPT ![q][s]["missing"] = @ + 1]
    BY <1>1, <1>6, OperationFields DEF TellMissing, Tell, TypeOK
  <2>2. thread[t].op = "chase" /\ s \in thread[t].left
    BY <1>6 DEF TellMissing
  <2>3. QED  BY <1>3, <1>4, <2>1, <2>2
<1>7. ASSUME NEW t \in Threads, TellMissingAdmin(t)
      PROVE  \/ /\ told'[p][r]["missing"] = told[p][r]["missing"]
                /\ told'[p][r]["missing_admin"] = told[p][r]["missing_admin"]
             \/ /\ thread[t].op = "copy" /\ thread[t].period = p /\ thread[t].about = r
                /\ told'[p][r]["missing"] = told[p][r]["missing"]
                /\ told'[p][r]["missing_admin"] = told[p][r]["missing_admin"] + 1
  <2>1. PICK q \in Periods, s \in Residents :
          /\ q = thread[t].period /\ s = thread[t].about
          /\ told' = [told EXCEPT ![q][s]["missing_admin"] = @ + 1]
    BY <1>1, <1>7, OperationFields DEF TellMissingAdmin, Tell, TypeOK
  <2>2. thread[t].op = "copy"
    BY <1>7 DEF TellMissingAdmin
  <2> DEFINE n == "missing_admin"
  <2>3. n \in Notices /\ "missing" \in Notices /\ n # "missing"
    BY DEF Notices
  <2>4. told' = [told EXCEPT ![q][s][n] = @ + 1]
    BY <2>1
  <2> HIDE DEF n
  <2>5. told'[p][r]["missing"] = told[p][r]["missing"]
    BY <1>3, <2>3, <2>4
  <2>6. CASE p = q /\ r = s
    <3>1. told'[p][r][n] = told[p][r][n] + 1
      BY <1>3, <2>3, <2>4, <2>6
    <3>2. QED  BY <2>1, <2>2, <2>5, <2>6, <3>1 DEF n
  <2>7. CASE ~(p = q /\ r = s)
    <3>1. told'[p][r][n] = told[p][r][n]
      BY <1>3, <2>3, <2>4, <2>7
    <3>2. QED  BY <2>5, <3>1 DEF n
  <2>8. QED  BY <2>6, <2>7
<1>8. QED  BY <1>5, <1>6, <1>7, ToldStep

\* Whose turn it is to be told has not been told before.
LEMMA NotToldYet ==
    ASSUME CInv, NEW t \in Threads, NEW p \in Periods, NEW r \in Residents,
           thread[t].period = p,
           \/ thread[t].op = "chase" /\ r \in thread[t].left
           \/ thread[t].op = "copy" /\ thread[t].about = r
    PROVE  /\ period[p].status \notin Early
           /\ told[p][r]["missing"] = IF thread[t].op = "chase" THEN 0 ELSE 1
           /\ told[p][r]["missing_admin"] = 0
<1>1. TypeOK /\ MissingToldOnce /\ CheckInHand(thread[t], job[t].kind)
  BY DEF CInv, RInv
<1>2. period[p].status \notin Early
  BY <1>1 DEF CheckInHand
<1>3. told[p][r]["missing"] \in Nat /\ told[p][r]["missing_admin"] \in Nat
  BY <1>1 DEF TypeOK, Notices
<1>4. CASE thread[t].op = "copy" /\ thread[t].about = r
  BY <1>1, <1>2, <1>4 DEF CheckInHand
<1>5. CASE thread[t].op = "chase" /\ r \in thread[t].left
  <2>1. ~(told[p][r]["missing"] > 0)
    BY <1>1, <1>5 DEF CheckInHand, ToldButFor
  <2>2. told[p][r]["missing_admin"] <= told[p][r]["missing"]
    BY <1>1 DEF MissingToldOnce
  <2>3. told[p][r]["missing"] = 0 /\ told[p][r]["missing_admin"] = 0
    BY <1>3, <2>1, <2>2
  <2>4. QED  BY <1>2, <1>5, <2>3
<1>6. QED  BY <1>4, <1>5

LEMMA ToldOnceStep ==
    ASSUME CInv, [Next]_vars
    PROVE  MissingToldOnce'
<1>1. TypeOK /\ MissingToldOnce
  BY DEF CInv, RInv
<1>2. SUFFICES ASSUME NEW p \in Periods, NEW r \in Residents
               PROVE  /\ told'[p][r]["missing_admin"] <= told'[p][r]["missing"]
                      /\ told'[p][r]["missing"] <= 1
  BY DEF MissingToldOnce
<1>3. /\ told[p][r]["missing_admin"] <= told[p][r]["missing"] /\ told[p][r]["missing"] <= 1
      /\ told[p][r]["missing"] \in Nat /\ told[p][r]["missing_admin"] \in Nat
  BY <1>1 DEF MissingToldOnce, TypeOK, Notices
<1>4. ASSUME NEW t \in Threads, thread[t].op = "chase", thread[t].period = p,
             r \in thread[t].left
      PROVE  told[p][r]["missing"] = 0 /\ told[p][r]["missing_admin"] = 0
  BY <1>4, NotToldYet
<1>5. ASSUME NEW t \in Threads, thread[t].op = "copy", thread[t].period = p,
             thread[t].about = r
      PROVE  told[p][r]["missing"] = 1 /\ told[p][r]["missing_admin"] = 0
  BY <1>5, NotToldYet
<1>6. QED  BY <1>3, <1>4, <1>5, ToldEffect

LEMMA QuietWhileEarlyStep ==
    ASSUME CInv, [Next]_vars
    PROVE  QuietWhileEarly'
<1>1. TypeOK /\ QuietWhileEarly
  BY DEF CInv, RInv
<1>2. SUFFICES ASSUME NEW p \in Periods, period'[p].status \in Early, NEW r \in Residents
               PROVE  /\ bill'[p][r] = NoBill
                      /\ told'[p][r]["missing"] = 0 /\ told'[p][r]["missing_admin"] = 0
  BY DEF QuietWhileEarly
<1>3. period[p].status \in Early
  BY <1>2, StatusStep DEF Early, Lifecycle
<1>4. /\ bill[p][r] = NoBill
      /\ told[p][r]["missing"] = 0 /\ told[p][r]["missing_admin"] = 0
  BY <1>1, <1>3 DEF QuietWhileEarly
<1>5. bill'[p][r] = NoBill
  BY <1>3, <1>4, BillMade DEF Early, Generatable
<1>6. ASSUME NEW t \in Threads, thread[t].period = p,
             \/ thread[t].op = "chase" /\ r \in thread[t].left
             \/ thread[t].op = "copy" /\ thread[t].about = r
      PROVE  FALSE
  BY <1>3, <1>6, NotToldYet
<1>7. QED  BY <1>4, <1>5, <1>6, ToldEffect

-----------------------------------------------------------------------------
(* What the one handler that runs has in hand.                             *)

InHand(t) == RowInHand(thread[t]) /\ CheckInHand(thread[t], job[t].kind)

LEMMA NothingInHand ==
    ASSUME NEW t \in Threads, thread'[t].op \in {"idle", "announce", "draft"}
    PROVE  InHand(t)'
BY DEF InHand, RowInHand, CheckInHand

\* No table changes, and what is taken in hand is true of them.
LEMMA TakenInHand ==
    ASSUME TypeOK, NEW t \in Threads, NEW x, Become(t, x), UNCHANGED tables,
           NEW kind, job'[t].kind = kind, RowInHand(x), CheckInHand(x, kind)
    PROVE  InHand(t)'
BY DEF InHand, RowInHand, CheckInHand, ToldButFor, Unbilled, FinalizedIn, Become,
   tables, TypeOK

LEMMA RequestInHand ==
    ASSUME CInv, NEW t \in Threads, RequestStep(t)
    PROVE  InHand(t)'
<1>1. TypeOK
  BY DEF CInv, RInv
<1>2. ASSUME NEW x, Start(t, x), RowInHand(x),
             x.op \notin {"survey", "chase", "copy"}
      PROVE  InHand(t)'
  <2>1. Become(t, x) /\ UNCHANGED tables /\ job'[t].kind = "none"
    BY <1>2 DEF Start, Request, IsFree, NoJob
  <2>2. CheckInHand(x, "none")
    BY <1>2 DEF CheckInHand
  <2>3. QED  BY <1>1, <1>2, <2>1, <2>2, TakenInHand
<1>3. ASSUME NEW p \in Periods, CreatePeriod(t, p)
      PROVE  InHand(t)'
  BY <1>3, NothingInHand DEF CreatePeriod, Request, IsFree, Idle
<1>4. ASSUME NEW p \in Periods, BeginUpdate(t, p)
      PROVE  InHand(t)'
  <2>1. PICK w : Start(t, [op |-> "update", period |-> p, seen |-> period[p], wanted |-> w])
    BY <1>4 DEF BeginUpdate
  <2>2. PICK x : x = [op |-> "update", period |-> p, seen |-> period[p], wanted |-> w]
    OBVIOUS
  <2>3. RowInHand(x) /\ x.op = "update"
    BY <2>2 DEF RowInHand
  <2>4. QED  BY <1>2, <2>1, <2>2, <2>3
<1>5. ASSUME NEW p \in Periods, BeginMove(t, p)
      PROVE  InHand(t)'
  <2>1. PICK to \in PeriodStatus :
          /\ <<period[p].status, to>> \in Lifecycle
          /\ Start(t, [op |-> "move", period |-> p, seen |-> period[p], to |-> to])
    BY <1>5 DEF BeginMove
  <2>2. PICK x : x = [op |-> "move", period |-> p, seen |-> period[p], to |-> to]
    OBVIOUS
  <2>3. RowInHand(x) /\ x.op = "move"
    BY <2>1, <2>2 DEF RowInHand
  <2>4. QED  BY <1>2, <2>1, <2>2, <2>3
<1>6. ASSUME NEW p \in Periods, BeginGenerate(t, p)
      PROVE  InHand(t)'
  <2>1. PICK x : x = [op |-> "generate", period |-> p, seen |-> period[p]]
    OBVIOUS
  <2>2. RowInHand(x) /\ x.op = "generate"
    BY <1>6, <2>1 DEF RowInHand, BeginGenerate
  <2>3. QED  BY <1>2, <1>6, <2>1, <2>2 DEF BeginGenerate
<1>7. ASSUME NEW r \in Residents, BeginSubmit(t, r)
      PROVE  InHand(t)'
  <2>1. PICK p \in Periods :
          /\ reading[p][r] = NoReading \/ reading[p][r].status \in Resubmittable
          /\ Start(t, [op |-> "submit", period |-> p, resident |-> r, seen |-> reading[p][r]])
    BY <1>7 DEF BeginSubmit
  <2>2. PICK x : x = [op |-> "submit", period |-> p, resident |-> r, seen |-> reading[p][r]]
    OBVIOUS
  <2>3. RowInHand(x) /\ x.op = "submit"
    BY <2>1, <2>2 DEF RowInHand
  <2>4. QED  BY <1>2, <2>1, <2>2, <2>3
<1>8. ASSUME NEW p \in Periods, NEW r \in Residents, BeginConfirm(t, p, r)
      PROVE  InHand(t)'
  <2>1. reading[p][r] \in Reading /\ Confirmable(reading[p][r])
    BY <1>1, <1>8, RowsExist DEF BeginConfirm
  <2>2. PICK w : w = [reading[p][r] EXCEPT !.status = "resident_confirmed",
                                           !.final = reading[p][r].submitted]
    OBVIOUS
  <2>3. /\ w.status = "resident_confirmed" /\ w.previous = reading[p][r].previous
        /\ w.final = reading[p][r].submitted
    <3>1. PICK y : y = reading[p][r]
      OBVIOUS
    <3>2. y \in Reading /\ w = [y EXCEPT !.status = "resident_confirmed", !.final = y.submitted]
      BY <2>1, <2>2, <3>1
    <3>3. /\ w.status = "resident_confirmed" /\ w.previous = y.previous
          /\ w.final = y.submitted
      BY <3>2 DEF Reading
    <3>4. QED  BY <3>1, <3>3
  <2>4. PICK x : x = [op |-> "confirm", period |-> p, resident |-> r,
                      seen |-> reading[p][r], wanted |-> w]
    OBVIOUS
  <2>5. RowInHand(x) /\ x.op = "confirm"
    BY <2>1, <2>3, <2>4 DEF RowInHand
  <2>6. Start(t, x)
    BY <1>8, <2>2, <2>4 DEF BeginConfirm
  <2>7. QED  BY <1>2, <2>5, <2>6
<1>9. ASSUME NEW p \in Periods, NEW r \in Residents, BeginOverride(t, p, r)
      PROVE  InHand(t)'
  <2>1. reading[p][r] \in Reading
    BY <1>1, <1>9, RowsExist DEF BeginOverride
  <2>2. PICK v \in Values :
          Start(t, [op |-> "override", period |-> p, resident |-> r,
                    seen |-> reading[p][r],
                    wanted |-> [reading[p][r] EXCEPT !.status = "admin_overridden",
                                                     !.final = v]])
    BY <1>9 DEF BeginOverride
  <2>3. PICK w : w = [reading[p][r] EXCEPT !.status = "admin_overridden", !.final = v]
    OBVIOUS
  <2>4. w.status = "admin_overridden" /\ w.final # NoValue
    <3>1. PICK y : y = reading[p][r]
      OBVIOUS
    <3>2. y \in Reading /\ w = [y EXCEPT !.status = "admin_overridden", !.final = v]
      BY <2>1, <2>3, <3>1
    <3>3. w.status = "admin_overridden" /\ w.final = v
      BY <3>2 DEF Reading
    <3>4. v # NoValue
      BY ReadingAssumption
    <3>5. QED  BY <3>3, <3>4
  <2>5. PICK x : x = [op |-> "override", period |-> p, resident |-> r,
                      seen |-> reading[p][r], wanted |-> w]
    OBVIOUS
  <2>6. RowInHand(x) /\ x.op = "override"
    BY <2>4, <2>5 DEF RowInHand
  <2>7. Start(t, x)
    BY <2>2, <2>3, <2>5
  <2>8. QED  BY <1>2, <2>6, <2>7
<1>10. ASSUME NEW p \in Periods, NEW r \in Residents, BeginReject(t, p, r)
       PROVE  InHand(t)'
  <2>1. reading[p][r] \in Reading
    BY <1>1, <1>10, RowsExist DEF BeginReject
  <2>2. PICK w : w = [reading[p][r] EXCEPT !.status = "rejected"]
    OBVIOUS
  <2>3. w.status = "rejected"
    BY <2>1, <2>2 DEF Reading
  <2>4. PICK x : x = [op |-> "reject", period |-> p, resident |-> r,
                      seen |-> reading[p][r], wanted |-> w]
    OBVIOUS
  <2>5. RowInHand(x) /\ x.op = "reject"
    BY <2>3, <2>4 DEF RowInHand
  <2>6. Start(t, x)
    BY <1>10, <2>2, <2>4 DEF BeginReject
  <2>7. QED  BY <1>2, <2>5, <2>6
<1>11. QED
  BY <1>3, <1>4, <1>5, <1>6, <1>7, <1>8, <1>9, <1>10 DEF RequestStep

\* A job moves a period as it has found it.
LEMMA MoveInHand ==
    ASSUME TypeOK, NEW t \in Threads, NEW kind \in Jobs, NEW p \in Periods,
           period[p].status = From[kind], MoveByJob(t, kind, p), UNCHANGED tables,
           job'[t].kind = kind
    PROVE  InHand(t)'
<1>1. PICK x : x = [op |-> "move", period |-> p, seen |-> period[p], to |-> To[kind]]
  OBVIOUS
<1>2. /\ <<From[kind], To[kind]>> \in Lifecycle
      /\ kind = "deadline" =>
           <<From[kind], To[kind]>> = <<"open_for_readings", "readings_closed">>
  BY DEF From, To, Lifecycle, Jobs
<1>3. RowInHand(x)
  BY <1>1, <1>2 DEF RowInHand
<1>4. CheckInHand(x, kind)
  BY <1>1, <1>2 DEF CheckInHand
<1>5. Become(t, x)
  BY <1>1 DEF MoveByJob
<1>6. QED  BY <1>3, <1>4, <1>5, TakenInHand

LEMMA MovedInHand ==
    ASSUME CInv, NEW t \in Threads, FinishMove(t)
    PROVE  InHand(t)'
<1>1. TypeOK /\ TypeOK' /\ QuietWhileEarly /\ CheckInHand(thread[t], job[t].kind)
  <2>1. TypeOK'
    BY NextRInv DEF CInv, RInv, Next, Continue
  <2>2. QED  BY <2>1 DEF CInv, RInv
<1>2. PICK p \in Periods, y \in Period :
        /\ p = thread[t].period /\ period[p] \in Period
        /\ thread[t].op = "move" /\ thread[t].seen = period[p]
        /\ period' = [period EXCEPT ![p] = y]
        /\ y.status = thread[t].to
  BY MoveEffect
<1>3. UNCHANGED <<reading, bill, told, job>>
  BY DEF FinishMove
<1>4. CASE job[t].kind # "deadline"
  <2>1. thread'[t].op \in {"idle", "announce"}
    BY <1>1, <1>4 DEF FinishMove, Become, Idle, TypeOK
  <2>2. QED  BY <2>1, NothingInHand
<1>5. CASE job[t].kind = "deadline"
  <2>1. thread'[t] = [op |-> "survey", period |-> p]
    BY <1>1, <1>2, <1>5 DEF FinishMove, Become, TypeOK
  <2>2. period[p].status = "open_for_readings" /\ y.status = "readings_closed"
    BY <1>1, <1>2, <1>5 DEF CheckInHand
  <2>3. period'[p].status \notin Early
    BY <1>1, <1>2, <2>2 DEF Early, TypeOK
  <2>4. \A r \in Residents : bill[p][r] = NoBill /\ told[p][r]["missing"] = 0
    BY <1>1, <2>2 DEF QuietWhileEarly, Early
  <2>5. Unbilled(p)' /\ ToldButFor(p, Residents)'
    BY <1>3, <2>4 DEF Unbilled, ToldButFor
  <2>6. RowInHand(thread[t])'
    BY <2>1 DEF RowInHand
  <2>7. thread'[t].op = "survey" /\ thread'[t].period = p
    BY <2>1
  <2>8. CheckInHand(thread[t], job[t].kind)'
    BY <1>3, <1>5, <2>3, <2>5, <2>7 DEF CheckInHand
  <2>9. QED  BY <2>6, <2>8 DEF InHand
<1>6. QED  BY <1>4, <1>5

LEMMA ToldInHand ==
    ASSUME CInv, NEW t \in Threads, NEW r \in Residents, TellMissing(t, r)
    PROVE  InHand(t)'
<1>1. /\ TypeOK /\ CheckInHand(thread[t], job[t].kind)
  BY DEF CInv, RInv
<1>2. PICK p \in Periods, left \in SUBSET Residents :
        /\ p = thread[t].period /\ left = thread[t].left
        /\ thread[t].op = "chase" /\ r \in left
  BY <1>1, OperationFields DEF TellMissing, TypeOK
<1>3. /\ told' = [told EXCEPT ![p][r]["missing"] = @ + 1]
      /\ UNCHANGED <<period, reading, bill, job>>
      /\ thread'[t] = [op |-> "copy", period |-> p, left |-> left \ {r}, about |-> r]
  BY <1>1, <1>2 DEF TellMissing, Tell, Become, TypeOK
<1>4. /\ period[p].status \notin Early
      /\ told[p][r]["missing"] = 0 /\ told[p][r]["missing_admin"] = 0
  BY <1>2, NotToldYet
<1>5. /\ job[t].kind = "deadline" /\ Unbilled(p)
      /\ ToldButFor(p, left) /\ left \cap FinalizedIn(p) = {}
  BY <1>1, <1>2 DEF CheckInHand
<1>6. /\ told'[p][r]["missing"] = 1 /\ told'[p][r]["missing_admin"] = 0
      /\ \A s \in Residents : s # r => told'[p][s] = told[p][s]
  BY <1>1, <1>3, <1>4 DEF TypeOK, Notices
<1>7. ToldButFor(p, left \ {r})'
  <2>1. FinalizedIn(p)' = FinalizedIn(p)
    BY <1>3 DEF FinalizedIn
  <2>2. QED  BY <1>2, <1>5, <1>6, <2>1 DEF ToldButFor
<1>8. Unbilled(p)' /\ FinalizedIn(p)' = FinalizedIn(p)
  BY <1>3, <1>5 DEF Unbilled, FinalizedIn
<1>9. /\ thread'[t].op = "copy" /\ thread'[t].period = p /\ thread'[t].about = r
      /\ thread'[t].left = left \ {r} /\ job'[t].kind = "deadline"
  BY <1>3, <1>5
<1>10. CheckInHand(thread[t], job[t].kind)'
  BY <1>3, <1>4, <1>5, <1>6, <1>7, <1>8, <1>9 DEF CheckInHand
<1>11. QED  BY <1>9, <1>10 DEF InHand, RowInHand

LEMMA CopiedInHand ==
    ASSUME CInv, NEW t \in Threads, TellMissingAdmin(t)
    PROVE  InHand(t)'
<1>1. /\ TypeOK /\ CheckInHand(thread[t], job[t].kind)
  BY DEF CInv, RInv
<1>2. PICK p \in Periods, left \in SUBSET Residents, r \in Residents :
        /\ p = thread[t].period /\ left = thread[t].left /\ r = thread[t].about
        /\ thread[t].op = "copy"
  BY <1>1, OperationFields DEF TellMissingAdmin, TypeOK
<1>3. /\ UNCHANGED <<period, reading, bill, job>>
      /\ thread'[t] = [op |-> "chase", period |-> p, left |-> left]
  BY <1>1, <1>2 DEF TellMissingAdmin, Tell, Become, TypeOK
<1>4. \A s \in Residents : told'[p][s]["missing"] = told[p][s]["missing"]
  <2>1. told' = [told EXCEPT ![p][r]["missing_admin"] = @ + 1]
    BY <1>2 DEF TellMissingAdmin, Tell
  <2>2. QED  BY <1>1, <2>1 DEF TypeOK, Notices
<1>5. /\ job[t].kind = "deadline" /\ Unbilled(p) /\ period[p].status \notin Early
      /\ ToldButFor(p, left) /\ left \cap FinalizedIn(p) = {}
  BY <1>1, <1>2 DEF CheckInHand
<1>6. /\ Unbilled(p)' /\ FinalizedIn(p)' = FinalizedIn(p) /\ ToldButFor(p, left)'
  BY <1>3, <1>4, <1>5 DEF Unbilled, FinalizedIn, ToldButFor
<1>7. /\ thread'[t].op = "chase" /\ thread'[t].period = p /\ thread'[t].left = left
      /\ job'[t].kind = "deadline"
  BY <1>3, <1>5
<1>8. CheckInHand(thread[t], job[t].kind)'
  BY <1>3, <1>5, <1>6, <1>7 DEF CheckInHand
<1>9. QED  BY <1>7, <1>8 DEF InHand, RowInHand

LEMMA ContinueInHand ==
    ASSUME CInv, NEW t \in Threads, Continue(t)
    PROVE  InHand(t)'
<1>1. /\ TypeOK /\ RowInHand(thread[t]) /\ CheckInHand(thread[t], job[t].kind)
      /\ job[t].kind = "none" => job[t].todo = {}
  BY DEF CInv, RInv
<1>2. CASE \/ FinishUpdate(t) \/ FinishGenerate(t) \/ GenerateConflict(t)
           \/ FinishSubmit(t) \/ AbandonSubmit(t) \/ FinishReview(t) \/ Announced(t)
           \/ JobGenerateConflict(t) \/ NoDraftNeeded(t) \/ CreateDraft(t)
           \/ CreateDraftConflict(t) \/ DeadlineDone(t)
           \/ \E p \in Periods : NextPeriodConflict(t, p)
  <2>1. Become(t, Idle)
    BY <1>2 DEF FinishUpdate, FinishGenerate, GenerateConflict, FinishSubmit,
       AbandonSubmit, FinishReview, Announced, JobGenerateConflict, NoDraftNeeded,
       CreateDraft, CreateDraftConflict, DeadlineDone, NextPeriodConflict, Stop, Carry,
       Become
  <2>2. thread'[t].op = "idle"
    BY <1>1, <2>1 DEF Become, Idle, TypeOK
  <2>3. QED  BY <2>2, NothingInHand
<1>3. CASE LoadReadings(t)
  <2>1. PICK x : x = [op |-> "bill", period |-> thread[t].period, seen |-> thread[t].seen,
                      rows |-> reading[thread[t].period],
                      billed |-> {r \in Residents : bill[thread[t].period][r] # NoBill}]
    OBVIOUS
  <2>2. /\ x.op = "bill" /\ x.period = thread[t].period /\ x.seen = thread[t].seen
        /\ x.rows = reading[x.period]
        /\ x.billed = {r \in Residents : bill[x.period][r] # NoBill}
    BY <2>1
  <2>3. thread[t].op = "generate"
    BY <1>3 DEF LoadReadings
  <2>4. RowInHand(x) /\ CheckInHand(x, job[t].kind)
    BY <1>1, <2>2, <2>3 DEF RowInHand, CheckInHand
  <2>5. Become(t, x) /\ UNCHANGED tables /\ job'[t].kind = job[t].kind
    BY <1>3, <2>1 DEF LoadReadings, Carry
  <2>6. QED  BY <1>1, <2>4, <2>5, TakenInHand
<1>4. CASE JobGenerate(t)
  <2>1. PICK x : x = [op |-> "generate", period |-> thread[t].period,
                      seen |-> period[thread[t].period]]
    OBVIOUS
  <2>2. x.op = "generate" /\ x.period = thread[t].period /\ x.seen = period[x.period]
    BY <2>1
  <2>3. /\ thread[t].op = "chase" /\ thread[t].left = {}
        /\ period[thread[t].period].status \in Generatable
    BY <1>4 DEF JobGenerate
  <2>4. RowInHand(x)
    BY <2>2, <2>3 DEF RowInHand
  <2>5. CheckInHand(x, job[t].kind)
    BY <1>1, <2>2, <2>3 DEF CheckInHand
  <2>6. Become(t, x) /\ UNCHANGED tables /\ job'[t].kind = job[t].kind
    BY <1>4, <2>1 DEF JobGenerate, Carry
  <2>7. QED  BY <1>1, <2>4, <2>5, <2>6, TakenInHand
<1>5. ASSUME NEW p \in Periods, NextPeriod(t, p)
      PROVE  InHand(t)'
  <2>1. p \in job[t].todo /\ job[t] \in [kind: Jobs \cup {"none"}, todo: SUBSET Periods]
    BY <1>1, <1>5 DEF NextPeriod, TypeOK
  <2>2. PICK kind \in Jobs : kind = job[t].kind
    BY <1>1, <2>1
  <2>3. /\ period[p].status = From[kind] /\ MoveByJob(t, kind, p) /\ UNCHANGED tables
    BY <1>5, <2>2 DEF NextPeriod
  <2>4. job'[t].kind = kind
    <3>1. \A j \in [kind: Jobs \cup {"none"}, todo: SUBSET Periods], S \in SUBSET Periods :
            [j EXCEPT !.todo = S].kind = j.kind
      OBVIOUS
    <3>2. job' = [job EXCEPT ![t] = [job[t] EXCEPT !.todo = job[t].todo \ {p}]]
      BY <1>5 DEF NextPeriod
    <3>3. [job[t] EXCEPT !.todo = job[t].todo \ {p}].kind = job[t].kind
      BY <2>1, <3>1
    <3>4. job'[t] = [job[t] EXCEPT !.todo = job[t].todo \ {p}]
      BY <1>1, <3>2 DEF TypeOK
    <3>5. QED  BY <2>2, <3>3, <3>4
  <2>5. QED  BY <1>1, <2>3, <2>4, MoveInHand
<1>6. ASSUME NEW r \in Residents, TellOpened(t, r)
      PROVE  InHand(t)'
  <2>1. thread[t] \in Operation /\ thread[t].op = "announce"
    BY <1>1, <1>6 DEF TellOpened, TypeOK
  <2>2. thread[t] \in [op: {"announce", "chase"}, period: Periods, left: SUBSET Residents]
    BY <2>1 DEF Operation, Idle
  <2>3. PICK x : x = [thread[t] EXCEPT !.left = thread[t].left \ {r}]
    OBVIOUS
  <2>4. x.op = "announce"
    BY <2>1, <2>2, <2>3
  <2>5. Become(t, x)
    BY <1>6, <2>3 DEF TellOpened
  <2>6. thread'[t].op = "announce"
    BY <1>1, <2>4, <2>5 DEF Become, TypeOK
  <2>7. QED  BY <2>6, NothingInHand
<1>7. CASE Survey(t)
  <2>1. thread[t].op = "survey"
    BY <1>7 DEF Survey
  <2>2. PICK x : x = [op |-> "chase", period |-> thread[t].period,
                      left |-> Residents \ FinalizedResidents(thread[t].period)]
    OBVIOUS
  <2>3. /\ x.op = "chase" /\ x.period = thread[t].period
        /\ x.left = Residents \ FinalizedIn(x.period)
    BY <2>2 DEF FinalizedResidents
  <2>4. job[t].kind = "deadline" /\ ToldButFor(x.period, Residents)
    BY <1>1, <2>1, <2>3 DEF CheckInHand
  <2>5. ToldButFor(x.period, x.left) /\ x.left \cap FinalizedIn(x.period) = {}
    BY <2>3, <2>4 DEF ToldButFor
  <2>6. RowInHand(x)
    BY <2>3 DEF RowInHand
  <2>7. CheckInHand(x, job[t].kind)
    BY <1>1, <2>1, <2>3, <2>4, <2>5 DEF CheckInHand
  <2>8. Become(t, x) /\ UNCHANGED tables /\ job'[t].kind = job[t].kind
    BY <1>7, <2>2 DEF Survey, Carry
  <2>9. QED  BY <1>1, <2>6, <2>7, <2>8, TakenInHand
<1>8. CASE CheckDraft(t)
  <2>1. thread'[t].op = "draft"
    BY <1>1, <1>8 DEF CheckDraft, Carry, Become, TypeOK
  <2>2. QED  BY <2>1, NothingInHand
<1>9. QED
  BY <1>2, <1>3, <1>4, <1>5, <1>6, <1>7, <1>8, MovedInHand, ToldInHand, CopiedInHand
  DEF Continue

LEMMA InHandStep ==
    ASSUME OneThread, CInv, [Next]_vars, NEW t \in Threads
    PROVE  InHand(t)'
<1>1. TypeOK /\ InHand(t)
  BY DEF CInv, RInv, InHand
<1>2. CASE UNCHANGED <<tables, thread, job>>
  BY <1>1, <1>2 DEF InHand, RowInHand, CheckInHand, ToldButFor, Unbilled, FinalizedIn,
     tables
<1>3. CASE Crash
  BY <1>3, NothingInHand DEF Crash, Idle
<1>4. ASSUME NEW kind \in Jobs, Fire(t, kind)
      PROVE  InHand(t)'
  <2>1. thread[t] = Idle /\ UNCHANGED tables
    BY <1>4 DEF Fire, IsFree
  <2>2. CASE UNCHANGED thread
    BY <2>1, <2>2, NothingInHand DEF Idle
  <2>3. ASSUME NEW p \in Listed(kind), MoveByJob(t, kind, p),
               job' = [job EXCEPT ![t] = [kind |-> kind, todo |-> Listed(kind) \ {p}]]
        PROVE  InHand(t)'
    <3>1. p \in Periods /\ period[p].status = From[kind]
      BY DEF Listed
    <3>2. job'[t].kind = kind
      BY <1>1, <2>3 DEF TypeOK
    <3>3. QED  BY <1>1, <2>1, <2>3, <3>1, <3>2, MoveInHand
  <2>4. QED  BY <1>4, <2>2, <2>3 DEF Fire
<1>5. \A u \in Threads : u = t
  BY DEF OneThread
<1>6. ASSUME Tick \/ UNCHANGED vars
      PROVE  UNCHANGED <<tables, thread, job>>
  BY <1>6 DEF Tick, vars
<1>7. QED
  BY <1>2, <1>3, <1>4, <1>5, <1>6, RequestInHand, ContinueInHand DEF Next

LEMMA InitCInv == Init => CInv
<1> SUFFICES ASSUME Init PROVE CInv
  OBVIOUS
<1>1. RInv
  BY InitRInv
<1>2. QuietWhileEarly /\ MissingToldOnce
  BY DEF Init, QuietWhileEarly, MissingToldOnce, Notices
<1>3. FinalHasValue /\ ConfirmedConsumesGas
  BY DEF Init, FinalHasValue, ConfirmedConsumesGas, NoReading, Finalized
<1>4. \A t \in Threads : thread[t].op = "idle"
  BY DEF Init, Idle
<1>5. \A t \in Threads : RowInHand(thread[t]) /\ CheckInHand(thread[t], job[t].kind)
  BY <1>4 DEF RowInHand, CheckInHand
<1>6. QED  BY <1>1, <1>2, <1>3, <1>5 DEF CInv

LEMMA NextCInv == OneThread /\ CInv /\ [Next]_vars => CInv'
<1> SUFFICES ASSUME OneThread, CInv, [Next]_vars PROVE CInv'
  OBVIOUS
<1>1. RInv'
  BY NextRInv DEF CInv
<1>2. \A t \in Threads : (RowInHand(thread[t]) /\ CheckInHand(thread[t], job[t].kind))'
  BY InHandStep DEF InHand
<1>3. QED
  BY <1>1, <1>2, QuietWhileEarlyStep, FinalHasValueStep, ToldOnceStep DEF CInv

-----------------------------------------------------------------------------
(* What follows, as long as handlers run one at a time.                    *)

\* The invariant the other results rest on: a commit finds the rows it was made
\* from, and the deadline check has told whoever is not left on its list.
THEOREM SerialCycleInvariant ==
    ASSUME OneThread
    PROVE  Spec => []CInv
<1>1. CInv /\ [Next]_vars => CInv'
  BY NextCInv
<1>2. QED  BY InitCInv, <1>1, PTL DEF Spec

\* What a resident has confirmed is more than the meter has shown before.
THEOREM ConfirmedReadingsGrow ==
    ASSUME OneThread
    PROVE  Spec => []ConfirmedConsumesGas
<1>1. CInv => ConfirmedConsumesGas
  BY DEF CInv
<1>2. QED  BY <1>1, SerialCycleInvariant, PTL

\* Resident and administrator are told of a missing reading once at most, wherever
\* a restart cuts the deadline check short: the period it has closed before is not
\* taken up again.
THEOREM MissingIsToldOnce ==
    ASSUME OneThread
    PROVE  Spec => []MissingToldOnce
<1>1. CInv => MissingToldOnce
  BY DEF CInv
<1>2. QED  BY <1>1, SerialCycleInvariant, PTL

\* A period goes through its lifecycle one status after the other.
THEOREM PeriodsGoForward ==
    ASSUME OneThread
    PROVE  Spec => PeriodsMoveForward
<1>1. ASSUME CInv, [Next]_vars, NEW p \in Periods,
             period'[p].status # period[p].status
      PROVE  Rank[period'[p].status] = Rank[period[p].status] + 1
  BY <1>1, StatusStep DEF Rank, Lifecycle
<1>2. CInv /\ [Next]_vars =>
        [\A p \in Periods :
           period'[p].status # period[p].status =>
             Rank[period'[p].status] = Rank[period[p].status] + 1]_vars
  BY <1>1
<1>3. QED  BY <1>2, SerialCycleInvariant, PTL DEF Spec, PeriodsMoveForward

\* A bill quotes what is final when it is made, at the period's rate, once the
\* period takes no more readings, and is not made over.
THEOREM BillsAreTrueToReadings ==
    ASSUME OneThread
    PROVE  Spec => BillsQuoteFinalReadings
<1>1. ASSUME CInv, [Next]_vars, NEW p \in Periods, NEW r \in Residents,
             bill'[p][r] # bill[p][r]
      PROVE  /\ bill[p][r] = NoBill
             /\ period[p].status \in Generatable
             /\ reading[p][r].status \in Finalized
             /\ bill'[p][r].current = reading[p][r].final
             /\ bill'[p][r].previous = reading[p][r].previous
             /\ bill'[p][r].rate = period[p].rate
  <2>1. /\ bill[p][r] = NoBill
        /\ period[p].status \in Generatable
        /\ reading[p][r].status \in Finalized
    BY <1>1, BillMade
  <2>2. bill'[p][r] = [status |-> "issued", previous |-> reading[p][r].previous,
                       current |-> reading[p][r].final, rate |-> period[p].rate]
    BY <1>1, BillMade
  <2>3. QED  BY <2>1, <2>2
<1>2. CInv /\ [Next]_vars =>
        [\A p \in Periods, r \in Residents :
           bill'[p][r] # bill[p][r] =>
             /\ bill[p][r] = NoBill
             /\ period[p].status \in Generatable
             /\ reading[p][r].status \in Finalized
             /\ bill'[p][r].current = reading[p][r].final
             /\ bill'[p][r].previous = reading[p][r].previous
             /\ bill'[p][r].rate = period[p].rate]_vars
  BY <1>1
<1>3. QED  BY <1>2, SerialCycleInvariant, PTL DEF Spec, BillsQuoteFinalReadings

\* The end of the deadline check's run for a period.
LEMMA DeadlineAccounts ==
    ASSUME OneThread, CInv, [Next]_vars, NEW t \in Threads, NEW p \in Periods,
           thread[t].op = "bill", thread[t].period = p, thread'[t] = Idle,
           job[t].kind = "deadline", job'[t].kind = "deadline", NEW r \in Residents
    PROVE  (bill'[p][r] = NoBill) = (told[p][r]["missing"] > 0)
<1>1. /\ TypeOK /\ FinalHasValue
      /\ RowInHand(thread[t]) /\ CheckInHand(thread[t], job[t].kind)
  BY DEF CInv, RInv
<1>2. /\ bill[p][r] = NoBill
      /\ told[p][r]["missing"] > 0 <=> reading[p][r].status \notin Finalized
  BY <1>1 DEF CheckInHand, Unbilled, ToldButFor, FinalizedIn
<1>3. /\ thread[t].rows = reading[p]
      /\ thread[t].billed = {s \in Residents : bill[p][s] # NoBill}
  BY <1>1 DEF RowInHand
<1>4. r \in NewlyBilled(t) <=> reading[p][r].status \in Finalized
  BY <1>1, <1>2, <1>3 DEF NewlyBilled, ToBill, FinalHasValue
<1>5. FinishGenerate(t)
  <2>1. \A u \in Threads : u = t
    BY DEF OneThread
  <2>2. thread[t] # Idle /\ thread'[t] # thread[t]
    BY DEF Idle
  <2>3. ~RequestStep(t) /\ \A kind \in Jobs : ~Fire(t, kind)
    BY <2>2 DEF RequestStep, CreatePeriod, BeginUpdate, BeginMove, BeginGenerate,
       BeginSubmit, BeginConfirm, BeginOverride, BeginReject, Start, Request, Fire, IsFree
  <2>4. ~Tick /\ ~(UNCHANGED vars) /\ ~Crash
    BY <2>2 DEF Tick, vars, Crash, NoJob
  <2>5. ~GenerateConflict(t)
    BY <1>1 DEF GenerateConflict, Stop, NoJob, TypeOK
  <2>6. Continue(t) => FinishGenerate(t) \/ GenerateConflict(t)
    BY <2>2 DEF Continue, FinishUpdate, FinishMove, LoadReadings, FinishSubmit,
       AbandonSubmit, FinishReview, NextPeriod, NextPeriodConflict, TellOpened,
       TellMissing, Announced, Survey, TellMissingAdmin, JobGenerate,
       JobGenerateConflict, CheckDraft, NoDraftNeeded, CreateDraft, CreateDraftConflict,
       DeadlineDone, LoopDone
  <2>7. QED  BY <2>1, <2>3, <2>4, <2>5, <2>6 DEF Next
<1>6. bill'[p][r] = NoBill <=> r \notin NewlyBilled(t)
  <2>1. bill' = [bill EXCEPT ![p] =
          [s \in Residents |->
             IF s \in NewlyBilled(t)
             THEN [status |-> "issued", previous |-> thread[t].rows[s].previous,
                   current |-> thread[t].rows[s].final, rate |-> thread[t].seen.rate]
             ELSE bill[p][s]]]
    BY <1>5 DEF FinishGenerate
  <2>2. QED  BY <1>1, <1>2, <2>1 DEF TypeOK, NoBill
<1>7. QED  BY <1>2, <1>4, <1>6

\* When the deadline check has done with a period, every resident has a bill or
\* has been told that the reading is missing, and nobody both.
THEOREM NobodyIsForgotten ==
    ASSUME OneThread
    PROVE  Spec => DeadlineAccountsForAll
<1>1. CInv /\ [Next]_vars =>
        [\A t \in Threads, p \in Periods :
           (/\ thread[t].op = "bill" /\ thread[t].period = p /\ thread'[t] = Idle
            /\ job[t].kind = "deadline" /\ job'[t].kind = "deadline") =>
             \A r \in Residents :
               (bill'[p][r] = NoBill) = (told[p][r]["missing"] > 0)]_vars
  BY DeadlineAccounts
<1>2. QED  BY <1>1, SerialCycleInvariant, PTL DEF Spec, DeadlineAccountsForAll

=============================================================================
