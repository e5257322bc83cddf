---------------------------- MODULE ImportProofs ----------------------------
(***************************************************************************)
(* Proofs about the registry and the import for every set of houses, every *)
(* spreadsheet and any number of jobs, calls and requests.  The types hold *)
(* however requests overlap; the other results speak, as the properties    *)
(* do, of histories in which no two calls were in flight at once.          *)
(***************************************************************************)
EXTENDS ImportProperties, TLAPS, FiniteSetTheorems, WellFoundedInduction

-----------------------------------------------------------------------------
(* The inductive invariant.  What a call holds is x, so that its parts are *)
(* stated of any record.                                                   *)

Stored == {j \in Jobs : jobs[j] \in Job}

JobColumns == [status: Statuses, mapping: Mappings, total: Nat, valid: Nat, error: Nat]

\* Two importable rows share no house and no mobile number.
Apart(rows) ==
    \A i, k \in Importable(rows) :
      i # k => /\ rows[i].row.house # rows[k].row.house
               /\ rows[i].row.mobile # rows[k].row.mobile

\* Verdicts that a handler can work with: a row that passes names a house, a mobile
\* and a serial number, and a warning a house that table has.
Passing(rows, table) ==
    /\ rows \in Seq(Verdict)
    /\ Apart(rows)
    /\ \A i \in Importable(rows) :
         /\ ~Incomplete(rows[i].row)
         /\ rows[i].status = "warning" => rows[i].row.house \in DOMAIN table

\* What a handler has in hand while anything else may happen.
Sound(x) ==
    /\ x.op = "create" =>
         x.house \in Houses /\ x.resident \in Resident /\ x.serial \in Serials \cup {None}
    /\ x.op = "update" =>
         /\ x.house \in DOMAIN residents /\ x.seen \in Resident
         /\ x.mobile \in Mobiles /\ x.email \in Emails \cup {None}
    /\ x.op = "assign" => x.serial \in Serials /\ x.house \in DOMAIN residents
    /\ x.op \in {"map", "mapping", "validate", "validating", "confirm", "confirming"}
         => x.job \in Stored
    /\ x.op \in {"mapping", "validating"} => x.seen \in JobColumns
    /\ x.op = "mapping" => x.mapping \in {"required", "all"}
    /\ x.op = "validating" => x.seen.mapping # "none"
    /\ x.op = "confirming" =>
         /\ Passing(x.rows, x.residents)
         /\ DOMAIN x.residents \subseteq DOMAIN residents
         /\ \A h \in DOMAIN x.residents : x.residents[h] \in Resident
    /\ x.op = "clean" => x.jobs \subseteq Jobs

\* What a handler has in hand while nothing else has happened since it began.
Fresh(x) ==
    /\ x.op \in {"mapping", "validating"} => x.seen = Columns(jobs[x.job])
    /\ x.op = "confirming" =>
         /\ jobs[x.job].status = "validated"
         /\ x.rows = jobs[x.job].rows
         /\ x.residents = residents /\ x.meters = meters
    /\ x.op = "clean" => \A j \in x.jobs : jobs[j].status = "confirmed"

Shapes ==
    /\ jobs = [j \in Jobs |-> jobs[j]]
    /\ call = [c \in Calls |-> call[c]]
    /\ mingled \in BOOLEAN

Alone ==
    ~mingled =>
      \A b, c \in Calls : call[b] # Idle /\ call[c] # Idle => b = c

TInv ==
    /\ ImportsOK
    /\ Shapes
    /\ \A j \in Stored : Passing(jobs[j].rows, residents)
    /\ \A c \in Calls : Sound(call[c])

IInv ==
    /\ TInv
    /\ Alone
    /\ ~mingled => \A c \in Calls : Fresh(call[c])
    /\ JobsHoldTogether

-----------------------------------------------------------------------------
(* The rows that an import writes, one by one.                             *)

\* A nonempty set of numbers has a least element.
LEMMA Least ==
    ASSUME NEW T \in SUBSET Nat, T # {}
    PROVE  \E m \in T : \A n \in T : m <= n
<1> DEFINE R == OpToRel(<, Nat)
<1>1. IsWellFoundedOn(R, Nat)
  BY NatLessThanWellFounded
<1>2. \A x, y \in Nat : y < x => <<y, x>> \in R
  BY DEF OpToRel
<1> HIDE DEF R
<1>3. PICK m \in T : \A n \in T : ~(<<n, m>> \in R)
  BY <1>1, WFMin
<1>4. ASSUME NEW n \in T PROVE m <= n
  <2>1. ~(<<n, m>> \in R)
    BY <1>3
  <2>2. n \in Nat /\ m \in Nat
    OBVIOUS
  <2>3. ~(n < m)
    BY <2>1, <2>2, <1>2
  <2>4. QED  BY <2>2, <2>3
<1>5. QED  BY <1>4

\* Induction over 0..k, for a set in the place of a predicate.
LEMMA UpTo ==
    ASSUME NEW k \in Nat, NEW P, 0 \in P, \A i \in 1..k : i - 1 \in P => i \in P
    PROVE  \A i \in 0..k : i \in P
<1> DEFINE T == {i \in 0..k : i \notin P}
<1>1. SUFFICES ASSUME T # {} PROVE FALSE
  OBVIOUS
<1>2. PICK m \in T : \A n \in T : m <= n
  BY <1>1, Least, T \in SUBSET Nat
<1>3. m - 1 \in P /\ m \in 1..k
  BY <1>2
<1>4. QED  BY <1>3, <1>2

\* The table after row i, from the one after the row before.
NextTable(table, rows, seen, i) ==
    IF rows[i].status = "error" THEN table ELSE WriteRow(table, seen, rows[i])

\* f is the recursive function in After.
Tables(f, rows, seen, k) ==
    f = [i \in 0..k |-> IF i = 0 THEN residents ELSE NextTable(f[i - 1], rows, seen, i)]

LEMMA TablesExist ==
    ASSUME NEW rows, NEW seen, NEW k \in Nat
    PROVE  \E f : Tables(f, rows, seen, k)
<1> DEFINE P == {n \in 0..k : \E f : Tables(f, rows, seen, n)}
<1>1. 0 \in P
  <2> DEFINE h == [i \in 0..0 |-> residents]
  <2>1. Tables(h, rows, seen, 0)
    <3>1. h = [i \in 0..0 |-> h[i]] /\ \A i \in 0..0 : i = 0 /\ h[i] = residents
      OBVIOUS
    <3> HIDE DEF h
    <3>2. QED  BY <3>1 DEF Tables
  <2>2. QED  BY <2>1
<1>2. ASSUME NEW n \in 1..k, n - 1 \in P PROVE n \in P
  <2>1. PICK f : Tables(f, rows, seen, n - 1)
    BY <1>2
  <2> DEFINE h == [i \in 0..n |-> IF i = n THEN NextTable(f[n - 1], rows, seen, n) ELSE f[i]]
  <2>2. ASSUME NEW i \in 0..n
        PROVE  h[i] = IF i = 0 THEN residents ELSE NextTable(h[i - 1], rows, seen, i)
    <3>1. CASE i = n
      <4>1. n # 0 /\ n - 1 \in 0..n /\ n - 1 # n
        OBVIOUS
      <4>2. h[n - 1] = f[n - 1] /\ h[n] = NextTable(f[n - 1], rows, seen, n)
        BY <4>1
      <4> HIDE DEF h
      <4>3. QED  BY <3>1, <4>1, <4>2
    <3>2. CASE i = 0
      BY <3>2, <2>1, 0 \in 0..(n - 1) DEF Tables
    <3>3. CASE i # n /\ i # 0
      <4>1. i \in 0..(n - 1) /\ i - 1 \in 0..(n - 1) /\ i - 1 \in 0..n /\ i - 1 # n
        BY <3>3
      <4>2. f[i] = NextTable(f[i - 1], rows, seen, i)
        BY <2>1, <4>1, <3>3 DEF Tables
      <4>3. h[i] = f[i] /\ h[i - 1] = f[i - 1]
        BY <4>1, <3>3
      <4> HIDE DEF h
      <4>4. QED  BY <4>2, <4>3, <3>3
    <3>4. QED  BY <3>1, <3>2, <3>3
  <2>3. Tables(h, rows, seen, n)
    <3>1. h = [i \in 0..n |-> h[i]]
      OBVIOUS
    <3> HIDE DEF h
    <3>2. QED  BY <2>2, <3>1 DEF Tables
  <2>4. QED  BY <2>3
<1>3. k \in P
  <2> HIDE DEF P
  <2>1. QED  BY <1>1, <1>2, UpTo
<1>4. QED  BY <1>3

Done(rows, k) == {i \in Importable(rows) : i <= k}

\* What an importable row makes of its resident.
NewRow(verdict, seen) ==
    LET row == verdict.row
    IN  IF verdict.status = "warning"
        THEN Rewritten(residents[row.house], seen[row.house], row.mobile,
                       MailOf(row, seen[row.house].email))
        ELSE [mobile |-> row.mobile, email |-> row.email]

\* table is the registry with the first k rows written to it.
WrittenBy(table, rows, seen, k) ==
    /\ DOMAIN table = DOMAIN residents \cup {rows[i].row.house : i \in Done(rows, k)}
    /\ \A h \in DOMAIN residents :
         (\A i \in Done(rows, k) : rows[i].row.house # h) => table[h] = residents[h]
    /\ \A i \in Done(rows, k) : table[rows[i].row.house] = NewRow(rows[i], seen)

LEMMA OneRow ==
    ASSUME NEW rows, NEW seen, Passing(rows, seen), DOMAIN seen \subseteq DOMAIN residents,
           NEW k \in 1..Len(rows), NEW table, WrittenBy(table, rows, seen, k - 1)
    PROVE  WrittenBy(NextTable(table, rows, seen, k), rows, seen, k)
<1>1. k \in DOMAIN rows /\ DOMAIN rows = 1..Len(rows)
  BY DEF Passing
<1>2. CASE rows[k].status = "error"
  <2>1. Done(rows, k) = Done(rows, k - 1)
    BY <1>1, <1>2 DEF Done, Importable
  <2>2. QED  BY <2>1, <1>2 DEF NextTable, WrittenBy
<1>3. CASE rows[k].status # "error"
  <2> DEFINE h == rows[k].row.house
             new == NextTable(table, rows, seen, k)
  <2>1. k \in Importable(rows)
    BY <1>1, <1>3 DEF Importable
  <2>2. Done(rows, k) = Done(rows, k - 1) \cup {k} /\ k \notin Done(rows, k - 1)
    BY <1>1, <2>1 DEF Done, Importable
  <2>3. \A i \in Done(rows, k - 1) : rows[i].row.house # h
    BY <2>1, <2>2 DEF Done, Passing, Apart
  <2>4. h \in DOMAIN residents => table[h] = residents[h]
    BY <2>3 DEF WrittenBy
  <2>5. /\ DOMAIN new = DOMAIN table \cup {h}
        /\ \A g \in DOMAIN table : g # h => new[g] = table[g]
        /\ new[h] = NewRow(rows[k], seen)
    <3>1. CASE rows[k].status = "warning"
      <4>1. h \in DOMAIN seen /\ h \in DOMAIN table
        BY <3>1, <2>1 DEF Passing, WrittenBy
      <4>2. new = [table EXCEPT ![h] = Rewritten(@, seen[h], rows[k].row.mobile,
                                                 MailOf(rows[k].row, seen[h].email))]
        BY <3>1, <1>3 DEF NextTable, WriteRow
      <4> HIDE DEF new
      <4>3. new[h] = Rewritten(table[h], seen[h], rows[k].row.mobile,
                               MailOf(rows[k].row, seen[h].email))
        BY <4>1, <4>2
      <4>4. new[h] = NewRow(rows[k], seen)
        <5>1. table[h] = residents[h]
          BY <2>4, <4>1
        <5>2. QED  BY <4>3, <5>1, <3>1 DEF NewRow
      <4>5. DOMAIN new = DOMAIN table /\ \A g \in DOMAIN table : g # h => new[g] = table[g]
        BY <4>2
      <4>6. QED  BY <4>1, <4>4, <4>5
    <3>2. CASE rows[k].status # "warning"
      BY <3>2, <1>3 DEF NextTable, WriteRow, Put, NewRow
    <3>3. QED  BY <3>1, <3>2
  <2> HIDE DEF new
  <2>6. DOMAIN new = DOMAIN residents \cup {rows[i].row.house : i \in Done(rows, k)}
    BY <2>2, <2>5 DEF WrittenBy
  <2>7. ASSUME NEW g \in DOMAIN residents, \A i \in Done(rows, k) : rows[i].row.house # g
        PROVE  new[g] = residents[g]
    BY <2>7, <2>2, <2>5 DEF WrittenBy
  <2>8. ASSUME NEW i \in Done(rows, k) PROVE new[rows[i].row.house] = NewRow(rows[i], seen)
    BY <2>2, <2>3, <2>5 DEF WrittenBy
  <2>9. QED  BY <2>6, <2>7, <2>8 DEF WrittenBy, new
<1>4. QED  BY <1>2, <1>3

LEMMA AfterRows ==
    ASSUME NEW rows, NEW seen, Passing(rows, seen), DOMAIN seen \subseteq DOMAIN residents,
           NEW k \in 0..Len(rows)
    PROVE  WrittenBy(After(rows, seen, k), rows, seen, k)
<1> DEFINE tables == CHOOSE f : Tables(f, rows, seen, k)
           P == {i \in 0..k : WrittenBy(tables[i], rows, seen, i)}
<1>1. Len(rows) \in Nat /\ DOMAIN rows = 1..Len(rows)
  BY DEF Passing
<1>2. After(rows, seen, k) = tables[k]
  BY DEF After, NextTable, Tables
<1>3. Tables(tables, rows, seen, k)
  <2>1. k \in Nat
    BY <1>1
  <2>2. QED  BY <2>1, TablesExist
<1> HIDE DEF tables
<1>4. 0 \in P
  <2>1. Done(rows, 0) = {}
    BY <1>1 DEF Done, Importable
  <2>2. tables[0] = residents
    BY <1>3, <1>1 DEF Tables
  <2>3. WrittenBy(tables[0], rows, seen, 0)
    BY <2>1, <2>2 DEF WrittenBy
  <2>4. QED  BY <2>3, <1>1
<1>5. ASSUME NEW i \in 1..k, i - 1 \in P PROVE i \in P
  <2>1. tables[i] = NextTable(tables[i - 1], rows, seen, i)
    BY <1>3, <1>1 DEF Tables
  <2>2. i \in 1..Len(rows) /\ i \in 0..k
    BY <1>1
  <2>3. WrittenBy(tables[i - 1], rows, seen, i - 1)
    BY <1>5
  <2>4. WrittenBy(NextTable(tables[i - 1], rows, seen, i), rows, seen, i)
    BY <2>2, <2>3, OneRow
  <2>5. QED  BY <2>1, <2>2, <2>4
<1>6. k \in P
  <2> HIDE DEF P
  <2>1. k \in Nat /\ k \in 0..k
    BY <1>1
  <2>2. QED  BY <1>4, <1>5, <2>1, UpTo
<1>7. QED  BY <1>6, <1>2

-----------------------------------------------------------------------------
(* Judging, counting and writing columns.                                  *)

LEMMA VerdictsPass ==
    ASSUME NEW sheet \in Seq(Row), NEW mapping
    PROVE  /\ Passing(Verdicts(sheet, mapping), residents)
           /\ Len(Verdicts(sheet, mapping)) = Len(sheet)
<1> DEFINE rows == Mapped(sheet, mapping)
           verdicts == Verdicts(sheet, mapping)
<1>1. rows \in [1..Len(sheet) -> Row] /\ DOMAIN rows = 1..Len(sheet)
  <2>1. \A row \in Row : [row EXCEPT !.email = None] \in Row
    BY DEF Row, Cell
  <2>2. DOMAIN sheet = 1..Len(sheet) /\ \A i \in 1..Len(sheet) : sheet[i] \in Row
    OBVIOUS
  <2>3. \A i \in 1..Len(sheet) : [sheet[i] EXCEPT !.email = None] \in Row
    BY <2>1, <2>2
  <2>4. QED  BY <2>2, <2>3 DEF Mapped
<1>2. verdicts = [i \in 1..Len(sheet) |-> Judged(rows, i)]
  BY <1>1 DEF Verdicts
<1> HIDE DEF rows, verdicts
<1>3. \A i \in 1..Len(sheet) : Judged(rows, i) \in Verdict
  BY <1>1 DEF Judged, Verdict
<1>4. verdicts \in Seq(Verdict) /\ Len(verdicts) = Len(sheet) /\ DOMAIN verdicts = 1..Len(sheet)
  BY <1>2, <1>3
<1>5. ASSUME NEW i \in Importable(verdicts)
      PROVE  /\ verdicts[i].row = rows[i]
             /\ ~Incomplete(rows[i]) /\ ~Repeats(rows, i)
             /\ verdicts[i].status = "warning" => rows[i].house \in DOMAIN residents
  <2>1. i \in 1..Len(sheet) /\ verdicts[i] = Judged(rows, i) /\ verdicts[i].status # "error"
    BY <1>2, <1>4 DEF Importable
  <2>2. QED  BY <2>1 DEF Judged
<1>6. ASSUME NEW i \in Importable(verdicts), NEW k \in Importable(verdicts), k < i
      PROVE  /\ verdicts[i].row.house # verdicts[k].row.house
             /\ verdicts[i].row.mobile # verdicts[k].row.mobile
  <2>1. k \in 1..(i - 1)
    BY <1>4, <1>6 DEF Importable
  <2>2. ~Same(rows[k].house, rows[i].house) /\ ~Same(rows[k].mobile, rows[i].mobile)
    BY <2>1, <1>5 DEF Repeats
  <2>3. QED  BY <2>2, <1>5 DEF Same, Incomplete
<1>7. Apart(verdicts)
  <2>1. \A i, k \in Importable(verdicts) : i # k => k < i \/ i < k
    BY <1>4 DEF Importable
  <2>2. QED  BY <2>1, <1>6 DEF Apart
<1>8. QED  BY <1>4, <1>5, <1>7 DEF Passing, verdicts

LEMMA Counts ==
    ASSUME NEW rows \in Seq(Verdict)
    PROVE  /\ Cardinality(Importable(rows)) \in Nat
           /\ Cardinality(InError(rows)) \in Nat
           /\ Len(rows) - Cardinality(Importable(rows)) = Cardinality(InError(rows))
<1>1. IsFiniteSet(1..Len(rows)) /\ Cardinality(1..Len(rows)) = Len(rows)
  <2>1. Len(rows) \in Nat
    OBVIOUS
  <2>2. QED  BY <2>1, FS_Interval
<1>2. DOMAIN rows = 1..Len(rows) /\ Importable(rows) \subseteq 1..Len(rows)
  BY DEF Importable
<1>3. IsFiniteSet(Importable(rows)) /\ Cardinality(Importable(rows)) \in Nat
  BY <1>1, <1>2, FS_Subset, FS_CardinalityType
<1>4. IsFiniteSet(InError(rows)) /\ Cardinality(InError(rows)) \in Nat
  <2>1. InError(rows) \subseteq 1..Len(rows)
    BY <1>2 DEF InError
  <2>2. QED  BY <2>1, <1>1, FS_Subset, FS_CardinalityType
<1>5. /\ Importable(rows) \cup InError(rows) = 1..Len(rows)
      /\ Importable(rows) \cap InError(rows) = {}
  BY <1>2 DEF InError
<1>6. Cardinality(1..Len(rows))
        = Cardinality(Importable(rows)) + Cardinality(InError(rows)) - Cardinality({})
  BY <1>3, <1>4, <1>5, FS_Union
<1>7. Cardinality({}) = 0
  BY FS_EmptySet
<1>8. QED  BY <1>1, <1>3, <1>4, <1>6, <1>7

LEMMA ColumnIn ==
    ASSUME NEW S, NEW seen, NEW new \in S, NEW current \in S
    PROVE  Column(seen, new, current) \in S
BY DEF Column

LEMMA WrittenIn ==
    ASSUME NEW job \in Job, NEW seen, NEW new \in JobColumns
    PROVE  /\ Written(job, seen, new) \in Job
           /\ Written(job, seen, new).rows = job.rows
           /\ Written(job, seen, new).sheet = job.sheet
<1>1. PICK status \in Statuses : status = Column(seen.status, new.status, job.status)
  BY ColumnIn DEF Job, JobColumns
<1>2. PICK mapping \in Mappings : mapping = Column(seen.mapping, new.mapping, job.mapping)
  BY ColumnIn DEF Job, JobColumns
<1>3. PICK total \in Nat : total = Column(seen.total, new.total, job.total)
  BY ColumnIn DEF Job, JobColumns
<1>4. PICK valid \in Nat : valid = Column(seen.valid, new.valid, job.valid)
  BY ColumnIn DEF Job, JobColumns
<1>5. PICK error \in Nat : error = Column(seen.error, new.error, job.error)
  BY ColumnIn DEF Job, JobColumns
<1>6. Written(job, seen, new) =
        [job EXCEPT !.status = status, !.mapping = mapping, !.total = total,
                    !.valid = valid, !.error = error]
  BY <1>1, <1>2, <1>3, <1>4, <1>5 DEF Written
<1>7. QED  BY <1>6 DEF Job

\* Columns written over a job that is as it was loaded.
LEMMA WrittenFresh ==
    ASSUME NEW job \in Job, NEW new \in JobColumns
    PROVE  Columns(Written(job, Columns(job), new)) = new
BY DEF Written, Columns, Column, Job, JobColumns

LEMMA MailIn ==
    ASSUME NEW row \in Row, NEW old \in Emails \cup {None}
    PROVE  MailOf(row, old) \in Emails \cup {None}
BY DEF MailOf, Row, Cell

LEMMA RewrittenIn ==
    ASSUME NEW current \in Resident, NEW seen, NEW mobile \in Mobiles,
           NEW email \in Emails \cup {None}
    PROVE  Rewritten(current, seen, mobile, email) \in Resident
BY ColumnIn DEF Rewritten, Resident

LEMMA AfterIn ==
    ASSUME RegistryOK, NEW rows, NEW seen, Passing(rows, seen),
           DOMAIN seen \subseteq DOMAIN residents,
           \A h \in DOMAIN seen : seen[h] \in Resident, NEW k \in 0..Len(rows)
    PROVE  /\ DOMAIN residents \subseteq DOMAIN After(rows, seen, k)
           /\ DOMAIN After(rows, seen, k) \subseteq Houses
           /\ \A h \in DOMAIN After(rows, seen, k) : After(rows, seen, k)[h] \in Resident
<1> DEFINE after == After(rows, seen, k)
<1>1. WrittenBy(after, rows, seen, k)
  BY AfterRows
<1> HIDE DEF after
<1>2. ASSUME NEW i \in Importable(rows)
      PROVE  rows[i].row.house \in Houses /\ NewRow(rows[i], seen) \in Resident
  <2>1. PICK row \in Row : row = rows[i].row
    <3>1. rows[i] \in Verdict
      BY DEF Importable, Passing
    <3>2. QED  BY <3>1 DEF Verdict
  <2>2. row.house \in Houses /\ row.mobile \in Mobiles /\ row.email \in Emails \cup {None}
    BY <2>1 DEF Row, Cell, Passing, Incomplete
  <2>3. CASE rows[i].status = "warning"
    <3>1. row.house \in DOMAIN seen
      BY <2>1, <2>3 DEF Passing
    <3>2. residents[row.house] \in Resident /\ seen[row.house] \in Resident
      BY <3>1 DEF RegistryOK
    <3>3. MailOf(row, seen[row.house].email) \in Emails \cup {None}
      BY <3>2, MailIn DEF Resident
    <3>4. Rewritten(residents[row.house], seen[row.house], row.mobile,
                    MailOf(row, seen[row.house].email)) \in Resident
      BY <3>2, <3>3, <2>2, RewrittenIn
    <3>5. QED  BY <3>4, <2>1, <2>2, <2>3 DEF NewRow
  <2>4. CASE rows[i].status # "warning"
    BY <2>4, <2>1, <2>2 DEF NewRow, Resident
  <2>5. QED  BY <2>3, <2>4, <2>1, <2>2
<1>3. Done(rows, k) \subseteq Importable(rows)
  BY DEF Done
<1>4. DOMAIN residents \subseteq DOMAIN after /\ DOMAIN after \subseteq Houses
  BY <1>1, <1>2, <1>3 DEF WrittenBy, RegistryOK
<1>5. \A h \in DOMAIN after : after[h] \in Resident
  BY <1>1, <1>2, <1>3 DEF WrittenBy, RegistryOK
<1>6. QED  BY <1>4, <1>5 DEF after

-----------------------------------------------------------------------------
(* What a step does to the registry.                                       *)

LEMMA StoreResidentRegistry ==
    ASSUME RegistryOK, NEW c \in Calls, Sound(call[c]), StoreResident(c)
    PROVE  RegistryOK' /\ DOMAIN residents \subseteq DOMAIN residents'
<1> DEFINE h == call[c].house
           s == call[c].serial
           new == Put(residents, h, call[c].resident)
           with == IF s = None THEN meters ELSE Put(meters, s, h)
           fits == h \notin DOMAIN residents /\ Distinct(new) /\ SerialFree(s)
<1>1. h \in Houses /\ call[c].resident \in Resident /\ s \in Serials \cup {None}
  BY DEF StoreResident, Sound
<1>2. residents' = IF fits THEN new ELSE residents
  BY DEF StoreResident, Commit
<1>3. meters' = IF fits THEN with ELSE meters
  BY DEF StoreResident, Commit
<1>4. /\ DOMAIN new = DOMAIN residents \cup {h}
      /\ \A g \in DOMAIN new : new[g] \in Resident
  BY <1>1 DEF Put, RegistryOK
<1>5. /\ DOMAIN with \subseteq Serials
      /\ \A m \in DOMAIN with : with[m] \in DOMAIN residents \cup {h}
  BY <1>1 DEF Put, RegistryOK
<1> HIDE DEF new, with, h, s
<1>6. CASE fits
  <2>1. residents' = new /\ meters' = with /\ Distinct(new)
    BY <1>2, <1>3, <1>6
  <2>2. DOMAIN new \subseteq Houses
    BY <1>1, <1>4 DEF RegistryOK
  <2>3. QED  BY <2>1, <2>2, <1>4, <1>5 DEF RegistryOK, Distinct
<1>7. CASE ~fits
  BY <1>2, <1>3, <1>7 DEF RegistryOK, Distinct
<1>8. QED  BY <1>6, <1>7

LEMMA StoreUpdateRegistry ==
    ASSUME RegistryOK, NEW c \in Calls, Sound(call[c]), StoreUpdate(c)
    PROVE  RegistryOK' /\ DOMAIN residents' = DOMAIN residents
<1> DEFINE h == call[c].house
           row == Rewritten(residents[h], call[c].seen, call[c].mobile, call[c].email)
           new == [residents EXCEPT ![h] = row]
<1>1. h \in DOMAIN residents /\ call[c].mobile \in Mobiles /\ call[c].email \in Emails \cup {None}
  BY DEF StoreUpdate, Sound
<1>2. row \in Resident
  BY <1>1, RewrittenIn DEF RegistryOK
<1>3. residents' = (IF Distinct(new) THEN new ELSE residents) /\ meters' = meters
  BY DEF StoreUpdate, Commit
<1> HIDE DEF row
<1>4. /\ DOMAIN new = DOMAIN residents
      /\ \A g \in DOMAIN new : new[g] \in Resident
  BY <1>2 DEF RegistryOK
<1> HIDE DEF new
<1>5. QED  BY <1>3, <1>4 DEF RegistryOK, Distinct

LEMMA StoreMeterRegistry ==
    ASSUME RegistryOK, NEW c \in Calls, Sound(call[c]), StoreMeter(c)
    PROVE  RegistryOK' /\ residents' = residents
<1>1. call[c].serial \in Serials /\ call[c].house \in DOMAIN residents
  BY DEF StoreMeter, Sound
<1>2. residents' = residents
  BY DEF StoreMeter, Commit
<1>3. meters' = meters \/ meters' = Put(meters, call[c].serial, call[c].house)
  BY DEF StoreMeter, Commit
<1>4. DOMAIN meters' \subseteq Serials /\ \A s \in DOMAIN meters' : meters'[s] \in DOMAIN residents
  BY <1>1, <1>3 DEF Put, RegistryOK
<1>5. QED  BY <1>2, <1>4 DEF RegistryOK, Distinct

\* A serial number of the import that is new goes to the house of its row.
LEMMA MetersOfRows ==
    ASSUME NEW rows, NEW new \in SUBSET Importable(rows), NEW s \in DOMAIN WithMeters(rows, new)
    PROVE  \/ s \in DOMAIN meters /\ WithMeters(rows, new)[s] = meters[s]
           \/ \E i \in Importable(rows) :
                /\ rows[i].row.serial = s
                /\ WithMeters(rows, new)[s] = rows[i].row.house
<1> DEFINE row(t) == rows[CHOOSE i \in new : rows[i].row.serial = t].row
           with == WithMeters(rows, new)
<1>1. with = [t \in DOMAIN meters \cup {rows[i].row.serial : i \in new} |->
                 IF t \in DOMAIN meters THEN meters[t] ELSE row(t).house]
  BY DEF WithMeters
<1> HIDE DEF with
<1>2. CASE s \in DOMAIN meters
  BY <1>1, <1>2 DEF with
<1>3. CASE s \notin DOMAIN meters
  <2> DEFINE i == CHOOSE i \in new : rows[i].row.serial = s
  <2>1. s \in DOMAIN with
    BY DEF with
  <2>2. \E n \in new : rows[n].row.serial = s
    BY <1>1, <1>3, <2>1
  <2>3. i \in new /\ rows[i].row.serial = s
    BY <2>2
  <2>4. with[s] = rows[i].row.house
    BY <1>1, <1>3, <2>1
  <2> HIDE DEF i
  <2>5. QED  BY <2>3, <2>4 DEF with
<1>4. QED  BY <1>2, <1>3

LEMMA ConfirmRegistry ==
    ASSUME RegistryOK, NEW c \in Calls, Sound(call[c]), ConfirmImport(c)
    PROVE  RegistryOK' /\ DOMAIN residents \subseteq DOMAIN residents'
<1> DEFINE rows == call[c].rows
           seen == call[c].residents
           new == NewMeters(rows, call[c].meters)
           last == After(rows, seen, Len(rows))
           with == WithMeters(rows, new)
<1>1. /\ Passing(rows, seen) /\ DOMAIN seen \subseteq DOMAIN residents
      /\ \A h \in DOMAIN seen : seen[h] \in Resident
  BY DEF ConfirmImport, Sound
<1>2. \/ residents' = last /\ Distinct(last) /\ meters' = with
      \/ residents' = residents /\ meters' = meters
  BY DEF ConfirmImport, Commit, KeepsAll
<1>3. Len(rows) \in 0..Len(rows)
  BY <1>1 DEF Passing
<1>4. /\ DOMAIN residents \subseteq DOMAIN last /\ DOMAIN last \subseteq Houses
      /\ \A h \in DOMAIN last : last[h] \in Resident
  BY <1>1, <1>3, AfterIn
<1>5. WrittenBy(last, rows, seen, Len(rows))
  BY <1>1, <1>3, AfterRows
<1>6. \A i \in Importable(rows) : rows[i].row.house \in DOMAIN last
  <2>1. \A i \in Importable(rows) : i \in Done(rows, Len(rows))
    BY <1>1 DEF Done, Importable, Passing
  <2> HIDE DEF last, rows, seen
  <2>2. QED  BY <1>5, <2>1 DEF WrittenBy
<1>7. ASSUME NEW s \in DOMAIN with
      PROVE  \/ s \in DOMAIN meters /\ with[s] = meters[s]
             \/ \E i \in Importable(rows) :
                  rows[i].row.serial = s /\ with[s] = rows[i].row.house
  <2>1. new \subseteq Importable(rows)
    BY DEF NewMeters
  <2> HIDE DEF new, rows
  <2>2. QED  BY <2>1, MetersOfRows
<1>8. \A i \in Importable(rows) : rows[i].row.serial \in Serials
  <2>1. ASSUME NEW i \in Importable(rows) PROVE rows[i].row.serial \in Serials
    <3>1. ~Incomplete(rows[i].row)
      BY <1>1 DEF Passing
    <3>2. rows[i] \in Verdict
      BY <1>1 DEF Importable, Passing
    <3>3. QED  BY <3>1, <3>2 DEF Verdict, Row, Cell, Incomplete
  <2>2. QED  BY <2>1
<1> HIDE DEF rows, seen, new, last, with
<1>9. DOMAIN with \subseteq Serials /\ \A s \in DOMAIN with : with[s] \in DOMAIN last
  BY <1>4, <1>6, <1>7, <1>8 DEF RegistryOK
<1>10. QED  BY <1>2, <1>4, <1>9 DEF RegistryOK, Distinct

\* A request that only begins, and a step on the jobs, leaves the registry alone.
LEMMA RegistryEffect ==
    ASSUME TInv, [Next]_vars
    PROVE  RegistryOK' /\ DOMAIN residents \subseteq DOMAIN residents'
<1>1. RegistryOK /\ \A c \in Calls : Sound(call[c])
  BY DEF TInv, ImportsOK
<1>2. CASE UNCHANGED <<residents, meters>>
  BY <1>1, <1>2 DEF RegistryOK, Distinct
<1>3. ASSUME NEW c \in Calls, RegistryRequest(c) PROVE UNCHANGED <<residents, meters>>
  BY <1>3 DEF RegistryRequest, CreateResident, UpdateResident, UpdateOwnEmail, AssignMeter, Begin
<1>4. ASSUME NEW c \in Calls, NEW j \in Jobs,
             \/ UploadImport(c, j) \/ SendMapping(c, j) \/ SendValidation(c, j)
             \/ SendConfirmation(c, j)
      PROVE  UNCHANGED <<residents, meters>>
  BY <1>4 DEF UploadImport, SendMapping, SendValidation, SendConfirmation, Send, Begin
<1>5. ASSUME NEW c \in Calls,
             \/ LoadJob(c) \/ ConfirmMapping(c) \/ ValidateImport(c)
             \/ CleanUp(c) \/ RemoveFiles(c)
      PROVE  UNCHANGED <<residents, meters>>
  BY <1>5 DEF LoadJob, ConfirmMapping, ValidateImport, CleanUp, RemoveFiles, KeepRegistry, Begin
<1>6. ASSUME NEW c \in Calls, RegistryStep(c)
      PROVE  RegistryOK' /\ DOMAIN residents \subseteq DOMAIN residents'
  BY <1>1, <1>6, StoreResidentRegistry, StoreUpdateRegistry, StoreMeterRegistry DEF RegistryStep
<1>7. ASSUME NEW c \in Calls, ConfirmImport(c)
      PROVE  RegistryOK' /\ DOMAIN residents \subseteq DOMAIN residents'
  BY <1>1, <1>7, ConfirmRegistry
<1>8. QED  BY <1>2, <1>3, <1>4, <1>5, <1>6, <1>7 DEF Next, vars

-----------------------------------------------------------------------------
(* What a step does to the jobs.                                           *)

\* The rows a job gets: none, those it had, or newly judged ones.
JobStep ==
    /\ jobs' = [j \in Jobs |-> jobs'[j]]
    /\ files' \subseteq Jobs
    /\ \A j \in Jobs :
         \/ jobs'[j] = jobs[j]
         \/ /\ jobs'[j] \in Job
            /\ \/ jobs'[j].rows = <<>>
               \/ j \in Stored /\ jobs'[j].rows = jobs[j].rows
               \/ Passing(jobs'[j].rows, residents)

LEMMA JobFields ==
    ASSUME NEW j \in Stored
    PROVE  /\ jobs[j] \in Job /\ j \in Jobs
           /\ jobs[j].sheet \in Sheets /\ jobs[j].sheet \in Seq(Row)
           /\ jobs[j].rows \in Seq(Verdict)
           /\ jobs[j].status \in Statuses
           /\ Columns(jobs[j]) \in JobColumns
BY SheetsAssumption DEF Stored, Job, Columns, JobColumns

LEMMA UploadJob ==
    ASSUME TInv, NEW c \in Calls, NEW j \in Jobs, UploadImport(c, j)
    PROVE  JobStep
<1>1. PICK sheet \in Sheets :
        jobs' = [jobs EXCEPT ![j] = [status |-> "uploaded", sheet |-> sheet,
                   mapping |-> "none", rows |-> <<>>, total |-> 0, valid |-> 0, error |-> 0]]
  BY DEF UploadImport
<1>2. PICK job \in Job : job = [status |-> "uploaded", sheet |-> sheet,
                   mapping |-> "none", rows |-> <<>>, total |-> 0, valid |-> 0, error |-> 0]
  <2>1. <<>> \in Seq(Verdict) /\ 0 \in Nat
    OBVIOUS
  <2>2. "uploaded" \in Statuses /\ "none" \in Mappings
    BY DEF Statuses, Mappings
  <2>3. QED  BY <2>1, <2>2 DEF Job
<1>3. jobs' = [jobs EXCEPT ![j] = job] /\ job.rows = <<>>
  BY <1>1, <1>2
<1>4. jobs' = [i \in Jobs |-> IF i = j THEN job ELSE jobs[i]]
  BY <1>3 DEF TInv, Shapes
<1>5. files' \subseteq Jobs
  BY DEF UploadImport, TInv, ImportsOK
<1>6. QED  BY <1>3, <1>4, <1>5 DEF JobStep

LEMMA MappingJob ==
    ASSUME TInv, NEW c \in Calls, ConfirmMapping(c)
    PROVE  JobStep
<1> DEFINE j == call[c].job
           seen == call[c].seen
           new == [seen EXCEPT !.status = "mapped", !.mapping = call[c].mapping]
           job == Written(jobs[j], seen, new)
<1>1. j \in Stored /\ seen \in JobColumns /\ call[c].mapping \in {"required", "all"}
  BY DEF TInv, Sound, ConfirmMapping
<1>2. new \in JobColumns
  BY <1>1 DEF JobColumns, Statuses, Mappings
<1>3. jobs' = [jobs EXCEPT ![j] = job] /\ files' = files
  BY DEF ConfirmMapping
<1>4. jobs[j] \in Job
  BY <1>1, JobFields
<1> HIDE DEF new
<1>5. job \in Job /\ job.rows = jobs[j].rows
  BY <1>2, <1>4, WrittenIn
<1> HIDE DEF job, j, seen
<1>6. jobs' = [i \in Jobs |-> IF i = j THEN job ELSE jobs[i]]
  BY <1>3 DEF TInv, Shapes
<1>7. files' \subseteq Jobs
  BY <1>3 DEF TInv, ImportsOK
<1>8. QED  BY <1>1, <1>5, <1>6, <1>7 DEF JobStep

\* The columns that validate_import computes.
Validated(seen, rows) ==
    [seen EXCEPT !.status = "validated", !.total = Len(rows),
                 !.valid = Cardinality(Importable(rows)),
                 !.error = Len(rows) - Cardinality(Importable(rows))]

LEMMA ValidatedIn ==
    ASSUME NEW seen \in JobColumns, NEW rows \in Seq(Verdict)
    PROVE  Validated(seen, rows) \in JobColumns
<1>1. PICK error \in Nat : error = Len(rows) - Cardinality(Importable(rows))
  BY Counts
<1>2. PICK valid \in Nat : valid = Cardinality(Importable(rows))
  BY Counts
<1>3. PICK total \in Nat : total = Len(rows)
  OBVIOUS
<1>4. Validated(seen, rows) =
        [seen EXCEPT !.status = "validated", !.total = total, !.valid = valid, !.error = error]
  BY <1>1, <1>2, <1>3 DEF Validated
<1>5. QED  BY <1>4 DEF JobColumns, Statuses

\* The job after it was validated, or as it was when its spreadsheet is missing.
LEMMA ValidateImportJob ==
    ASSUME TInv, NEW c \in Calls, ValidateImport(c),
           NEW j, j = call[c].job, NEW seen, seen = call[c].seen,
           NEW rows, rows = Verdicts(jobs[j].sheet, seen.mapping),
           NEW job, job = [Written(jobs[j], seen, Validated(seen, rows)) EXCEPT !.rows = rows]
    PROVE  /\ j \in Stored /\ seen \in JobColumns
           /\ rows \in Seq(Verdict) /\ Passing(rows, residents)
           /\ Len(rows) = Len(jobs[j].sheet)
           /\ files' = files
           /\ j \in files =>
                job \in Job /\ jobs' = [i \in Jobs |-> IF i = j THEN job ELSE jobs[i]]
           /\ j \notin files => jobs' = jobs
<1>1. j \in Stored /\ seen \in JobColumns
  BY DEF TInv, Sound, ValidateImport
<1>2. rows \in Seq(Verdict) /\ Passing(rows, residents) /\ Len(rows) = Len(jobs[j].sheet)
  BY <1>1, JobFields, VerdictsPass DEF Passing
<1>3. files' = files /\ jobs' = IF j \in files THEN [jobs EXCEPT ![j] = job] ELSE jobs
  BY DEF ValidateImport, Validated, Replacing
<1>4. job \in Job
  <2>1. Validated(seen, rows) \in JobColumns
    BY <1>1, <1>2, ValidatedIn
  <2>2. Written(jobs[j], seen, Validated(seen, rows)) \in Job
    BY <1>1, <2>1, WrittenIn, JobFields
  <2>3. \A old \in Job : [old EXCEPT !.rows = rows] \in Job
    BY <1>2 DEF Job
  <2>4. QED  BY <2>2, <2>3
<1>5. j \in files => jobs' = [i \in Jobs |-> IF i = j THEN job ELSE jobs[i]]
  BY <1>1, <1>3 DEF TInv, Shapes
<1>6. QED  BY <1>1, <1>2, <1>3, <1>4, <1>5

LEMMA ValidateJob ==
    ASSUME TInv, NEW c \in Calls, ValidateImport(c)
    PROVE  JobStep
<1>1. PICK j, seen : j = call[c].job /\ seen = call[c].seen
  OBVIOUS
<1>2. PICK rows : rows = Verdicts(jobs[j].sheet, seen.mapping)
  OBVIOUS
<1>3. PICK job : job = [Written(jobs[j], seen, Validated(seen, rows)) EXCEPT !.rows = rows]
  OBVIOUS
<1>4. /\ j \in Stored /\ seen \in JobColumns
      /\ rows \in Seq(Verdict) /\ Passing(rows, residents)
      /\ Len(rows) = Len(jobs[j].sheet)
      /\ files' = files
      /\ j \in files =>
           job \in Job /\ jobs' = [i \in Jobs |-> IF i = j THEN job ELSE jobs[i]]
      /\ j \notin files => jobs' = jobs
  BY <1>1, <1>2, <1>3, ValidateImportJob
<1>5. job \in Job => job.rows = rows
  <2>1. DOMAIN job = DOMAIN Written(jobs[j], seen, Validated(seen, rows))
    BY <1>3
  <2>2. job \in Job => "rows" \in DOMAIN job
    BY DEF Job
  <2>3. QED  BY <1>3, <2>1, <2>2
<1>6. files' \subseteq Jobs /\ jobs = [i \in Jobs |-> jobs[i]]
  BY <1>4 DEF TInv, ImportsOK, Shapes
<1>7. QED  BY <1>4, <1>5, <1>6 DEF JobStep

LEMMA ConfirmJob ==
    ASSUME TInv, NEW c \in Calls, ConfirmImport(c)
    PROVE  JobStep
<1> DEFINE j == call[c].job
           job == [jobs[j] EXCEPT !.status = "confirmed"]
<1>1. j \in Stored
  BY DEF TInv, Sound, ConfirmImport
<1>2. files' = files /\ (jobs' = jobs \/ jobs' = [jobs EXCEPT ![j] = job])
  BY DEF ConfirmImport
<1>3. job \in Job /\ job.rows = jobs[j].rows
  BY <1>1, JobFields DEF Job, Statuses
<1> HIDE DEF job, j
<1>4. files' \subseteq Jobs /\ jobs = [i \in Jobs |-> jobs[i]]
  BY <1>2 DEF TInv, ImportsOK, Shapes
<1>5. jobs' = jobs \/ jobs' = [i \in Jobs |-> IF i = j THEN job ELSE jobs[i]]
  BY <1>2, <1>4
<1>6. QED  BY <1>1, <1>3, <1>4, <1>5 DEF JobStep

LEMMA JobsMove ==
    ASSUME TInv, [Next]_vars
    PROVE  JobStep
<1>1. files \subseteq Jobs /\ jobs = [j \in Jobs |-> jobs[j]]
  BY DEF TInv, ImportsOK, Shapes
<1>2. CASE jobs' = jobs /\ files' \subseteq Jobs
  BY <1>1, <1>2 DEF JobStep
<1>3. ASSUME NEW c \in Calls, RemoveFiles(c) PROVE jobs' = jobs /\ files' \subseteq Jobs
  BY <1>1, <1>3 DEF RemoveFiles
<1>4. ASSUME NEW c \in Calls, LoadJob(c) \/ CleanUp(c) PROVE UNCHANGED <<jobs, files>>
  BY <1>4 DEF LoadJob, CleanUp
<1>5. ASSUME NEW c \in Calls, NEW j \in Jobs,
             SendMapping(c, j) \/ SendValidation(c, j) \/ SendConfirmation(c, j)
      PROVE  UNCHANGED <<jobs, files>>
  BY <1>5 DEF SendMapping, SendValidation, SendConfirmation, Send
<1>6. QED
  BY <1>1, <1>2, <1>3, <1>4, <1>5, UploadJob, MappingJob, ValidateJob, ConfirmJob DEF Next, vars

LEMMA PassingGrows ==
    ASSUME NEW rows, NEW table, NEW larger, Passing(rows, table),
           DOMAIN table \subseteq DOMAIN larger
    PROVE  Passing(rows, larger)
BY DEF Passing

LEMMA JobsEffect ==
    ASSUME TInv, [Next]_vars
    PROVE  /\ \A j \in Jobs : jobs'[j] = NoJob \/ jobs'[j] \in Job
           /\ files' \subseteq Jobs
           /\ jobs' = [j \in Jobs |-> jobs'[j]]
           /\ Stored \subseteq Stored'
           /\ \A j \in Stored' : Passing(jobs'[j].rows, residents')
<1>1. JobStep
  BY JobsMove
<1>2. DOMAIN residents \subseteq DOMAIN residents'
  BY RegistryEffect
<1>3. Stored \subseteq Stored'
  BY <1>1 DEF JobStep, Stored
<1>4. ASSUME NEW j \in Stored' PROVE Passing(jobs'[j].rows, residents')
  <2>1. j \in Jobs /\ jobs'[j] \in Job
    BY <1>4 DEF Stored
  <2>2. CASE jobs'[j] = jobs[j]
    BY <2>1, <2>2, <1>2, PassingGrows DEF TInv, Stored
  <2>3. CASE jobs'[j].rows = <<>>
    BY <2>3 DEF Passing, Apart, Importable
  <2>4. CASE j \in Stored /\ jobs'[j].rows = jobs[j].rows
    BY <2>4, <1>2, PassingGrows DEF TInv
  <2>5. CASE Passing(jobs'[j].rows, residents)
    BY <2>5, <1>2, PassingGrows
  <2>6. QED  BY <1>1, <2>1, <2>2, <2>3, <2>4, <2>5 DEF JobStep
<1>5. QED  BY <1>1, <1>3, <1>4 DEF JobStep, TInv, ImportsOK

-----------------------------------------------------------------------------
(* What a step does to the calls.                                          *)

LEMMA SoundStays ==
    ASSUME NEW x, Sound(x), DOMAIN residents \subseteq DOMAIN residents', Stored \subseteq Stored'
    PROVE  Sound(x)'
BY DEF Sound

LEMMA IdleIsSound == Sound(Idle)
BY DEF Sound, Idle

\* A request of the registry begins.
LEMMA RequestIsSound ==
    ASSUME TInv, NEW c \in Calls, RegistryRequest(c)
    PROVE  \E x : Begin(c, x) /\ Sound(x)
                  /\ x.op \in {"create", "update", "assign"}
<1>1. RegistryOK
  BY DEF TInv, ImportsOK
<1>2. ASSUME NEW h \in Houses, CreateResident(c, h)
      PROVE  \E x : Begin(c, x) /\ Sound(x) /\ x.op \in {"create", "update", "assign"}
  <2>1. PICK resident \in Resident, serial \in Serials \cup {None} :
          Begin(c, [op |-> "create", house |-> h, resident |-> resident, serial |-> serial])
    BY <1>2 DEF CreateResident
  <2>2. PICK x : x = [op |-> "create", house |-> h, resident |-> resident, serial |-> serial]
    OBVIOUS
  <2>3. Sound(x)
    BY <2>2 DEF Sound
  <2>4. QED  BY <2>1, <2>2, <2>3
<1>3. ASSUME NEW h \in DOMAIN residents, UpdateResident(c, h)
      PROVE  \E x : Begin(c, x) /\ Sound(x) /\ x.op \in {"create", "update", "assign"}
  <2>1. PICK mobile \in Mobiles, email \in Emails \cup {None} :
          Begin(c, [op |-> "update", house |-> h, seen |-> residents[h],
                    mobile |-> mobile, email |-> email])
    BY <1>3 DEF UpdateResident
  <2>2. PICK x : x = [op |-> "update", house |-> h, seen |-> residents[h],
                      mobile |-> mobile, email |-> email]
    OBVIOUS
  <2>3. Sound(x)
    BY <2>2, <1>1 DEF Sound, RegistryOK
  <2>4. QED  BY <2>1, <2>2, <2>3
<1>4. ASSUME NEW h \in DOMAIN residents, UpdateOwnEmail(c, h)
      PROVE  \E x : Begin(c, x) /\ Sound(x) /\ x.op \in {"create", "update", "assign"}
  <2>1. PICK email \in Emails \cup {None} :
          Begin(c, [op |-> "update", house |-> h, seen |-> residents[h],
                    mobile |-> residents[h].mobile, email |-> email])
    BY <1>4 DEF UpdateOwnEmail
  <2>2. PICK x : x = [op |-> "update", house |-> h, seen |-> residents[h],
                      mobile |-> residents[h].mobile, email |-> email]
    OBVIOUS
  <2>3. residents[h] \in Resident /\ residents[h].mobile \in Mobiles
    BY <1>1 DEF RegistryOK, Resident
  <2>4. Sound(x)
    BY <2>2, <2>3 DEF Sound
  <2>5. QED  BY <2>1, <2>2, <2>4
<1>5. ASSUME NEW h \in DOMAIN residents, AssignMeter(c, h)
      PROVE  \E x : Begin(c, x) /\ Sound(x) /\ x.op \in {"create", "update", "assign"}
  <2>1. PICK s \in Serials : Begin(c, [op |-> "assign", serial |-> s, house |-> h])
    BY <1>5 DEF AssignMeter
  <2>2. PICK x : x = [op |-> "assign", serial |-> s, house |-> h]
    OBVIOUS
  <2>3. Sound(x)
    BY <2>2 DEF Sound
  <2>4. QED  BY <2>1, <2>2, <2>3
<1>6. QED  BY <1>2, <1>3, <1>4, <1>5 DEF RegistryRequest

\* A request on a job is sent.
LEMMA SendIsSound ==
    ASSUME TInv, NEW c \in Calls, NEW j \in Jobs,
           NEW op \in {"map", "validate", "confirm"}, Send(c, j, op)
    PROVE  \E x : Begin(c, x) /\ Sound(x) /\ x.op = op
<1>1. PICK x : x = [op |-> op, job |-> j]
  OBVIOUS
<1>2. Begin(c, x)
  BY <1>1 DEF Send
<1>3. j \in Stored
  BY DEF Send, TInv, ImportsOK, Stored
<1>4. Sound(x)
  BY <1>1, <1>3 DEF Sound
<1>5. QED  BY <1>1, <1>2, <1>4

\* A handler has loaded its job.
LEMMA LoadIsSound ==
    ASSUME TInv, NEW c \in Calls, LoadJob(c), NEW j, j = call[c].job
    PROVE  /\ j \in Stored
           /\ \E x :
                /\ Become(c, x) /\ Sound(x)
                /\ \/ x = Idle
                   \/ /\ x.op = "mapping" /\ call[c].op = "map"
                      /\ x.job = j /\ x.seen = Columns(jobs[j])
                   \/ /\ x.op = "validating" /\ call[c].op = "validate"
                      /\ x.job = j /\ x.seen = Columns(jobs[j])
                   \/ /\ x.op = "confirming" /\ call[c].op = "confirm"
                      /\ x.job = j /\ x.rows = jobs[j].rows
                      /\ jobs[j].status = "validated"
                      /\ x.residents = residents /\ x.meters = meters
<1>1. j \in Stored
  BY DEF TInv, Sound, LoadJob
<1>2. Columns(jobs[j]) \in JobColumns
  BY <1>1, JobFields
<1>3. ASSUME NEW mapping \in {"required", "all"}, call[c].op = "map",
             Become(c, [op |-> "mapping", job |-> j, seen |-> Columns(jobs[j]),
                        mapping |-> mapping])
      PROVE  \E x : /\ Become(c, x) /\ Sound(x)
                    /\ x.op = "mapping" /\ x.job = j /\ x.seen = Columns(jobs[j])
  <2>1. PICK x : x = [op |-> "mapping", job |-> j, seen |-> Columns(jobs[j]),
                      mapping |-> mapping]
    OBVIOUS
  <2>2. Sound(x)
    BY <2>1, <1>1, <1>2 DEF Sound
  <2>3. QED  BY <1>3, <2>1, <2>2
<1>4. ASSUME Columns(jobs[j]).mapping # "none",
             Become(c, [op |-> "validating", job |-> j, seen |-> Columns(jobs[j])])
      PROVE  \E x : /\ Become(c, x) /\ Sound(x)
                    /\ x.op = "validating" /\ x.job = j /\ x.seen = Columns(jobs[j])
  <2>1. PICK x : x = [op |-> "validating", job |-> j, seen |-> Columns(jobs[j])]
    OBVIOUS
  <2>2. Sound(x)
    BY <2>1, <1>1, <1>2, <1>4 DEF Sound
  <2>3. QED  BY <1>4, <2>1, <2>2
<1>5. ASSUME Become(c, [op |-> "confirming", job |-> j, rows |-> jobs[j].rows,
                        residents |-> residents, meters |-> meters])
      PROVE  \E x : /\ Become(c, x) /\ Sound(x)
                    /\ x.op = "confirming" /\ x.job = j /\ x.rows = jobs[j].rows
                    /\ x.residents = residents /\ x.meters = meters
  <2>1. PICK x : x = [op |-> "confirming", job |-> j, rows |-> jobs[j].rows,
                      residents |-> residents, meters |-> meters]
    OBVIOUS
  <2>2. Sound(x)
    BY <2>1, <1>1 DEF Sound, TInv, ImportsOK, RegistryOK
  <2>3. QED  BY <1>5, <2>1, <2>2
<1>6. QED
  BY <1>1, <1>3, <1>4, <1>5, IdleIsSound DEF LoadJob, Columns

LEMMA CleanUpIsSound ==
    ASSUME NEW c \in Calls, CleanUp(c)
    PROVE  \E x : /\ Begin(c, x) /\ Sound(x) /\ x.op = "clean"
                  /\ \A j \in x.jobs : jobs[j].status = "confirmed"
<1>1. PICK old \in SUBSET Jobs :
        /\ \A j \in old : jobs[j].status \in TerminalStatuses
        /\ Begin(c, [op |-> "clean", jobs |-> old])
  BY DEF CleanUp
<1>2. PICK x : x = [op |-> "clean", jobs |-> old]
  OBVIOUS
<1>3. QED  BY <1>1, <1>2 DEF Sound, TerminalStatuses

LEMMA RemovalIsSound ==
    ASSUME TInv, NEW c \in Calls, RemoveFiles(c)
    PROVE  /\ \E x : /\ Become(c, x) /\ Sound(x)
                     /\ x = Idle \/ (x.op = "clean" /\ x.jobs \subseteq call[c].jobs)
           /\ \E j \in call[c].jobs : files' = files \ {j}
           /\ call[c].op = "clean"
<1>1. PICK j \in call[c].jobs :
        /\ files' = files \ {j}
        /\ Become(c, IF call[c].jobs = {j} THEN Idle ELSE [call[c] EXCEPT !.jobs = @ \ {j}])
  BY DEF RemoveFiles
<1>2. call[c].op = "clean" /\ call[c].jobs \subseteq Jobs
  BY DEF RemoveFiles, TInv, Sound
<1>3. CASE call[c].jobs = {j}
  BY <1>1, <1>2, <1>3, IdleIsSound
<1>4. CASE call[c].jobs # {j}
  <2>1. PICK x : x = [call[c] EXCEPT !.jobs = @ \ {j}]
    OBVIOUS
  <2>2. x.op = "clean" /\ (x.jobs = call[c].jobs \ {j} \/ x.jobs = call[c].jobs)
    BY <2>1, <1>2
  <2>3. Sound(x)
    BY <2>2, <1>2 DEF Sound
  <2>4. QED  BY <1>1, <1>2, <1>4, <2>1, <2>2, <2>3
<1>5. QED  BY <1>3, <1>4

LEMMA CallsMove ==
    ASSUME TInv, [Next]_vars
    PROVE  \/ call' = call
           \/ \E c \in Calls : \E x : Become(c, x) /\ Sound(x)
<1>1. ASSUME NEW c \in Calls, RegistryStep(c) \/ ConfirmMapping(c) \/ ValidateImport(c)
                              \/ ConfirmImport(c)
      PROVE  Become(c, Idle)
  BY <1>1 DEF RegistryStep, StoreResident, StoreUpdate, StoreMeter, Commit, ConfirmMapping,
     ValidateImport, ConfirmImport
<1>2. ASSUME NEW c \in Calls, NEW j \in Jobs, UploadImport(c, j) PROVE Become(c, Idle)
  BY <1>2 DEF UploadImport, Begin
<1>3. ASSUME NEW c \in Calls, RegistryRequest(c) \/ CleanUp(c)
      PROVE  \E x : Become(c, x) /\ Sound(x)
  BY <1>3, RequestIsSound, CleanUpIsSound DEF Begin
<1>4. ASSUME NEW c \in Calls, NEW j \in Jobs,
             SendMapping(c, j) \/ SendValidation(c, j) \/ SendConfirmation(c, j)
      PROVE  \E x : Become(c, x) /\ Sound(x)
  <2>1. \E op \in {"map", "validate", "confirm"} : Send(c, j, op)
    BY <1>4 DEF SendMapping, SendValidation, SendConfirmation
  <2>2. QED  BY <2>1, SendIsSound DEF Begin
<1>5. ASSUME NEW c \in Calls, LoadJob(c) PROVE \E x : Become(c, x) /\ Sound(x)
  <2>1. PICK j : j = call[c].job
    OBVIOUS
  <2>2. QED  BY <1>5, <2>1, LoadIsSound
<1>6. ASSUME NEW c \in Calls, RemoveFiles(c) PROVE \E x : Become(c, x) /\ Sound(x)
  BY <1>6, RemovalIsSound
<1>7. CASE UNCHANGED vars
  BY <1>7 DEF vars
<1>8. QED  BY <1>1, <1>2, <1>3, <1>4, <1>5, <1>6, <1>7, IdleIsSound DEF Next

\* Whether calls have overlapped is only ever added to, when a call begins.
LEMMA MingledEffect ==
    ASSUME mingled \in BOOLEAN, [Next]_vars
    PROVE  mingled' \in BOOLEAN /\ (~mingled' => ~mingled)
<1>1. CASE mingled' = mingled
  BY <1>1
<1>2. ASSUME NEW c \in Calls, NEW x, Begin(c, x)
      PROVE  mingled' \in BOOLEAN /\ (~mingled' => ~mingled)
  BY <1>2 DEF Begin
<1>3. ASSUME NEW c \in Calls,
             RegistryStep(c) \/ ConfirmMapping(c) \/ ValidateImport(c)
             \/ ConfirmImport(c) \/ LoadJob(c) \/ RemoveFiles(c)
      PROVE  mingled' = mingled
  BY <1>3 DEF RegistryStep, StoreResident, StoreUpdate, StoreMeter, Commit, ConfirmMapping,
     ValidateImport, ConfirmImport, LoadJob, RemoveFiles, KeepRegistry
<1>4. ASSUME NEW c \in Calls, RegistryRequest(c) \/ CleanUp(c) PROVE \E x : Begin(c, x)
  BY <1>4 DEF RegistryRequest, CreateResident, UpdateResident, UpdateOwnEmail, AssignMeter, CleanUp
<1>5. ASSUME NEW c \in Calls, NEW j \in Jobs,
             UploadImport(c, j) \/ SendMapping(c, j) \/ SendValidation(c, j)
             \/ SendConfirmation(c, j)
      PROVE  \E x : Begin(c, x)
  BY <1>5 DEF UploadImport, SendMapping, SendValidation, SendConfirmation, Send
<1>6. CASE UNCHANGED vars
  BY <1>6 DEF vars
<1>7. QED  BY <1>1, <1>2, <1>3, <1>4, <1>5, <1>6 DEF Next

LEMMA TypesHold ==
    ASSUME TInv, [Next]_vars
    PROVE  TInv'
<1>1. RegistryOK' /\ DOMAIN residents \subseteq DOMAIN residents'
  BY RegistryEffect
<1>2. /\ \A j \in Jobs : jobs'[j] = NoJob \/ jobs'[j] \in Job
      /\ files' \subseteq Jobs
      /\ jobs' = [j \in Jobs |-> jobs'[j]]
      /\ Stored \subseteq Stored'
      /\ \A j \in Stored' : Passing(jobs'[j].rows, residents')
  BY JobsEffect
<1>3. call = [c \in Calls |-> call[c]] /\ \A c \in Calls : Sound(call[c])
  BY DEF TInv, Shapes
<1>4. call' = [c \in Calls |-> call'[c]] /\ \A c \in Calls : Sound(call'[c])
  <2>1. CASE call' = call
    BY <2>1, <1>3
  <2>2. ASSUME NEW c \in Calls, NEW x, Become(c, x), Sound(x)
        PROVE  call' = [o \in Calls |-> call'[o]] /\ \A o \in Calls : Sound(call'[o])
    <3>1. call' = [o \in Calls |-> IF o = c THEN x ELSE call[o]]
      BY <2>2, <1>3 DEF Become
    <3>2. QED  BY <3>1, <2>2, <1>3
  <2>3. QED  BY <2>1, <2>2, CallsMove
<1>5. ASSUME NEW c \in Calls PROVE Sound(call[c])'
  <2>1. PICK x : x = call'[c]
    OBVIOUS
  <2>2. Sound(x)
    BY <2>1, <1>4
  <2>3. Sound(x)'
    BY <2>2, <1>1, <1>2, SoundStays
  <2>4. QED  BY <2>1, <2>3 DEF Sound
<1>6. mingled' \in BOOLEAN
  BY MingledEffect DEF TInv, Shapes
<1>7. QED  BY <1>1, <1>2, <1>4, <1>5, <1>6 DEF TInv, ImportsOK, Shapes

LEMMA TypesBegin ==
    ASSUME Init
    PROVE  TInv
<1>1. /\ residents = FirstResidents /\ meters = FirstMeters /\ mingled = FALSE
      /\ call = [c \in Calls |-> Idle] /\ jobs = [j \in Jobs |-> NoJob] /\ files = {}
  BY DEF Init, RegistryInit, ImportsInit
<1>2. RegistryOK
  BY <1>1, RegistryAssumption DEF RegistryOK
<1>3. ImportsOK
  BY <1>1, <1>2 DEF ImportsOK
<1>4. Shapes
  BY <1>1 DEF Shapes
<1>5. Stored = {}
  BY <1>1 DEF Stored, NoJob, Job, Statuses
<1>6. \A c \in Calls : Sound(call[c])
  BY <1>1, IdleIsSound
<1>7. QED  BY <1>3, <1>4, <1>5, <1>6 DEF TInv

\* What the tables hold is of its type and what every handler has in hand is sound,
\* however many requests run at once (TypeOK of ImportProperties): the registry's unique
\* columns are unique, a meter is assigned to a resident, an importable row is complete
\* and a job's counts are natural numbers.
THEOREM RegistryAndJobTypes == Spec => []TypeOK
<1>1. TInv => TypeOK
  BY DEF TInv, TypeOK
<1>2. Spec => []TInv
  <2>1. Init => TInv
    BY TypesBegin
  <2>2. TInv /\ [Next]_vars => TInv'
    BY TypesHold
  <2>3. QED  BY <2>1, <2>2, PTL DEF Spec
<1>3. QED  BY <1>1, <1>2, PTL

-----------------------------------------------------------------------------
(* One call at a time.                                                     *)

\* What call c may do next.
Acts(c) ==
    \/ (RegistryRequest(c) \/ RegistryStep(c)) /\ UNCHANGED <<jobs, files>>
    \/ \E j \in Jobs :
         \/ UploadImport(c, j) \/ SendMapping(c, j) \/ SendValidation(c, j)
         \/ SendConfirmation(c, j)
    \/ LoadJob(c) \/ ConfirmMapping(c) \/ ValidateImport(c) \/ ConfirmImport(c)
    \/ CleanUp(c) \/ RemoveFiles(c)

LEMMA SomeoneActs ==
    ASSUME [Next]_vars
    PROVE  UNCHANGED vars \/ \E c \in Calls : Acts(c)
BY DEF Next, Acts

\* A call that begins finds nobody else, or calls mingle; and one that goes on is the
\* one that is in flight.
LEMMA OthersAreIdle ==
    ASSUME TInv, Alone, NEW c \in Calls, Acts(c), ~mingled'
    PROVE  /\ \A o \in Calls : o # c => call[o] = Idle
           /\ \E x : Become(c, x)
<1>1. ASSUME NEW x, Begin(c, x)
      PROVE  (\A o \in Calls : o # c => call[o] = Idle) /\ Become(c, x)
  BY <1>1 DEF Begin
<1>2. ASSUME call[c] # Idle, ~mingled
      PROVE  \A o \in Calls : o # c => call[o] = Idle
  BY <1>2 DEF Alone
<1>3. ~mingled
  BY MingledEffect DEF Acts, Next, TInv, Shapes
<1>4. ASSUME RegistryRequest(c) \/ CleanUp(c) PROVE \E x : Begin(c, x)
  BY <1>4, RequestIsSound, CleanUpIsSound
<1>5. ASSUME NEW j \in Jobs,
             UploadImport(c, j) \/ SendMapping(c, j) \/ SendValidation(c, j)
             \/ SendConfirmation(c, j)
      PROVE  \E x : Begin(c, x)
  BY <1>5 DEF UploadImport, SendMapping, SendValidation, SendConfirmation, Send
<1>6. ASSUME RegistryStep(c) \/ ConfirmMapping(c) \/ ValidateImport(c) \/ ConfirmImport(c)
      PROVE  call[c] # Idle /\ Become(c, Idle)
  <2>1. CASE RegistryStep(c)
    BY <2>1 DEF RegistryStep, StoreResident, StoreUpdate, StoreMeter, Commit, Idle
  <2>2. CASE ConfirmMapping(c)
    <3>1. call[c].op = "mapping" /\ Become(c, Idle)
      BY <2>2, Zenon DEF ConfirmMapping
    <3>2. QED  BY <3>1 DEF Idle
  <2>3. CASE ValidateImport(c)
    <3>1. call[c].op = "validating" /\ Become(c, Idle)
      BY <2>3, Zenon DEF ValidateImport
    <3>2. QED  BY <3>1 DEF Idle
  <2>4. CASE ConfirmImport(c)
    <3>1. call[c].op = "confirming" /\ Become(c, Idle)
      BY <2>4, Zenon DEF ConfirmImport, Commit
    <3>2. QED  BY <3>1 DEF Idle
  <2>5. QED  BY <1>6, <2>1, <2>2, <2>3, <2>4
<1>7. ASSUME LoadJob(c) \/ RemoveFiles(c) PROVE call[c] # Idle /\ \E x : Become(c, x)
  <2>1. call[c] # Idle
    BY <1>7 DEF LoadJob, RemoveFiles, Idle
  <2>2. PICK j : j = call[c].job
    OBVIOUS
  <2>3. QED  BY <1>7, <2>1, <2>2, LoadIsSound, RemovalIsSound
<1>8. QED  BY <1>1, <1>2, <1>3, <1>4, <1>5, <1>6, <1>7 DEF Acts

-----------------------------------------------------------------------------
(* A job and its rows.                                                     *)

\* JobsHoldTogether, of one job.
JobHolds(j) ==
    /\ jobs[j].status \in {"uploaded", "validated"} => j \in files
    /\ jobs[j].status \in {"validated", "confirmed"} =>
         /\ Len(jobs[j].rows) = Len(jobs[j].sheet)
         /\ jobs[j].total = Len(jobs[j].rows)
         /\ jobs[j].valid = Cardinality(Importable(jobs[j].rows))
         /\ jobs[j].error = Cardinality(InError(jobs[j].rows))

LEMMA JobStays ==
    ASSUME NEW i, JobHolds(i), jobs'[i] = jobs[i], i \in files => i \in files'
    PROVE  JobHolds(i)'
BY DEF JobHolds, Importable, InError

LEMMA UploadHolds ==
    ASSUME TInv, \A i \in Jobs : JobHolds(i), NEW c \in Calls, NEW j \in Jobs, UploadImport(c, j)
    PROVE  \A i \in Jobs : JobHolds(i)'
<1>1. PICK sheet \in Sheets :
        jobs' = [jobs EXCEPT ![j] = [status |-> "uploaded", sheet |-> sheet,
                   mapping |-> "none", rows |-> <<>>, total |-> 0, valid |-> 0, error |-> 0]]
  BY DEF UploadImport
<1>2. files' = files \cup {j}
  BY DEF UploadImport
<1>3. /\ jobs'[j].status = "uploaded"
      /\ \A i \in Jobs : i # j => jobs'[i] = jobs[i]
  BY <1>1 DEF TInv, Shapes
<1>4. JobHolds(j)'
  BY <1>2, <1>3 DEF JobHolds
<1>5. ASSUME NEW i \in Jobs, i # j PROVE JobHolds(i)'
  BY <1>2, <1>3, <1>5, JobStays
<1>6. QED  BY <1>4, <1>5

LEMMA MappingOutcome ==
    ASSUME TInv, NEW c \in Calls, Fresh(call[c]), ConfirmMapping(c), NEW j, j = call[c].job
    PROVE  /\ j \in Jobs /\ files' = files
           /\ jobs'[j].status = "mapped"
           /\ \A i \in Jobs : i # j => jobs'[i] = jobs[i]
<1> DEFINE seen == Columns(jobs[j])
           new == [seen EXCEPT !.status = "mapped", !.mapping = call[c].mapping]
           job == Written(jobs[j], seen, new)
<1>1. j \in Stored /\ call[c].mapping \in {"required", "all"}
  BY DEF TInv, Sound, ConfirmMapping
<1>2. call[c].seen = seen
  BY DEF Fresh, ConfirmMapping
<1>3. jobs' = [jobs EXCEPT ![j] = job] /\ files' = files
  BY <1>2 DEF ConfirmMapping
<1>4. seen \in JobColumns /\ j \in Jobs /\ jobs[j] \in Job
  BY <1>1, JobFields
<1>5. new \in JobColumns /\ new.status = "mapped"
  BY <1>1, <1>4 DEF JobColumns, Statuses, Mappings
<1> HIDE DEF new
<1>6. job.status = "mapped"
  <2>1. Columns(job) = new
    BY <1>4, <1>5, WrittenFresh
  <2>2. QED  BY <1>5, <2>1 DEF Columns
<1> HIDE DEF job
<1>7. QED  BY <1>3, <1>4, <1>6 DEF TInv, Shapes

LEMMA MappingHolds ==
    ASSUME TInv, \A i \in Jobs : JobHolds(i), NEW c \in Calls, Fresh(call[c]), ConfirmMapping(c)
    PROVE  \A i \in Jobs : JobHolds(i)'
<1>1. PICK j : j = call[c].job
  OBVIOUS
<1>2. /\ j \in Jobs /\ files' = files /\ jobs'[j].status = "mapped"
      /\ \A i \in Jobs : i # j => jobs'[i] = jobs[i]
  BY <1>1, MappingOutcome
<1>3. JobHolds(j)'
  BY <1>2 DEF JobHolds
<1>4. ASSUME NEW i \in Jobs, i # j PROVE JobHolds(i)'
  BY <1>2, <1>4, JobStays
<1>5. QED  BY <1>3, <1>4

\* Without its spreadsheet a job stays as it is, else it has all its verdicts anew.
LEMMA ValidationOutcome ==
    ASSUME TInv, NEW c \in Calls, Fresh(call[c]), ValidateImport(c), NEW j, j = call[c].job
    PROVE  /\ j \in Jobs /\ files' = files
           /\ j \notin files => jobs' = jobs
           /\ \A i \in Jobs : i # j => jobs'[i] = jobs[i]
           /\ j \in files =>
                /\ jobs'[j].status = "validated"
                /\ Len(jobs'[j].rows) = Len(jobs'[j].sheet)
                /\ jobs'[j].total = Len(jobs'[j].rows)
                /\ jobs'[j].valid = Cardinality(Importable(jobs'[j].rows))
                /\ jobs'[j].error = Cardinality(InError(jobs'[j].rows))
<1>1. PICK seen : seen = call[c].seen
  OBVIOUS
<1>2. PICK rows : rows = Verdicts(jobs[j].sheet, seen.mapping)
  OBVIOUS
<1>3. PICK new : new = Validated(seen, rows)
  OBVIOUS
<1>4. PICK written : written = Written(jobs[j], seen, new)
  OBVIOUS
<1>5. PICK job : job = [Written(jobs[j], seen, Validated(seen, rows)) EXCEPT !.rows = rows]
  OBVIOUS
<1>6. seen = Columns(jobs[j])
  BY <1>1 DEF Fresh, ValidateImport
<1>7. /\ j \in Stored /\ seen \in JobColumns /\ rows \in Seq(Verdict)
      /\ Len(rows) = Len(jobs[j].sheet) /\ files' = files
      /\ j \in files => job \in Job /\ jobs' = [i \in Jobs |-> IF i = j THEN job ELSE jobs[i]]
      /\ j \notin files => jobs' = jobs
  BY <1>1, <1>2, <1>5, ValidateImportJob
<1>8. j \in Jobs /\ jobs[j] \in Job
  BY <1>7, JobFields
<1>9. new \in JobColumns
  BY <1>3, <1>7, ValidatedIn
<1>10. /\ written \in Job /\ written.sheet = jobs[j].sheet
       /\ Columns(written) = new
  BY <1>4, <1>6, <1>8, <1>9, WrittenIn, WrittenFresh
<1>11. /\ new.status = "validated" /\ new.total = Len(rows)
       /\ new.valid = Cardinality(Importable(rows))
       /\ new.error = Cardinality(InError(rows))
  <2>1. /\ new.status = "validated" /\ new.total = Len(rows)
        /\ new.valid = Cardinality(Importable(rows))
        /\ new.error = Len(rows) - Cardinality(Importable(rows))
    BY <1>3, <1>7 DEF Validated, JobColumns
  <2>2. QED  BY <2>1, <1>7, Counts
<1>12. /\ job.rows = rows /\ job.sheet = jobs[j].sheet /\ job.status = new.status
       /\ job.total = new.total /\ job.valid = new.valid /\ job.error = new.error
  BY <1>3, <1>4, <1>5, <1>10 DEF Columns, Job
<1>13. CASE j \notin files
  BY <1>7, <1>8, <1>13
<1>14. CASE j \in files
  <2>1. jobs'[j] = job /\ \A i \in Jobs : i # j => jobs'[i] = jobs[i]
    BY <1>7, <1>8, <1>14
  <2>2. QED  BY <1>7, <1>8, <1>11, <1>12, <1>14, <2>1
<1>15. QED  BY <1>13, <1>14

LEMMA ValidationHolds ==
    ASSUME TInv, \A i \in Jobs : JobHolds(i), NEW c \in Calls, Fresh(call[c]), ValidateImport(c)
    PROVE  \A i \in Jobs : JobHolds(i)'
<1>1. PICK j : j = call[c].job
  OBVIOUS
<1>2. j \in Jobs /\ files' = files /\ \A i \in Jobs : i # j => jobs'[i] = jobs[i]
  BY <1>1, ValidationOutcome
<1>3. CASE j \notin files
  <2>1. jobs' = jobs
    BY <1>1, <1>3, ValidationOutcome
  <2>2. QED  BY <1>2, <2>1, JobStays
<1>4. CASE j \in files
  <2>1. JobHolds(j)'
    <3>1. /\ Len(jobs'[j].rows) = Len(jobs'[j].sheet)
          /\ jobs'[j].total = Len(jobs'[j].rows)
          /\ jobs'[j].valid = Cardinality(Importable(jobs'[j].rows))
          /\ jobs'[j].error = Cardinality(InError(jobs'[j].rows))
      BY <1>1, <1>4, ValidationOutcome
    <3>2. QED  BY <1>2, <1>4, <3>1 DEF JobHolds, Importable, InError
  <2>2. ASSUME NEW i \in Jobs, i # j PROVE JobHolds(i)'
    BY <1>2, <2>2, JobStays
  <2>3. QED  BY <2>1, <2>2
<1>5. QED  BY <1>3, <1>4

LEMMA ConfirmationHolds ==
    ASSUME TInv, \A i \in Jobs : JobHolds(i), NEW c \in Calls, Fresh(call[c]), ConfirmImport(c)
    PROVE  \A i \in Jobs : JobHolds(i)'
<1>0. PICK j : j = call[c].job
  OBVIOUS
<1> DEFINE job == [jobs[j] EXCEPT !.status = "confirmed"]
<1>1. j \in Stored
  BY <1>0 DEF TInv, Sound, ConfirmImport
<1>2. j \in Jobs /\ jobs[j] \in Job /\ jobs[j].status = "validated"
  BY <1>0, <1>1, JobFields DEF Fresh, ConfirmImport
<1>3. files' = files /\ (jobs' = jobs \/ jobs' = [jobs EXCEPT ![j] = job])
  BY <1>0 DEF ConfirmImport
<1>4. /\ job.status = "confirmed" /\ job.rows = jobs[j].rows /\ job.sheet = jobs[j].sheet
      /\ job.total = jobs[j].total /\ job.valid = jobs[j].valid /\ job.error = jobs[j].error
  BY <1>2 DEF Job
<1> HIDE DEF job
<1>5. CASE jobs' = jobs
  BY <1>3, <1>5, JobStays
<1>6. CASE jobs' = [jobs EXCEPT ![j] = job]
  <2>1. jobs'[j] = job /\ \A i \in Jobs : i # j => jobs'[i] = jobs[i]
    BY <1>2, <1>6 DEF TInv, Shapes
  <2>2. JobHolds(j)'
    <3>1. JobHolds(j)
      BY <1>2
    <3>2. QED  BY <1>2, <1>3, <1>4, <2>1, <3>1 DEF JobHolds, Importable, InError
  <2>3. ASSUME NEW i \in Jobs, i # j PROVE JobHolds(i)'
    BY <1>3, <2>1, <2>3, JobStays
  <2>4. QED  BY <2>2, <2>3
<1>7. QED  BY <1>3, <1>5, <1>6

LEMMA RemovalHolds ==
    ASSUME TInv, \A i \in Jobs : JobHolds(i), NEW c \in Calls, Fresh(call[c]), RemoveFiles(c)
    PROVE  \A i \in Jobs : JobHolds(i)'
<1>1. call[c].op = "clean" /\ jobs' = jobs
  BY DEF RemoveFiles
<1>2. PICK j \in call[c].jobs : files' = files \ {j}
  BY RemovalIsSound
<1>3. jobs[j].status = "confirmed"
  BY <1>1 DEF Fresh
<1>4. QED  BY <1>1, <1>2, <1>3 DEF JobHolds, Importable, InError

LEMMA StepHolds ==
    ASSUME TInv, \A i \in Jobs : JobHolds(i), NEW c \in Calls, Fresh(call[c]), Acts(c)
    PROVE  \A i \in Jobs : JobHolds(i)'
<1>1. CASE UNCHANGED <<jobs, files>>
  BY <1>1, JobStays
<1>2. ASSUME NEW j \in Jobs,
             SendMapping(c, j) \/ SendValidation(c, j) \/ SendConfirmation(c, j)
      PROVE  UNCHANGED <<jobs, files>>
  BY <1>2 DEF SendMapping, SendValidation, SendConfirmation, Send
<1>3. ASSUME LoadJob(c) \/ CleanUp(c) PROVE UNCHANGED <<jobs, files>>
  BY <1>3 DEF LoadJob, CleanUp
<1>4. QED
  BY <1>1, <1>2, <1>3, UploadHolds, MappingHolds, ValidationHolds,
     ConfirmationHolds, RemovalHolds DEF Acts

-----------------------------------------------------------------------------
(* What the handler has in hand stays fresh, since nobody else moves.      *)

LEMMA FreshStays ==
    ASSUME NEW x, x = Idle \/ (Fresh(x) /\ UNCHANGED <<residents, meters, jobs>>)
    PROVE  Fresh(x)'
BY DEF Fresh, Idle, Columns

LEMMA StepIsFresh ==
    ASSUME TInv, NEW c \in Calls, Fresh(call[c]), Acts(c)
    PROVE  \E x : /\ Become(c, x)
                  /\ x = Idle \/ (Fresh(x) /\ UNCHANGED <<residents, meters, jobs>>)
<1> DEFINE Good(x) ==
             Become(c, x) /\ (x = Idle \/ (Fresh(x) /\ UNCHANGED <<residents, meters, jobs>>))
<1>1. ASSUME RegistryRequest(c), UNCHANGED <<jobs, files>> PROVE \E x : Good(x)
  <2>1. PICK x : Begin(c, x) /\ x.op \in {"create", "update", "assign"}
    BY <1>1, RequestIsSound
  <2>2. QED  BY <1>1, <2>1 DEF Begin, Fresh
<1>2. ASSUME RegistryStep(c) \/ ConfirmMapping(c) \/ ValidateImport(c) \/ ConfirmImport(c)
      PROVE  \E x : Good(x)
  <2>1. Become(c, Idle)
    BY <1>2 DEF RegistryStep, StoreResident, StoreUpdate, StoreMeter, Commit, ConfirmMapping,
       ValidateImport, ConfirmImport
  <2>2. QED  BY <2>1
<1>3. ASSUME NEW j \in Jobs, UploadImport(c, j) PROVE \E x : Good(x)
  BY <1>3 DEF UploadImport, Begin
<1>4. ASSUME NEW j \in Jobs,
             SendMapping(c, j) \/ SendValidation(c, j) \/ SendConfirmation(c, j)
      PROVE  \E x : Good(x)
  <2>1. PICK op \in {"map", "validate", "confirm"} : Send(c, j, op)
    BY <1>4 DEF SendMapping, SendValidation, SendConfirmation
  <2>2. PICK x : Begin(c, x) /\ x.op = op
    BY <2>1, SendIsSound
  <2>3. Fresh(x)
    BY <2>2 DEF Fresh
  <2>4. UNCHANGED <<residents, meters, jobs>>
    BY <2>1 DEF Send, Begin
  <2>5. QED  BY <2>2, <2>3, <2>4 DEF Begin
<1>5. ASSUME LoadJob(c) PROVE \E x : Good(x)
  <2>1. PICK j : j = call[c].job
    OBVIOUS
  <2>2. PICK x :
          /\ Become(c, x)
          /\ \/ x = Idle
             \/ /\ x.op = "mapping" /\ call[c].op = "map"
                /\ x.job = j /\ x.seen = Columns(jobs[j])
             \/ /\ x.op = "validating" /\ call[c].op = "validate"
                /\ x.job = j /\ x.seen = Columns(jobs[j])
             \/ /\ x.op = "confirming" /\ call[c].op = "confirm"
                /\ x.job = j /\ x.rows = jobs[j].rows
                /\ jobs[j].status = "validated"
                /\ x.residents = residents /\ x.meters = meters
    BY <1>5, <2>1, LoadIsSound
  <2>3. x # Idle => Fresh(x)
    BY <2>1, <2>2 DEF Fresh
  <2>4. UNCHANGED <<residents, meters, jobs>>
    BY <1>5 DEF LoadJob, KeepRegistry
  <2>5. QED  BY <2>2, <2>3, <2>4
<1>6. ASSUME CleanUp(c) PROVE \E x : Good(x)
  <2>1. PICK x : Begin(c, x) /\ x.op = "clean" /\ \A j \in x.jobs : jobs[j].status = "confirmed"
    BY <1>6, CleanUpIsSound
  <2>2. Fresh(x)
    BY <2>1 DEF Fresh
  <2>3. UNCHANGED <<residents, meters, jobs>>
    BY <1>6 DEF CleanUp, Begin
  <2>4. QED  BY <2>1, <2>2, <2>3 DEF Begin
<1>7. ASSUME RemoveFiles(c) PROVE \E x : Good(x)
  <2>1. PICK x : Become(c, x) /\ (x = Idle \/ (x.op = "clean" /\ x.jobs \subseteq call[c].jobs))
    BY <1>7, RemovalIsSound
  <2>2. x # Idle => Fresh(x)
    BY <1>7, <2>1 DEF Fresh, RemoveFiles
  <2>3. UNCHANGED <<residents, meters, jobs>>
    BY <1>7 DEF RemoveFiles, KeepRegistry
  <2>4. QED  BY <2>1, <2>2, <2>3
<1> HIDE DEF Good
<1>8. \E x : Good(x)
  BY <1>1, <1>2, <1>3, <1>4, <1>5, <1>6, <1>7 DEF Acts
<1>9. QED  BY <1>8 DEF Good

LEMMA InvariantHolds ==
    ASSUME IInv, [Next]_vars
    PROVE  IInv'
<1>1. TInv /\ TInv'
  BY TypesHold DEF IInv
<1>2. CASE mingled'
  BY <1>1, <1>2 DEF IInv, Alone, JobsHoldTogether
<1>3. CASE ~mingled' /\ UNCHANGED vars
  <2>1. \A i \in Jobs : JobHolds(i)
    BY <1>3 DEF IInv, JobsHoldTogether, JobHolds, vars
  <2>2. \A i \in Jobs : JobHolds(i)'
    BY <1>3, <2>1, JobStays DEF vars
  <2>3. Alone' /\ \A c \in Calls : Fresh(call[c])'
    BY <1>3 DEF IInv, Alone, Fresh, vars, Columns
  <2>4. QED  BY <1>1, <2>2, <2>3 DEF IInv, JobsHoldTogether, JobHolds
<1>4. ASSUME ~mingled', NEW c \in Calls, Acts(c) PROVE IInv'
  <2>1. ~mingled
    <3>1. mingled \in BOOLEAN
      BY <1>1 DEF TInv, Shapes
    <3>2. QED  BY <3>1, <1>4, MingledEffect
  <2>2. Alone /\ (\A o \in Calls : Fresh(call[o])) /\ \A i \in Jobs : JobHolds(i)
    BY <2>1 DEF IInv, JobsHoldTogether, JobHolds
  <2>3. \A o \in Calls : o # c => call[o] = Idle
    BY <1>1, <1>4, <2>2, OthersAreIdle
  <2>4. PICK x : /\ Become(c, x)
                 /\ x = Idle \/ (Fresh(x) /\ UNCHANGED <<residents, meters, jobs>>)
    BY <1>1, <1>4, <2>2, StepIsFresh
  <2>5. call'[c] = x /\ \A o \in Calls : o # c => call'[o] = Idle
    BY <1>1, <2>3, <2>4 DEF Become, TInv, Shapes
  <2>6. Alone'
    BY <2>5 DEF Alone
  <2>7. ASSUME NEW o \in Calls PROVE Fresh(call[o])'
    <3>1. PICK y : y = call'[o]
      OBVIOUS
    <3>2. Fresh(y)'
      BY <3>1, <2>4, <2>5, FreshStays
    <3>3. QED  BY <3>1, <3>2 DEF Fresh, Columns
  <2>8. \A i \in Jobs : JobHolds(i)'
    BY <1>1, <1>4, <2>2, StepHolds
  <2>9. QED  BY <1>1, <2>6, <2>7, <2>8 DEF IInv, JobsHoldTogether, JobHolds
<1>5. QED  BY <1>2, <1>3, <1>4, SomeoneActs

\* The invariant of the wizard: types, at most one call in flight while calls have never
\* overlapped, what it has in hand is what the tables say, and jobs hold together.
THEOREM WizardInvariant == Spec => []IInv
<1>1. Init => IInv
  <2>1. ASSUME Init PROVE IInv
    <3>1. TInv
      BY <2>1, TypesBegin
    <3>2. call = [c \in Calls |-> Idle] /\ jobs = [j \in Jobs |-> NoJob]
      BY <2>1 DEF Init, RegistryInit, ImportsInit
    <3>3. Alone /\ \A c \in Calls : Fresh(call[c])
      BY <3>2 DEF Alone, Fresh, Idle
    <3>4. JobsHoldTogether
      BY <3>2 DEF JobsHoldTogether, NoJob
    <3>5. QED  BY <3>1, <3>3, <3>4 DEF IInv
  <2>2. QED  BY <2>1
<1>2. IInv /\ [Next]_vars => IInv'
  BY InvariantHolds
<1>3. QED  BY <1>1, <1>2, PTL DEF Spec

\* A job that is uploaded or validated has its spreadsheet, and one that was validated a
\* verdict on every row and the counts of those, in whatever order and however often its
\* steps were asked for before.
THEOREM JobsAreWhole == Spec => []JobsHoldTogether
<1>1. IInv => JobsHoldTogether
  BY DEF IInv
<1>2. QED  BY <1>1, WizardInvariant, PTL

-----------------------------------------------------------------------------
(* What a confirmation does, and when one fails.                           *)

LEMMA OnlyConfirmation ==
    ASSUME TInv, NEW c \in Calls, Fresh(call[c]), Acts(c), NEW j \in Jobs,
           jobs[j].status = "validated", jobs'[j].status = "confirmed"
    PROVE  ConfirmImport(c) /\ call[c].job = j
<1>1. jobs'[j] # jobs[j] /\ jobs # jobs'
  OBVIOUS
<1>2. ASSUME NEW k \in Jobs, UploadImport(c, k) PROVE FALSE
  <2>1. jobs[k].status # "validated" /\ \A i \in Jobs : i # k => jobs'[i] = jobs[i]
    BY <1>2 DEF UploadImport, NoJob, TInv, Shapes
  <2>2. QED  BY <1>1, <2>1
<1>3. ASSUME ConfirmMapping(c) PROVE FALSE
  <2>1. PICK k : k = call[c].job
    OBVIOUS
  <2>2. jobs'[k].status = "mapped" /\ \A i \in Jobs : i # k => jobs'[i] = jobs[i]
    BY <1>3, <2>1, MappingOutcome
  <2>3. QED  BY <1>1, <2>2
<1>4. ASSUME ValidateImport(c) PROVE FALSE
  <2>1. PICK k : k = call[c].job
    OBVIOUS
  <2>2. k \in files /\ \A i \in Jobs : i # k => jobs'[i] = jobs[i]
    BY <1>1, <1>4, <2>1, ValidationOutcome
  <2>3. jobs'[k].status = "validated"
    BY <1>4, <2>1, <2>2, ValidationOutcome
  <2>4. QED  BY <1>1, <2>2, <2>3
<1>5. ASSUME ConfirmImport(c) PROVE call[c].job = j
  <2>1. PICK k : k = call[c].job
    OBVIOUS
  <2>2. \A i \in Jobs : i # k => jobs'[i] = jobs[i]
    BY <1>5, <2>1 DEF ConfirmImport, TInv, Shapes
  <2>3. QED  BY <1>1, <2>1, <2>2
<1>6. ASSUME NEW k \in Jobs,
             SendMapping(c, k) \/ SendValidation(c, k) \/ SendConfirmation(c, k)
      PROVE  FALSE
  BY <1>1, <1>6 DEF SendMapping, SendValidation, SendConfirmation, Send
<1>7. ASSUME LoadJob(c) \/ CleanUp(c) \/ RemoveFiles(c) PROVE FALSE
  BY <1>1, <1>7 DEF LoadJob, CleanUp, RemoveFiles
<1>8. QED  BY <1>1, <1>2, <1>3, <1>4, <1>5, <1>6, <1>7 DEF Acts

\* What the rows of a confirmed import have become in the two tables.
LEMMA ConfirmedRows ==
    ASSUME TInv, NEW c \in Calls, Fresh(call[c]), ConfirmImport(c), jobs' # jobs,
           NEW rows, rows = jobs[call[c].job].rows
    PROVE  /\ \A i \in Importable(rows) :
                LET row == rows[i].row
                IN  /\ row.house \in DOMAIN residents'
                    /\ residents'[row.house].mobile = row.mobile
                    /\ row.email # None => residents'[row.house].email = row.email
                    /\ row.serial \in DOMAIN meters'
           /\ \A h \in DOMAIN residents' \ DOMAIN residents :
                \E i \in Importable(rows) : rows[i].row.house = h
<1>1. /\ Passing(rows, residents) /\ call[c].rows = rows
      /\ call[c].residents = residents /\ call[c].meters = meters
  BY DEF ConfirmImport, TInv, Sound, Fresh
<1>2. PICK last, new :
        /\ last = After(rows, residents, Len(rows)) /\ new = NewMeters(rows, meters)
  OBVIOUS
<1>3. residents' = last /\ meters' = WithMeters(rows, new)
  BY <1>1, <1>2 DEF ConfirmImport, Commit, KeepsAll
<1>4. WrittenBy(last, rows, residents, Len(rows))
  <2>1. Len(rows) \in 0..Len(rows)
    BY <1>1 DEF Passing
  <2>2. QED  BY <1>1, <1>2, <2>1, AfterRows
<1>5. Done(rows, Len(rows)) = Importable(rows)
  BY <1>1 DEF Done, Importable, Passing
<1>6. ASSUME NEW i \in Importable(rows) PROVE rows[i].row.serial \in DOMAIN meters'
  <2>1. rows[i].row.serial \in DOMAIN WithMeters(rows, new)
    BY <1>2 DEF WithMeters, NewMeters
  <2>2. QED  BY <1>3, <2>1
<1>7. ASSUME NEW i \in Importable(rows)
      PROVE  /\ rows[i].row.house \in DOMAIN residents'
             /\ residents'[rows[i].row.house].mobile = rows[i].row.mobile
             /\ rows[i].row.email # None =>
                  residents'[rows[i].row.house].email = rows[i].row.email
             /\ rows[i].row.serial \in DOMAIN meters'
  <2>1. /\ rows[i].row.house \in DOMAIN last
        /\ last[rows[i].row.house] = NewRow(rows[i], residents)
    BY <1>4, <1>5 DEF WrittenBy
  <2>2. /\ NewRow(rows[i], residents).mobile = rows[i].row.mobile
        /\ rows[i].row.email # None => NewRow(rows[i], residents).email = rows[i].row.email
    BY DEF NewRow, Rewritten, Column, MailOf
  <2>3. rows[i].row.serial \in DOMAIN meters'
    BY <1>6
  <2>4. QED  BY <1>3, <2>1, <2>2, <2>3
<1>8. ASSUME NEW h \in DOMAIN residents' \ DOMAIN residents
      PROVE  \E i \in Importable(rows) : rows[i].row.house = h
  BY <1>3, <1>4, <1>5 DEF WrittenBy
<1>9. QED  BY <1>7, <1>8

\* A job is confirmed together with all its importable rows and no others: their
\* residents are as the rows say, their serial numbers are assigned, and no resident is
\* created that no row names.
THEOREM ConfirmationIsWhole == Spec => ImportIsWhole
<1> DEFINE Whole(j) ==
             /\ \A i \in Importable(jobs[j].rows) :
                  LET row == jobs[j].rows[i].row
                  IN  /\ row.house \in DOMAIN residents'
                      /\ residents'[row.house].mobile = row.mobile
                      /\ row.email # None => residents'[row.house].email = row.email
                      /\ row.serial \in DOMAIN meters'
             /\ \A h \in DOMAIN residents' \ DOMAIN residents :
                  \E i \in Importable(jobs[j].rows) : jobs[j].rows[i].row.house = h
<1>1. ASSUME IInv, [Next]_vars, ~mingled', NEW j \in Jobs,
             jobs[j].status = "validated", jobs'[j].status = "confirmed"
      PROVE  Whole(j)
  <2>1. ~mingled
    BY <1>1, MingledEffect DEF IInv, TInv, Shapes
  <2>2. TInv /\ \A c \in Calls : Fresh(call[c])
    BY <1>1, <2>1 DEF IInv
  <2>3. jobs' # jobs
    BY <1>1
  <2>4. PICK c \in Calls : Acts(c)
    BY <1>1, <2>3, SomeoneActs DEF vars
  <2>5. ConfirmImport(c) /\ call[c].job = j
    BY <1>1, <2>2, <2>4, OnlyConfirmation
  <2>6. QED  BY <2>2, <2>3, <2>5, ConfirmedRows
<1>2. IInv /\ [Next]_vars =>
        [~mingled' => \A j \in Jobs :
           jobs[j].status = "validated" /\ jobs'[j].status = "confirmed" => Whole(j)]_vars
  BY <1>1
<1>3. QED  BY <1>2, WizardInvariant, PTL DEF ImportIsWhole, Spec

LEMMA FreshVerdicts ==
    ASSUME NEW sheet \in Seq(Row), NEW mapping, NEW rows, rows = Verdicts(sheet, mapping),
           NEW i \in Importable(rows)
    PROVE  /\ ~TakenElsewhere(rows[i].row)
           /\ rows[i].status # "warning" => rows[i].row.house \notin DOMAIN residents
<1> DEFINE mapped == Mapped(sheet, mapping)
<1>1. rows = [n \in DOMAIN mapped |-> Judged(mapped, n)]
  BY DEF Verdicts
<1> HIDE DEF mapped
<1>2. rows[i] = Judged(mapped, i) /\ rows[i].status # "error"
  BY <1>1 DEF Importable
<1>3. QED  BY <1>2 DEF Judged

\* Rows whose verdicts are of today clash over nothing but e-mail addresses.
LEMMA OnlyMailClashes ==
    ASSUME RegistryOK, NEW rows, Passing(rows, residents),
           \A i \in Importable(rows) : ~TakenElsewhere(rows[i].row),
           NEW k \in 0..Len(rows), ~Distinct(After(rows, residents, k))
    PROVE  MailClashes(rows)
<1>1. PICK table : table = After(rows, residents, k)
  OBVIOUS
<1>2. WrittenBy(table, rows, residents, k)
  BY <1>1, AfterRows
<1>3. Done(rows, k) \subseteq Importable(rows)
  BY DEF Done
<1>4. ASSUME NEW g \in DOMAIN table
      PROVE  \/ g \in DOMAIN residents /\ table[g].mobile = residents[g].mobile
             \/ \E i \in Importable(rows) :
                  rows[i].row.house = g /\ table[g].mobile = rows[i].row.mobile
  <2>1. ASSUME NEW i \in Done(rows, k), rows[i].row.house = g
        PROVE  table[g].mobile = rows[i].row.mobile
    <3>1. NewRow(rows[i], residents).mobile = rows[i].row.mobile
      BY DEF NewRow, Rewritten, Column
    <3>2. QED  BY <1>2, <2>1, <3>1 DEF WrittenBy
  <2>2. QED  BY <1>2, <1>3, <2>1 DEF WrittenBy
<1>5. ASSUME NEW g \in DOMAIN table, table[g].email # None
      PROVE  \/ g \in DOMAIN residents /\ table[g].email = residents[g].email
             \/ \E i \in Importable(rows) :
                  rows[i].row.house = g /\ table[g].email = rows[i].row.email
  <2>1. ASSUME NEW i \in Done(rows, k), rows[i].row.house = g
        PROVE  \/ g \in DOMAIN residents /\ table[g].email = residents[g].email
               \/ table[g].email = rows[i].row.email
    <3>1. table[g] = NewRow(rows[i], residents)
      BY <1>2, <2>1 DEF WrittenBy
    <3>2. CASE rows[i].status = "warning"
      <4>1. g \in DOMAIN residents
        BY <1>3, <2>1, <3>2 DEF Passing
      <4>2. table[g].email = Column(residents[g].email, MailOf(rows[i].row, residents[g].email),
                                    residents[g].email)
        BY <2>1, <3>1, <3>2 DEF NewRow, Rewritten
      <4>3. QED  BY <4>1, <4>2 DEF Column, MailOf
    <3>3. CASE rows[i].status # "warning"
      BY <3>1, <3>3 DEF NewRow
    <3>4. QED  BY <3>2, <3>3
  <2>2. QED  BY <1>2, <1>3, <2>1 DEF WrittenBy
<1>6. ASSUME NEW g \in DOMAIN table, NEW h \in DOMAIN table, g # h,
             table[g].mobile = table[h].mobile
      PROVE  FALSE
  <2>1. ASSUME NEW a \in DOMAIN residents, NEW b, a # b, NEW i \in Importable(rows),
               rows[i].row.house = b, residents[a].mobile = rows[i].row.mobile
        PROVE  FALSE
    BY <2>1 DEF TakenElsewhere
  <2>2. ~(g \in DOMAIN residents /\ h \in DOMAIN residents
          /\ residents[g].mobile = residents[h].mobile)
    BY <1>6 DEF RegistryOK, Distinct
  <2>3. ASSUME NEW i \in Importable(rows), NEW n \in Importable(rows),
               rows[i].row.house = g, rows[n].row.house = h,
               rows[i].row.mobile = rows[n].row.mobile
        PROVE  FALSE
    BY <1>6, <2>3 DEF Passing, Apart
  <2>4. CASE \E i \in Importable(rows) :
               rows[i].row.house = g /\ table[g].mobile = rows[i].row.mobile
    <3>1. PICK i \in Importable(rows) :
            rows[i].row.house = g /\ table[g].mobile = rows[i].row.mobile
      BY <2>4
    <3>2. CASE h \in DOMAIN residents /\ table[h].mobile = residents[h].mobile
      BY <3>1, <3>2, <1>6, <2>1
    <3>3. CASE \E n \in Importable(rows) :
                 rows[n].row.house = h /\ table[h].mobile = rows[n].row.mobile
      BY <3>1, <3>3, <1>6, <2>3
    <3>4. QED  BY <3>2, <3>3, <1>4, <1>6
  <2>5. CASE g \in DOMAIN residents /\ table[g].mobile = residents[g].mobile
    <3>1. CASE h \in DOMAIN residents /\ table[h].mobile = residents[h].mobile
      BY <2>5, <3>1, <1>6, <2>2
    <3>2. CASE \E n \in Importable(rows) :
                 rows[n].row.house = h /\ table[h].mobile = rows[n].row.mobile
      BY <2>5, <3>2, <1>6, <2>1
    <3>3. QED  BY <3>1, <3>2, <1>4, <1>6
  <2>6. QED  BY <2>4, <2>5, <1>4, <1>6
<1>7. ASSUME NEW g \in DOMAIN table, NEW h \in DOMAIN table, g # h,
             table[g].email = table[h].email, table[g].email # None
      PROVE  MailClashes(rows)
  <2>1. ASSUME NEW a \in DOMAIN residents, NEW b, a # b, NEW i \in Importable(rows),
               rows[i].row.house = b, residents[a].email = rows[i].row.email,
               rows[i].row.email # None
        PROVE  MailClashes(rows)
    BY <2>1 DEF MailClashes
  <2>2. ~(g \in DOMAIN residents /\ h \in DOMAIN residents
          /\ residents[g].email = residents[h].email /\ residents[g].email # None)
    BY <1>7 DEF RegistryOK, Distinct
  <2>3. ASSUME NEW i \in Importable(rows), NEW n \in Importable(rows),
               rows[i].row.house = g, rows[n].row.house = h,
               rows[i].row.email = rows[n].row.email, rows[i].row.email # None
        PROVE  MailClashes(rows)
    BY <1>7, <2>3 DEF MailClashes
  <2>4. CASE \E i \in Importable(rows) :
               rows[i].row.house = g /\ table[g].email = rows[i].row.email
    <3>1. PICK i \in Importable(rows) :
            rows[i].row.house = g /\ table[g].email = rows[i].row.email
      BY <2>4
    <3>2. CASE h \in DOMAIN residents /\ table[h].email = residents[h].email
      BY <3>1, <3>2, <1>7, <2>1
    <3>3. CASE \E n \in Importable(rows) :
                 rows[n].row.house = h /\ table[h].email = rows[n].row.email
      BY <3>1, <3>3, <1>7, <2>3
    <3>4. QED  BY <3>2, <3>3, <1>5, <1>7
  <2>5. CASE g \in DOMAIN residents /\ table[g].email = residents[g].email
    <3>1. CASE h \in DOMAIN residents /\ table[h].email = residents[h].email
      BY <2>5, <3>1, <1>7, <2>2
    <3>2. CASE \E n \in Importable(rows) :
                 rows[n].row.house = h /\ table[h].email = rows[n].row.email
      BY <2>5, <3>2, <1>7, <2>1
    <3>3. QED  BY <3>1, <3>2, <1>5, <1>7
  <2>6. QED  BY <2>4, <2>5, <1>5, <1>7
<1>8. QED  BY <1>1, <1>6, <1>7 DEF Distinct

\* What validation lets through, the database takes: while the verdicts would come out
\* the same today, confirming fails over nothing but e-mail addresses, which are unique
\* in the residents table and in no check.
THEOREM FreshImportsFit == Spec => FreshRowsFit
<1> DEFINE Today(c) == LET job == jobs[call[c].job]
                       IN  job.rows = Verdicts(job.sheet, job.mapping)
<1>1. ASSUME IInv, [Next]_vars, ~mingled', NEW c \in Calls,
             call[c].op = "confirming", call'[c] = Idle, UNCHANGED jobs, Today(c)
      PROVE  MailClashes(call[c].rows)
  <2>1. ~mingled
    BY <1>1, MingledEffect DEF IInv, TInv, Shapes
  <2>2. TInv /\ Alone /\ Fresh(call[c]) /\ RegistryOK
    BY <1>1, <2>1 DEF IInv, TInv, ImportsOK
  <2>3. PICK j, rows : j = call[c].job /\ rows = call[c].rows
    OBVIOUS
  <2>4. ConfirmImport(c)
    <3>1. PICK o \in Calls : Acts(o)
      BY <1>1, SomeoneActs DEF vars, Idle
    <3>2. o = c
      BY <1>1, <2>2, <3>1, OthersAreIdle DEF Idle
    <3>3. ~\E x : Begin(c, x)
      BY <1>1 DEF Begin, Idle
    <3>4. ~RegistryRequest(c) /\ ~CleanUp(c)
      BY <2>2, <3>3, RequestIsSound, CleanUpIsSound
    <3>5. ~\E i \in Jobs : \/ UploadImport(c, i) \/ SendMapping(c, i) \/ SendValidation(c, i)
                           \/ SendConfirmation(c, i)
      BY <3>3 DEF UploadImport, SendMapping, SendValidation, SendConfirmation, Send
    <3>6. ~RegistryStep(c) /\ ~LoadJob(c) /\ ~ConfirmMapping(c) /\ ~ValidateImport(c)
          /\ ~RemoveFiles(c)
      BY <1>1 DEF RegistryStep, StoreResident, StoreUpdate, StoreMeter, LoadJob,
         ConfirmMapping, ValidateImport, RemoveFiles
    <3>7. QED  BY <3>1, <3>2, <3>4, <3>5, <3>6 DEF Acts
  <2>5. /\ j \in Stored /\ jobs[j].status = "validated" /\ rows = jobs[j].rows
        /\ Passing(rows, residents)
        /\ call[c].residents = residents /\ call[c].meters = meters
    BY <1>1, <2>2, <2>3 DEF TInv, Sound, Fresh
  <2>6. jobs[j] \in Job /\ j \in Jobs /\ jobs[j].sheet \in Seq(Row)
    BY <2>5, JobFields
  <2>7. \A i \in Importable(rows) :
          /\ ~TakenElsewhere(rows[i].row)
          /\ rows[i].status # "warning" => rows[i].row.house \notin DOMAIN residents
    BY <1>1, <2>3, <2>5, <2>6, FreshVerdicts
  <2>8. [jobs EXCEPT ![j].status = "confirmed"] # jobs
    <3>1. [jobs[j] EXCEPT !.status = "confirmed"].status = "confirmed"
      BY <2>6 DEF Job
    <3>2. [jobs EXCEPT ![j].status = "confirmed"][j]
            = [jobs[j] EXCEPT !.status = "confirmed"]
      BY <2>2, <2>6 DEF TInv, Shapes
    <3>3. QED  BY <2>5, <3>1, <3>2
  <2>9. \/ Overtaken(rows, NewMeters(rows, meters))
        \/ \E k \in DOMAIN rows : ~Distinct(After(rows, residents, k))
    BY <1>1, <2>3, <2>4, <2>5, <2>8 DEF ConfirmImport
  <2>10. ~Overtaken(rows, NewMeters(rows, meters))
    BY <2>7 DEF Overtaken, NewMeters, SerialFree
  <2>11. DOMAIN rows \subseteq 0..Len(rows)
    BY <2>5 DEF Passing
  <2>12. QED  BY <2>2, <2>3, <2>5, <2>7, <2>9, <2>10, <2>11, OnlyMailClashes
<1>2. IInv /\ [Next]_vars =>
        [~mingled' =>
          \A c \in Calls :
            /\ call[c].op = "confirming" /\ call'[c] = Idle
            /\ UNCHANGED jobs
            /\ Today(c)
            => MailClashes(call[c].rows)]_vars
  BY <1>1
<1>3. QED  BY <1>2, WizardInvariant, PTL DEF FreshRowsFit, Spec
=============================================================================
