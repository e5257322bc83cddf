------------------------------ MODULE Imports ------------------------------
(***************************************************************************)
(* The spreadsheet import, services/import_service.py behind its routes    *)
(* (routers/admin_import.py), and the weekly import_job_cleanup on top of  *)
(* the registry it writes to.                                              *)
(*                                                                         *)
(* The page (admin_web/pages/8_Import_Data.py) offers the one step of the  *)
(* status it has fetched.  A second page, or one whose request has timed   *)
(* out, offers a step of an earlier status, and the routes take any: steps *)
(* come in any order, again and again, and may overlap.  A mapping without *)
(* its required fields is refused and left out.                            *)
(***************************************************************************)
EXTENDS Registry

CONSTANTS
    Jobs,       \* import jobs that are explored
    Sheets      \* spreadsheets: sequences of rows

Cell(values) == values \cup {None}

\* None stands for a value that is missing or malformed.
Row == [house: Cell(Houses), mobile: Cell(Mobiles), email: Cell(Emails),
        serial: Cell(Serials)]

ASSUME SheetsAssumption == Sheets \subseteq Seq(Row)

VARIABLES
    jobs,       \* import_jobs and import_rows
    files       \* the jobs whose spreadsheet is stored

NoJob == [status |-> "none"]

Statuses == {"uploaded", "mapped", "validated", "confirmed"}

\* A row as it was judged.
Verdict == [row: Row, status: {"valid", "warning", "error"}]

\* mapping: the canonical fields that a column has been chosen for.
Mappings == {"none", "required", "all"}

Job == [status: Statuses, sheet: Sheets, mapping: Mappings, rows: Seq(Verdict),
        total: Nat, valid: Nat, error: Nat]

ImportsOK ==
    /\ RegistryOK
    /\ \A j \in Jobs : jobs[j] = NoJob \/ jobs[j] \in Job
    /\ files \subseteq Jobs

\* Columns of the jobs table that handlers load and write.
Columns(job) ==
    [status |-> job.status, mapping |-> job.mapping, total |-> job.total,
     valid |-> job.valid, error |-> job.error]

vars == <<requests, mingled, residents, meters, call, jobs, files>>

ImportsInit ==
    /\ jobs = [j \in Jobs |-> NoJob]
    /\ files = {}

-----------------------------------------------------------------------------
(* Judging a spreadsheet.                                                  *)

\* confirm_mapping and _apply_mapping: an optional field without a column is None.
Mapped(sheet, mapping) ==
    IF mapping = "all" THEN sheet
    ELSE [i \in DOMAIN sheet |-> [sheet[i] EXCEPT !.email = None]]

Same(a, b) == a = b /\ a # None

\* Mutant: mobile numbers are compared with the registry only.
RepeatsButMobile(rows, i) ==
    \E k \in 1..(i - 1) :
      Same(rows[k].house, rows[i].house) \/ Same(rows[k].serial, rows[i].serial)

\* Rows are compared with all rows before them, those in error included.
Repeats(rows, i) ==
    \E k \in 1..(i - 1) :
      \/ Same(rows[k].house, rows[i].house)
      \/ Same(rows[k].mobile, rows[i].mobile)
      \/ Same(rows[k].serial, rows[i].serial)

Incomplete(row) == None \in {row.house, row.mobile, row.serial}

\* Mobile numbers and serial numbers that the registry knows of another house.
TakenElsewhere(row) ==
    \/ \E h \in DOMAIN residents :
         residents[h].mobile = row.mobile /\ h # row.house
    \/ row.serial \in DOMAIN meters /\ meters[row.serial] # row.house

\* A row whose house is registered will update it, another will create it.
Judged(rows, i) ==
    [row |-> rows[i],
     status |-> IF Incomplete(rows[i]) \/ Repeats(rows, i) \/ TakenElsewhere(rows[i])
                THEN "error"
                ELSE IF rows[i].house \in DOMAIN residents THEN "warning" ELSE "valid"]

Verdicts(sheet, mapping) ==
    LET rows == Mapped(sheet, mapping) IN [i \in DOMAIN rows |-> Judged(rows, i)]

Importable(rows) == {i \in DOMAIN rows : rows[i].status # "error"}

-----------------------------------------------------------------------------
(* The steps of the wizard.  What a handler has loaded of the job is seen. *)

KeepRegistry == UNCHANGED <<requests, mingled, residents, meters>>

\* A request for a step of job j, whatever the job's status.
Send(c, j, op) ==
    /\ jobs[j] # NoJob
    /\ Begin(c, [op |-> op, job |-> j])
    /\ UNCHANGED <<jobs, files>>

\* The file is written before the row that names it is committed.
UploadImport(c, j) ==
    /\ jobs[j] = NoJob
    /\ \E sheet \in Sheets :
         jobs' = [jobs EXCEPT ![j] = [status |-> "uploaded", sheet |-> sheet,
                    mapping |-> "none", rows |-> <<>>, total |-> 0, valid |-> 0, error |-> 0]]
    /\ files' = files \cup {j}
    /\ Begin(c, Idle)

SendMapping(c, j) == Send(c, j, "map")

SendValidation(c, j) == Send(c, j, "validate")

SendConfirmation(c, j) == Send(c, j, "confirm")

\* The handlers load the job.  confirm_mapping looks at no status, validate_import
\* only at the mapping, confirm_import at the status.
LoadJob(c) ==
    /\ call[c].op \in {"map", "validate", "confirm"}
    /\ LET j == call[c].job
           seen == Columns(jobs[j])
       IN  \/ /\ call[c].op = "map"
              /\ \E mapping \in {"required", "all"} :
                   Become(c, [op |-> "mapping", job |-> j, seen |-> seen,
                              mapping |-> mapping])
           \/ /\ call[c].op = "validate" /\ seen.mapping # "none"
              /\ Become(c, [op |-> "validating", job |-> j, seen |-> seen])
           \/ /\ call[c].op = "confirm" /\ seen.status = "validated"
              /\ Become(c, [op |-> "confirming", job |-> j, rows |-> jobs[j].rows,
                            residents |-> residents, meters |-> meters])
           \/ /\ \/ call[c].op = "validate" /\ seen.mapping = "none"
                 \/ call[c].op = "confirm" /\ seen.status # "validated"
              /\ Become(c, Idle)
    /\ KeepRegistry
    /\ UNCHANGED <<jobs, files>>

\* The columns of the job that differ from what was loaded.
Written(job, seen, new) ==
    [job EXCEPT !.status = Column(seen.status, new.status, @),
                !.mapping = Column(seen.mapping, new.mapping, @),
                !.total = Column(seen.total, new.total, @),
                !.valid = Column(seen.valid, new.valid, @),
                !.error = Column(seen.error, new.error, @)]

ConfirmMapping(c) ==
    /\ call[c].op = "mapping"
    /\ LET seen == call[c].seen
       IN  jobs' = [jobs EXCEPT ![call[c].job] =
                      Written(@, seen, [seen EXCEPT !.status = "mapped",
                                                    !.mapping = call[c].mapping])]
    /\ Become(c, Idle)
    /\ KeepRegistry
    /\ UNCHANGED files

\* Mutant: the rows of an earlier validation are not deleted.
AddedTo(earlier, rows) == earlier \o rows

\* A validation deletes the rows of the one before.
Replacing(earlier, rows) == rows

\* That DELETE takes SQLite's write lock, so that the rows are read, judged against
\* the registry and stored in one.  Without its file the request fails.
ValidateImport(c) ==
    /\ call[c].op = "validating"
    /\ LET j == call[c].job
           seen == call[c].seen
           rows == Verdicts(jobs[j].sheet, seen.mapping)
           valid == Cardinality(Importable(rows))
           new == [seen EXCEPT !.status = "validated", !.total = Len(rows),
                               !.valid = valid,
                               !.error = Len(rows) - valid]
       IN  jobs' = IF j \in files
                   THEN [jobs EXCEPT ![j] = [Written(@, seen, new) EXCEPT
                                               !.rows = Replacing(@, rows)]]
                   ELSE jobs
    /\ Become(c, Idle)
    /\ KeepRegistry
    /\ UNCHANGED files

-----------------------------------------------------------------------------
(* Confirming.                                                             *)

\* An address that the file does not have is left alone.
MailOf(row, old) == IF row.email = None THEN old ELSE row.email

\* One row written to table, given the residents that the handler has loaded.
WriteRow(table, seen, verdict) ==
    LET row == verdict.row
        h == row.house
    IN  IF verdict.status = "warning"
        THEN [table EXCEPT ![h] = Rewritten(@, seen[h], row.mobile, MailOf(row, seen[h].email))]
        ELSE Put(table, h, [mobile |-> row.mobile, email |-> row.email])

\* The residents after the first k rows.
After(rows, seen, k) ==
    LET f[i \in 0..k] ==
          IF i = 0 THEN residents
          ELSE IF rows[i].status = "error" THEN f[i - 1]
          ELSE WriteRow(f[i - 1], seen, rows[i])
    IN  f[k]

\* A serial number that is assigned already is passed over.
NewMeters(rows, seen) ==
    {i \in Importable(rows) : rows[i].row.serial \notin DOMAIN seen}

WithMeters(rows, new) ==
    LET row(s) == rows[CHOOSE i \in new : rows[i].row.serial = s].row
    IN  [s \in DOMAIN meters \cup {rows[i].row.serial : i \in new} |->
           IF s \in DOMAIN meters THEN meters[s] ELSE row(s).house]

\* Houses and serial numbers to be created that are there by now.
Overtaken(rows, new) ==
    \/ \E i \in Importable(rows) :
         rows[i].status = "valid" /\ rows[i].row.house \in DOMAIN residents
    \/ \E i \in new : ~SerialFree(rows[i].row.serial)

\* Mutant: the rows that do fit are kept.
KeepsWhatFits(rows, seen) ==
    CHOOSE k \in 0..Len(rows) :
      /\ \A i \in 0..k : Distinct(After(rows, seen, i))
      /\ k = Len(rows) \/ ~Distinct(After(rows, seen, k + 1))

KeepsAll(rows, seen) == Len(rows)

\* All importable rows and the status of the job, in one transaction.  Rows are
\* flushed in turn, or together in an order of SQLAlchemy's: one that clashes with
\* what a later row gives up may fail or not.
ConfirmImport(c) ==
    /\ call[c].op = "confirming"
    /\ LET j == call[c].job
           rows == call[c].rows
           seen == call[c].residents
           new == NewMeters(rows, call[c].meters)
           after(k) == After(rows, seen, k)
           last == KeepsAll(rows, seen)
       IN  \/ /\ ~Overtaken(rows, new) /\ Distinct(after(last))
              /\ Commit(c, after(last), WithMeters(rows, new), TRUE)
              /\ jobs' = [jobs EXCEPT ![j].status = "confirmed"]
           \/ /\ Overtaken(rows, new) \/ \E k \in DOMAIN rows : ~Distinct(after(k))
              /\ Commit(c, residents, meters, FALSE)
              /\ UNCHANGED jobs
    /\ UNCHANGED files

-----------------------------------------------------------------------------
(* The weekly removal of spreadsheets.                                     *)

\* No code sets the statuses failed and cancelled.
TerminalStatuses == {"confirmed"}

\* Jobs that are old enough are selected, whichever those are.
CleanUp(c) ==
    \E old \in SUBSET Jobs :
      /\ old # {} /\ \A j \in old : jobs[j].status \in TerminalStatuses
      /\ Begin(c, [op |-> "clean", jobs |-> old])
      /\ UNCHANGED <<jobs, files>>

RemoveFiles(c) ==
    /\ call[c].op = "clean"
    /\ \E j \in call[c].jobs :
         /\ files' = files \ {j}
         /\ Become(c, IF call[c].jobs = {j} THEN Idle
                      ELSE [call[c] EXCEPT !.jobs = @ \ {j}])
    /\ KeepRegistry
    /\ UNCHANGED jobs

-----------------------------------------------------------------------------

Init == RegistryInit /\ ImportsInit

Next ==
    \E c \in Calls :
      \/ (RegistryRequest(c) \/ RegistryStep(c)) /\ UNCHANGED <<jobs, files>>
      \/ \E j \in Jobs :
           \/ UploadImport(c, j) \/ SendMapping(c, j) \/ SendValidation(c, j)
           \/ SendConfirmation(c, j)
      \/ LoadJob(c) \/ ConfirmMapping(c) \/ ValidateImport(c) \/ ConfirmImport(c)
      \/ CleanUp(c) \/ RemoveFiles(c)

Spec == Init /\ [][Next]_vars
=============================================================================
