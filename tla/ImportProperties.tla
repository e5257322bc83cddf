-------------------------- MODULE ImportProperties --------------------------
(***************************************************************************)
(* What the import promises about its jobs and the registry.               *)
(***************************************************************************)
EXTENDS Imports

TypeOK == ImportsOK

InError(rows) == DOMAIN rows \ Importable(rows)

\* A job whose next step reads its spreadsheet has it, which import_job_cleanup spares,
\* and one that has been validated has one verdict on every row of it and the counts of
\* those, although validate_import and confirm_mapping take a job of any status up
\* again ("Re-validating ... replaces the previous row-level results").  A job that was
\* confirmed, cleaned up and mapped again has no spreadsheet: it can never go on.
JobsHoldTogether ==
    ~mingled =>
      \A j \in Jobs :
        /\ jobs[j].status \in {"uploaded", "validated"} => j \in files
        /\ jobs[j].status \in {"validated", "confirmed"} =>
             /\ Len(jobs[j].rows) = Len(jobs[j].sheet)
             /\ jobs[j].total = Len(jobs[j].rows)
             /\ jobs[j].valid = Cardinality(Importable(jobs[j].rows))
             /\ jobs[j].error = Cardinality(InError(jobs[j].rows))

\* A job is confirmed together with all its importable rows, and no others: their
\* residents are as the rows say and their serial numbers assigned.
ImportIsWhole ==
    [][ ~mingled' =>
        \A j \in Jobs :
          jobs[j].status = "validated" /\ jobs'[j].status = "confirmed" =>
            /\ \A i \in Importable(jobs[j].rows) :
                 LET row == jobs[j].rows[i].row
                 IN  /\ row.house \in DOMAIN residents'
                     /\ residents'[row.house].mobile = row.mobile
                     /\ row.email # None => residents'[row.house].email = row.email
                     /\ row.serial \in DOMAIN meters'
            /\ \A h \in DOMAIN residents' \ DOMAIN residents :
                 \E i \in Importable(jobs[j].rows) : jobs[j].rows[i].row.house = h ]_vars

\* An importable row whose e-mail address is that of another house or of another row.
MailClashes(rows) ==
    \E i \in Importable(rows) :
      LET row == rows[i].row
      IN  /\ row.email # None
          /\ \/ \E h \in DOMAIN residents :
                  h # row.house /\ residents[h].email = row.email
             \/ \E k \in Importable(rows) : k # i /\ rows[k].row.email = row.email

\* What validation lets through, the database takes: if the verdicts would come out
\* the same today, confirming fails over nothing but e-mail addresses, which are
\* unique in the table and in no check (import_service.py, resident.py).
FreshRowsFit ==
    [][ ~mingled' =>
        \A c \in Calls :
          /\ call[c].op = "confirming" /\ call'[c] = Idle
          /\ UNCHANGED jobs
          /\ LET job == jobs[call[c].job]
             IN  job.rows = Verdicts(job.sheet, job.mapping)
          => MailClashes(call[c].rows) ]_vars
=============================================================================
