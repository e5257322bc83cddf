# A formal model of the gas billing system

The repository is a gas billing system for a housing community: a FastAPI
backend (`src/backend`), an administrator's web client (`src/admin_web`), a
residents' mobile client (`src/mobile`) and a pipeline that reads a gas meter
from a photo with a hosted vision model (`src/vision`, `src/models`,
`src/providers`). This directory holds TLA+ modules that model the backend, the
sessions of its clients and the photo pipeline, TLC configurations that check
them on small instances, and TLAPS proofs of what holds for every instance.
`PROJECT.json` maps every definition to the lines it models.

## 1. The system

### Components, their state and their operations

| component | source | state | operations |
|---|---|---|---|
| Billing periods | `services/billing_service.py` | `billing_periods`: label, window, rates, status DRAFT, OPEN_FOR_READINGS, READINGS_CLOSED, BILLED, CLOSED | create, update (drafts only), open, close readings, close, generate bills |
| Meter readings | `services/meter_reading_service.py`, `routers/meters.py` | `meter_readings`, one row per period and resident: status, submitted, previous and final value | submit a photo, confirm, retake, override, reject |
| Bills and fines | `services/billing_service.py`, `jobs/definitions.py` | `bills` (ISSUED, OVERDUE, PAID, WAIVED, CANCELLED, amounts), `fines` (unique per bill and day) | generation, overdue check, daily fine, waive, cancel |
| Payments | `services/payment_service.py` | `payments` (INITIATED, SUCCESS, FAILED) | initiate, confirm with either answer of the provider, mark paid offline |
| Daily jobs | `jobs/scheduler.py`, `jobs/definitions.py` | an in-memory job store in every process | kickoff 00:15, deadline check 00:30, due date check 01:00, fines 01:15, reminders 09:00, import clean-up on Sundays |
| Notifications | `services/notification_service.py` | `notifications` | notify resident, notify administrator, sent-today query, mark read |
| Audit log | `services/audit_service.py` | `audit_logs` | record, by a commit of its own |
| Sessions and credentials | `services/auth_service.py`, `core/security.py` | one-time codes, password hashes, refresh tokens | sign-up, login, reset, refresh with rotation, logout |
| Residents and meters | `services/resident_service.py` | `residents`, `meters` | create, update (by administrator or resident), deactivate, reset password, assign meter |
| Import pipeline | `services/import_service.py` | `import_jobs`, `import_rows`, files | upload, mapping, validate, confirm; the statuses FAILED and CANCELLED exist but nothing sets them |
| Photo pipeline | `src/vision`, `src/models`, `src/providers` | none | check the upload, preprocess, ask the model, parse, validate the answer |
| System configuration | `services/system_config_service.py` | key and value rows | list, update with a type check |
| Dashboard | `services/dashboard_service.py` | none | read-only aggregates |
| HTTP layer | `routers`, `schemas`, `core` | rate-limit windows in memory | routing, validation, error mapping |
| Clients | `admin_web`, `mobile` | access and refresh token | pages and screens; refresh and retry on 401 |

### How they interact

Everything goes through one SQL database. A request handler gets a session of
its own (`core/deps.py`, `get_db`), and so does every job run. Handlers load
rows with plain SELECTs, decide, and commit later. No lock is taken, no version
column is compared, and the database is used at its default isolation level, so
what a handler decided on may be old when it commits. The ORM writes back only
the columns whose value differs from the one it loaded, and forgets what it has
loaded at each commit (`expire_on_commit`). After its main commit a handler
writes audit rows and notices, each by a commit of its own.

Synchronous endpoints run in a thread pool and jobs in the scheduler's pool, so
any two of them overlap. The one exception is the submission of a photo: its
endpoint is a coroutine that calls the vision model without ever awaiting, so
two submissions in one process never overlap (`routers/meters.py:33-48`), though
anything else may happen meanwhile. A deployment with several backend processes
has several schedulers, and each fires every job.

### What is hard about it

- handlers that overlap between load and commit: two payments, a payment and a
  waiver, an administrator's edit and a job's transition, two runs of one job;
- lists that jobs load once and work through, with a commit per element;
- a step of several failing: a job that dies on a unique key or a ConflictError
  leaves its list unfinished, a restart leaves a status without its notices;
- restarts: the job store is in memory, so a job missed while down is not run;
- clients that retry: a 401 is followed by a refresh and a second attempt, two
  requests may do so together, and the answer to a refresh may be lost after the
  token has been rotated;
- checks that are older than what they allow: a code's attempts, a refresh token's
  liveness, an import's verdicts on rows;
- order over weeks: an older reading becomes final after a newer one has taken
  its previous value, a payment is confirmed after its bill was released.

`PROJECT.json` lists each of these hazards at its line, with the properties that
would fail if the code got it wrong, or with the reason why none covers it.

### What makes each component correct

- Payments: paid exactly when received, the right amount, outcomes final.
- Bills and fines: the lifecycle only moves forward, one fine per overdue day,
  total = amount + fines, everybody who is to be told is told, once.
- Billing periods: forward through the lifecycle, immutable once billed.
- Meter readings: final means final but for an administrator; consumption is
  positive; the previous value chains the periods.
- Bill generation: quotes what is final, once per resident and period; after the
  deadline everyone has a bill or a notice.
- Sessions: one usable refresh token per login chain, none survives a reset; a
  code is used once and within its attempts; what has ended stays ended; client
  and backend agree on the token in force.
- Registry and import: unique columns hold; an import lands whole and once, as it
  was validated; what validation lets through the database takes.
- Photo pipeline: nothing is accepted that the model did not say, nothing is made up
  when it said nothing.

## 2. The modules

| module | what it is |
|---|---|
| `Ledger` | bills, payments, fines and notices; requests and the three bill jobs |
| `LedgerProperties` | its properties, the inductive strengthening, the refinement mapping |
| `BillContract` | what a bill promises, without handlers, payment attempts or jobs |
| `MCLedger` | instances of the ledger for TLC |
| `LedgerProofs` | theorems about the ledger, whatever overlaps |
| `LedgerAuditProofs` | the audit log and the daily fine while the host stays up, whatever overlaps |
| `LedgerSerialProofs` | handlers one at a time; the ledger implements `BillContract` |
| `ReadingCycle` | periods, readings, bill generation; requests, kickoff and deadline jobs |
| `ReadingProperties` | its properties |
| `MCReading` | instances of the reading cycle for TLC |
| `ReadingProofs` | theorems about the reading cycle, whatever overlaps |
| `ReadingSerialProofs` | handlers one at a time |
| `Sessions` | passwords, one-time codes, refresh tokens: the handlers of `auth_service.py` and those of `resident_service.py` that end sessions |
| `Clients` | devices that hold a session, refresh and retry, composed with `Sessions`; restarts and lost answers |
| `SessionProperties` | their properties |
| `MCSessions` | an instance for TLC |
| `SessionProofs` | theorems about sessions, codes and devices |
| `Registry` | residents and meters with their unique columns |
| `Imports` | import jobs on top of `Registry`, their steps in any order, the clean-up job |
| `ImportProperties` | their properties |
| `MCImports` | an instance for TLC: six spreadsheets |
| `ImportProofs` | theorems about the registry and the import |
| `PhotoPipeline` | from a photo to the reading it is stored as |
| `PhotoProperties` | its properties |
| `MCPhoto` | an instance for TLC |
| `PhotoProofs` | theorems about the photo pipeline |

The two components meet at the bill. `ReadingCycle` ends with the bill
generated, `Ledger` starts where generation has just committed (`Ledger!Init`
is the row that `billing_service.py:245-260` adds), and neither changes what the
other owns: no code in the ledger writes periods or readings, and generation
never touches a bill that exists. They are therefore checked one at a time.

`Clients` EXTENDS `Sessions` and `Imports` EXTENDS `Registry`: these compositions
are one state machine each, with the interleavings of both. The two pairs share
the table of residents, of which sessions use the columns `is_active` and
`password_hash` and the registry the unique ones; no handler reads one half to
write the other, so each module has the columns it needs. `PhotoPipeline` is the
inside of `ReadingCycle!BeginSubmit` and `FinishSubmit`: the latter takes any
result that the former can produce (`VisionResult`), with its value as given.

### How state and actions correspond to code

Each table is a function from keys to records with the columns that matter, or
a record with status `"none"`. `thread[t]` is the operation thread `t` is in the
middle of, with everything it has loaded: the local variables and the identity
map of its session. `job[t]` is the loop of the job that `t` runs and what is
left of its list. Every action is one load (`Begin...`, `Load...`, `Check...`,
`Survey`) or one commit (`Finish...`, `Charge...`, `Mark...`, `Tell...`). Two
loads in a row are merged where nothing that is committed between them can be
told apart from a commit before or after both, or where the second is the
one that matters; these are all such places:

- `Ledger!CheckFine`: the bill is reloaded and today's fine looked up. A fine
  added between the two makes the lookup find it, or else the unique key stop
  the commit.
- `ReadingCycle!LoadReadings`: final readings, then existing bills. A bill made
  between the two is skipped like one made before both.
- `ReadingCycle!FinishSubmit`: the previous value is looked up when the photo
  pipeline has answered, and committed with the rest after the image is saved.
- `BeginSubmit`, `CreatePeriod`: the lookups that only lead to a rejection.

`Flush(stored, seen, wanted)` in `ReadingCycle` is the ORM's column-wise write:
columns that the handler set to another value than it loaded are written, the
others keep what is stored now. In `Ledger` every write is either the status or
the two fine columns, so the same rule is spelled out where it has an effect
(`FinishConfirm` does not write PAID over a bill it has loaded as PAID).
`JobLoop.held` and `fresh` are the fine amounts that the session of
`fine_accrual` has loaded with its list, valid until its first commit.

An error path ends the handler: a rejected request changes nothing and is not an
action; a failed commit is (`ChargeConflict`, `GenerateConflict`,
`CreateDraftConflict`), and in a job it takes the loop with it, as does a
`ConflictError` (`NextPeriodConflict`, `JobGenerateConflict`). `Crash` is a
restart of the host: threads and jobs are gone, tables stay, and the jobs whose
hour passes meanwhile are not made up for that day. It clears every process at
once.

In `Sessions` and `Registry`, `call[c]` plays the part of `thread[t]`: `Begin`
is the load (with the handler's refusals as guards), the action named after the
commit is the commit, and what the handler still has to do is the next value of
`call[c].op`. After the last commit of a session request `call[c]` is the answer,
until the device takes it or no longer waits. The lookup of a refresh is merged
with nothing: `LoadRefresh`, `Rotate` (the new token's commit) and `Retire` (the
old one's) are three steps. `mingled` is a history variable that says whether two
calls have ever been in flight together, `Code.guesses`, `Token.session`,
`Token.era` and `Account.era` are history too. `Column` is the column-wise write.
In `Imports`, `ValidateImport` is one step from the DELETE of the old rows on,
for that statement takes SQLite's write lock; `ConfirmImport` loads and later
commits; the order in which SQLAlchemy flushes updates is left open. `Send` is
a request for one step of a job, whatever the job's status: the page offers the
step that belongs to the status it has fetched, but a second page may have
fetched another, and the routes refuse none by status but the confirmation of a job
that is not validated. A confirmed job can be mapped, validated and confirmed
again, and is in the model.

In `PhotoPipeline` a photo is usable or not, and an answer of the model is told
apart as far as `validate_output` does: which fields there are, whether digits and
number agree, how many digits, whether the serial number is the same text,
quality, confidence. A failed call is told apart by whether the provider was
reached, for that is what the comments of the caller speak of.

`Bill.paid` is the column `paid_at` by its day. In `ReadingCycle` each job fires at
most once a day, from one process; in `Ledger` each process fires each.

Left out, everywhere: images, confidence and other columns nothing decides on,
timestamps other than the order of creation of readings and expiry, the text of
notices, names, install dates. `Ledger` and `ReadingCycle` leave out
authentication; `Sessions`, `Registry` and `Imports` leave out audit rows, and requests that
are refused by their own checks, which change nothing (where the check is one
of a row just loaded, the call is seen to end). `ReadingCycle` also leaves out audit rows. `retake` checks and
changes nothing, so it is not an action. A photo read as 0 can never be
confirmed and is left out. Amounts are integers in units of the smallest
currency; the rounding of consumption times rate is not modelled, nor is the
amount of a bill in `ReadingCycle`, which keeps the three columns it is computed
from.

A confidence that is no number (NaN) is left out: `detection.py:73` would cut it to
1.0, but the confidences of the model are integers. The mobile client's
`submitReading` keeps the session on a second 401, unlike its other requests
and the web client's, and is not among the requests of `Clients`.

Assumed of the environment: jobs of a day fire in the order of their hours and
each is over before the next one and before midnight (they take seconds and are
fifteen minutes apart or more); requests may take as long as they like,
midnight included; the host's clock is in UTC as the scheduler's is, since jobs
take `date.today()`; unique keys hold, transactions are atomic.

## 3. What is checked

| run | instance | what it shows |
|---|---|---|
| `LedgerOverlap` | 1 bill, 2 payments, 2 threads, 2 processes, 2 days | types; payment amounts bracketed; no fine after the day of payment; audit log accounts for fines and payments |
| `LedgerJobs` | 2 bills, no payments, 2 threads, 2 processes, 3 days | fine ledger, fine dates, every overdue bill fined every day |
| `LedgerSerial` | 1 bill, 2 payments, 1 thread, 2 processes, 3 days, 1 restart | paid iff received, final outcomes, lifecycle, notices once, `BillContract`, liveness |
| `LedgerSecondReceipt` | 1 bill, 2 payments, 1 thread | finding: a bill can be paid twice |
| `ReadingMonths` | 2 periods, 1 resident, 1 thread, 4 days, 4 requests, 1 restart | confirmed readings, lifecycle, bills, deadline, missing notices once, overdue windows close |
| `ReadingOverlap` | 2 periods, 1 resident, 2 threads, 2 days, 4 requests, 1 restart | types, drafts never return, periods with bills are no drafts, only late writes reopen a final reading |
| `ReadingBilledTwice` | 2 periods, 1 resident, 1 thread, 4 days, 7 requests | finding: two bills for the same stretch |
| `ReadingReopened` | 1 period, 1 resident, 2 threads, 1 day, 5 requests | finding: a final reading is reopened |
| `Sessions` | 1 resident, 1 device, 2 calls, 4 requests, clock 0 to 2, 1 restart or lost answer | types, resets, tokens per session, rotation, attempts, forms, ended sessions, every request ends |
| `Imports` | 1 job, 6 spreadsheets, 2 houses, 2 calls, 7 requests | unique columns, rows and counts of the last validation, whole imports, validated rows fit |
| `Photo` | 2 photos, boundary values of digits and confidence | accepted readings are sound, nothing is made up |
| `PhotoProviderDown` | as `Photo` | finding: a call that failed stores a reading |

Two kinds of properties are kept apart in the property modules. Those under
*whatever overlaps* hold with any number of threads and are checked with two.
Those under *one handler at a time* are checked with one thread, where every
handler still consists of its separate commits, the ledger's jobs are fired by both
processes one after the other, and restarts fall between any two commits. Most
of these are false when handlers overlap; the code has no means to keep them.
Examples that TLC shows with two threads are a waiver loaded before and
committed after a payment (a paid bill becomes WAIVED, against
`ClosedBillsStayClosed`), a due-date check that writes OVERDUE over a bill paid
since its list was loaded (`PaidIffReceipt`), and two processes that announce the
same overdue bill (`NoticesAreNotRepeated`, although `backend/README.md` calls the
jobs idempotent). They are recorded here and under the hazards. What does
survive overlap is stated beside them: `NoFineAfterPayday` says that a bill which is
paid while `fine_accrual` has it on its list is fined that day at most, and
`LateWritesOnly` that a final reading is only changed by an administrator or by a
handler that loaded the row before it was final, and keeps its final value then
unless the row that was loaded had one.

`Sessions` and `Imports` have both kinds in one run: overlapping calls are
explored, and a property that only holds without them starts with `~mingled`
(or `Orderly`, without faults too). What overlapping does is worth knowing; TLC
shows each of these when the condition is taken off:

- two refreshes with one token: both are looked up as live and both rotate, or the
  second finds the token revoked, which counts as reuse and signs every device
  of the subject out (`OneTokenPerSession`, `DevicesKeepUp`);
- two wrong guesses at a one-time code load the same count and write the same
  one (`GuessesAreCounted`);
- a refresh that has looked its token up before a reset issues a new one after
  the reset has revoked all (`ResetEndsSessions`).

Two more facts of the code that comments tell otherwise, and that need no
overlap: any revoked token counts as reuse, so a device signed out by a password
reset ends the sessions opened since when it tries to refresh, although
`auth_service.py:263` speaks of a token "already rotated out once"; and a resident
can get several active meters, although `meter.py:16` says the service layer
prevents it. `detection.py:73` cuts a confidence to its range before
`validate_output` checks that range, so an answer in percent passes for certainty.

The four disagreements with what the repository says are separate runs:

- `NoSecondReceipt`: both of two payments that were initiated while the bill was
  open can be confirmed. It takes no overlap. A test's comment says that the
  second attempt is rejected, which is so for `initiate_payment`;
  `confirm_payment` never looks at the bill.
- `NoGasBilledTwice`: the previous value of a reading is copied when the photo is
  submitted. A reading of the month before that becomes final later (late
  override or confirmation) and is then billed by a second generation run covers
  a stretch of the meter that the newer bill covers too, which the docstring of
  the generation excludes.
- `FinalReadingsStand` with two threads: a submission checks the row, waits for
  the vision model, and takes back to review what an administrator has made final
  meanwhile. The administrator's value stays in its column: it was NULL when the row
  was loaded, so setting it to NULL writes nothing (`meter_reading_service.py:176`).
- `FailedCallsStoreNothing`: a refused key, a quota used up or a network that is
  down are ProviderErrors which `analyze_meter_image` takes for an answer without a
  meter. They are stored as a rejected reading, over an earlier one if there is
  one, while `meter_reading_service.py:142-145` and `routers/meters.py:51-52` expect
  the exception and a 502.

### Bounds

The bounds are in the guards and named in the modules: `MaxDay` (calendar),
`MaxCrashes`, `MaxRequests` (reading cycle), the number of `Payments` (rows left
for new payments). Requests are unbounded in the ledger, whose tables are finite
already.

- Days: all bills fall due on day 0, so on day 1 they can be overdue and are
  fined once, on day 2 a second time, which is when the fine amount carried by a
  run differs from zero. `LedgerOverlap` stops at day 1, as its properties need
  one fine between two loads.
- Threads and processes: the conflicts in this code are between a handler and
  one other, and two processes are the least that fire a job twice. Two bills
  are needed in `LedgerJobs`, for the second is processed after the first has
  expired what the session holds; `DailyFineApplied` needs a list with something
  left when a run dies. `LedgerJobs` has no payments: they change only the status,
  and waive and cancel, which it has, change it in the same way.
- Two payments are the least for a second receipt, and two periods the least for
  a previous value; values 1 and 2 with the initial 0 allow less, equal and more.
  The rates of drafts by the job and by the administrator differ, so a bill that
  quotes the wrong one shows.
- Requests: the jobs create, open, close and bill periods by themselves, so that
  four requests are a submission and a confirmation in either month, or fewer of
  these and a period, an edit, an override or a rejection by the administrator;
  four days are what two such months take. Four with two threads cover every pair of
  handlers with a period to have them about, jobs not counted as requests.
- Sessions: four requests are a code, its verification, the form and one more, or
  a login, a refresh and a reset with one to spare; two in flight are the least
  that overlap; lifetimes of one with a clock of two let everything be used in
  time, at the limit and too late. One fault is what one refresh can suffer
  between its two commits. More people, devices and calls are left to the proofs,
  which have no bound.
- Imports: two houses are a registered one and a new one; the six spreadsheets
  hold rows that create, update, clash over each unique column, clash with each
  other or lack a value; seven requests are an import from upload to
  confirmation and a second round of mapping, validation and confirmation, or
  changes of the registry between.
- Photos: digit counts at and beyond each limit, confidences below, at
  and above the threshold and outside the range, and a second photo for the row
  that the first has left.

`CHECK_DEADLOCK FALSE` is in every configuration because the calendar ends: on
the last day, with the jobs over and no request that is still accepted, nothing
is left to do. Symmetry is used for threads and payments, or threads and
residents, in runs that check no liveness; nothing in the modules tells two of
them apart.

Every property has a mutant in `PROJECT.json`: a plausible mistake in a
definition that is mapped to code, under which TLC finds the property violated in
the same run. The mutated forms stand beside the originals, marked `Mutant:`.

### Fairness

`FairSpec` is used by the three runs with liveness properties. That of `Clients`
is weak fairness of `Step(c)`: handlers run in a pool of threads, and both clients
wait for an answer with a timeout and then go on; requests, faults and time are
not forced. In the other two, weak fairness of
`Continue(t)`: the operating system runs a thread that has something to do. Of
`Fire`: the scheduler fires every job daily. In the ledger weak fairness
suffices since with one thread each request ends and only finitely many rows
and statuses let new ones begin; the reading cycle has it strong, because
requests share the model's thread with jobs while the real scheduler has a pool
of its own, so a job's turn comes however many requests keep coming. Of `Tick`:
days pass. Requests are never forced.

## 4. What is proved

Every invariant and every action property of the passing runs is a theorem of
its specification, for every value of the constants: any number of bills,
payments, periods, residents, threads, processes, devices and calls, any calendar
and any number of requests, restarts and lost answers. So is the refinement
`Spec => KeepsContract`. Each theorem rests on the named assumptions about the
constants of its module and nothing else; these say of what sort the constants
are, and three of them say more, because a proof needed it:

- `RegistryAssumption`: the residents to start with have distinct mobile numbers
  and e-mail addresses (the table's unique columns);
- `LedgerAssumption`: the daily fine is not negative (`schemas/billing.py:17`);
- `AcceptedReadingsAreSound` asks for `Threshold > 0` (0.85 unless configured,
  `config/settings.py:48`): at threshold zero a confidence below zero, which is
  cut to zero before it is judged, would be accepted.

How far overlapping goes is part of each theorem:

| theorems | which executions |
|---|---|
| `LedgerProofs`, `ReadingProofs`, `PhotoProofs`; the types in `SessionProofs` and `ImportProofs` | all |
| `LedgerAuditProofs` | all, up to the first restart (`crashes = 0` in the properties) |
| `LedgerSerialProofs`, `ReadingSerialProofs` | handlers one at a time: hypothesis `OneThread`, `Threads` has one element at most. Handlers still consist of separate commits, the ledger's jobs are still fired by every process, and restarts fall anywhere |
| the rest of `SessionProofs` and `ImportProofs` | up to the first overlap (`~mingled` in the properties), in some without faults (`Orderly`) |

The hypotheses are not for the prover's convenience: section 3 names what fails
without them in the ledger and the sessions, and in the reading cycle a review
during the deadline check fails `DeadlineAccountsForAll`.

In every module the argument is an inductive invariant, checked by TLC on an
instance before it was proved, and then one lemma per action or per conjunct. The
properties themselves are not inductive, since a handler that is about to commit
may hold anything; what an invariant adds is what it does hold.

### The ledger

`LedgerProofs`: `InductiveInvariant`, `TypeCorrect`, `FineLedgerHolds`
(`FineLedger`), `FineDatesHold` (`FinesWithinOverdueDays`), `FinesEndWithPayment`
(`NoFineAfterPayday`), `PaymentAmountsHold` (`PaymentAmountBracket`). `FineLedger` says that the fine column counts the rows of
the fines table. A run of `fine_accrual` writes the sum of what its session has
loaded and one daily fine, so what it holds must be known to be the column's
value at the moment of the commit. `HeldFinesAreCurrent` says when it is: what a
job holds, or is about to add to, is the bill's fine *unless today's fine row
has been inserted since*, and then the unique key stops the commit. That is the
whole protection the code has against a lost fine, and the invariant depends on
the calendar assumption that a job is over before midnight. `ChargesAreListed`
ties the commit to the job's list and `OverdueArePastDue` says that bills on the
lists of jobs are past due, which with the first gives the dates.
`ListedWerePaidToday` says that a paid bill which is still on a list was paid
today, so that its fine is dated no later than its payment; it holds because
lists are made of overdue bills and do not outlive their day.
`PaymentAmountBracket` needs that what a request has loaded was bracketed
(`SnapshotAmountBracket`) and that totals only grow (`TotalGrows`). The proofs are
laid out by variable: lemmas say which actions change the bills, the payments, a
thread, a job or the clock, and how (`BillStep`, `PaymentStep`, `ThreadStep`,
`JobStep`, `ClockStep`).

`LedgerAuditProofs`: `AuditIsComplete` (`AuditAccountsForRows`) counts, with the
library's facts about cardinality, the rows written and the threads that are
about to write one (`Reporters`). A commit adds one thread and writing a row
takes one away, since a list names a row once (`TailLists`). `DailyFineIsApplied`
(`DailyFineApplied`) is about runs that die on the unique key. Its
strengthening `FinesUnderWay` says that while bills are still to be charged, all of
them are on the list of every run under way, and one of the runs survives: a run
can die only on a fine that another one has inserted, and that other one goes on.
It needs the due-date checks of the day to be over, so that no bill is added.

`LedgerSerialProofs`: `SerialInvariant` ([]`SInv`: what is loaded and what is left of
a job's list is current), `PaidBillsHaveReceipts` (`PaidIffReceipt`),
`NoNoticeTwice` (`NoticesAreNotRepeated`), `ClosedBillsAreNotReopened`
(`ClosedBillsStayClosed`), `PaymentOutcomesAreFinal` (`PaymentOutcomeFinal`), and `LedgerKeepsContract`: under
the refinement mapping of `LedgerProperties`, the initial state is one of
`BillContract`, the commit of a handler is the contract's step of that name, and
loads, reports and the steps of the clock change nothing in it.

### The reading cycle

`ReadingProofs`: `CycleInvariant`, `CycleTypes` (`TypeOK`), `BilledPeriodsAreFixed`
(`BilledIsNoDraft`), `DraftsAreLeftForGood` (`DraftNeverReturns`),
`OnlyLateWritesReopen` (`LateWritesOnly`, from what handlers have loaded and from
the column-wise write). `StillTrue` is
what a handler may rely on however old its copy is: an edit wants the status it
has seen, so that the column-wise write leaves the status alone; a move never
goes to DRAFT; a generation run has seen a period that was no draft, which it
cannot become again. Types need two counts, of the readings of a resident and of
periods (`RowsNumbered`), and that submissions do not overlap (`OneSubmission`).

`ReadingSerialProofs`: `SerialCycleInvariant` ([]`CInv`), `ConfirmedReadingsGrow`
(`ConfirmedConsumesGas`), `MissingIsToldOnce` (`MissingToldOnce`), `PeriodsGoForward`
(`PeriodsMoveForward`), `BillsAreTrueToReadings` (`BillsQuoteFinalReadings`), `NobodyIsForgotten`
(`DeadlineAccountsForAll`). Besides the row in hand being the row stored
(`RowInHand`), the invariant records how far the deadline check has come:
`ToldButFor(p, left)` says that exactly those without a final reading have been
told, but for the ones still on the list. Restarts abandon a check in the middle,
and no later one takes the period up, so that nobody is told twice; that is
`QuietWhileEarly`: nobody has been told, and nothing billed, while a period is open.

### Sessions and devices

`SessionProofs`: `InductiveInvariant`, `TypeCorrect`, `GuessesCounted`
(`GuessesAreCounted`), `ResetsEndSessions` (`ResetEndsSessions`), `FormsCostCodes`
(`EveryFormCostsACode`), `SessionsStayEnded` (`EndedSessionsStayEnded`). `CallsHold`
and `DevicesPoint` say that tokens which calls and devices name are rows of the
table, which never shrinks. `Alone` says that without overlap there is one call
at most, from which it follows that what this call has loaded is still true
(`CallsAreFresh`). With it the attempts column equals the history of guesses
(`AttemptsAreGuesses`). `OutdatedAreRevoked` is about resets: a live token of an
earlier password exists only between the two commits of a reset, while the call
that will revoke it is pending. It needs `OwnersAreOnboarded`, since signing up
changes a password too: whoever has tokens has a password, and whoever signs up
has none.

Rotation has an invariant of its own on top of that one, `RotationHolds`
([]`RotationInv`), with `OneTokenPerChain` (`OneTokenPerSession`) and
`DevicesHoldTheLastToken` (`DevicesKeepUp`). Between the commit of the new token
and that of the old one's revocation a session has one live token too many: the
allowance is two then and one otherwise, plus the number of faults, each of which
can strand one rotation. Between the second commit and the arrival of the
answer the device holds a token that has been replaced, and the pair that
mends this is on its way (`PairForDevice`). Two devices never hold the same token,
and nobody holds the new one before it is sent. `StepKinds` sorts the steps into
commits to the tokens, faults, and the rest, which the tokens do not notice.

### Registry and import

`ImportProofs`: `RegistryAndJobTypes` (`TypeOK`, with the unique columns),
`WizardInvariant`, `JobsAreWhole` (`JobsHoldTogether`), `ConfirmationIsWhole`
(`ImportIsWhole`), `FreshImportsFit` (`FreshRowsFit`). Types, `TInv`, hold whatever overlaps, and need
what survives overlap of the verdicts in hand (`Passing`): the rows to be imported
share no house and no mobile number, and those to be updated name houses that
exist, since residents are never deleted. `IInv` adds what holds until calls
overlap (`Fresh`): the snapshot of the registry in the hands of `confirm_import`
is the registry. `ConfirmationIsWhole` and `FreshImportsFit` are about the loop
over the rows, `After`, a recursive function: `WrittenBy` says which residents are
as their rows say after the first `k`, by induction on `k`.

### Photos

`PhotoProofs`: `PipelineInvariant`, `AcceptedReadingsAreSound` (`AcceptedIsSound`),
`ReadingsAreNotMadeUp` (`NothingIsMadeUp`). The invariant ties what the endpoint has
in hand at each stage to the answer for the latest photo.

### Only model-checked

- Liveness (`PastDueIsSettled`, `OverdueIsAnnounced`, `OpenPeriodsClose`,
  `RequestsEnd`): the prover has neither ENABLED nor fairness.
- The four violations: TLC's counterexamples.
- The induction theorems of the library take an operator as a parameter, which no
  installed prover instantiates. Where induction over data was needed (rows of an
  import, rows of a reading) it is by the least element of a set of
  counterexamples (`Least`, `UpTo`), for which well-foundedness of the naturals
  suffices.

## 5. What is not modelled, and the plan

Done: the ledger, the reading cycle, the sessions, the registry with the import
and the photo pipeline, each with its proofs. What would come next is the ledger
started from the bills of the reading cycle, as one instance.

Not modelled, with the reason:

- Image filters (`preprocessing.py`: contrast, glare, alignment) and the hosted
  model: numeric code without state. That they may fail on a photo is
  modelled, and which variants are sent is not: no promise depends on it.
- The dashboard: read-only aggregates.
- The configuration table: one load and one write per request with a check of the
  value's type; the values that matter are constants of the modules.
- `mark_read` of notifications: a timestamp that only the listing reads.
- Schema validation, error bodies and the rate limit of the HTTP layer: the first
  two reject before anything happens, the third counts per process in memory and
  nothing else depends on it.
- Pages and screens other than sign-in: they show what they fetch and
  forward what is entered.
- Streamlit prototype, seeds and migrations: no state beside what they show, or
  run once with nothing beside them.
