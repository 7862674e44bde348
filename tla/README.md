# SchoolPrint: specifications of jobs, queue, prints, storage, updates and accounts

SchoolPrint is a web application with which students upload STL files and a
teacher approves them, queues them and starts them on 3D printers.  The backend
(`src/backend/app`) is a FastAPI application over PostgreSQL; every endpoint is a
synchronous function, served by a pool of threads with a SQLAlchemy session per
request.  The modules here are translated from the code; the documents of the
repository are quoted only where the code does something else than they say.

## 1. Inventory

| Part | State it keeps | Operations | Talks to |
| --- | --- | --- | --- |
| Status machine (`services/job_status.py`) | none | `assert_transition_allowed` | called by every service below, except `sync_job_with_driver`, `pause`, `resume`, `cancel` |
| Job service (`services/job_service.py`, `api/routes/admin_jobs.py`) | `print_jobs` rows | `get_job` (with lazy sync), approve, reject, unapprove | print service |
| Queue (`services/queue_service.py`, `api/routes/admin_queue.py`) | `print_jobs.queue_position` | enqueue, remove, renumber, reorder, move | database only |
| Print service (`services/print_service.py`) | `print_jobs.status`, `printer_id` | start, pause, resume, cancel, sync | drivers, queue |
| Drivers (`printer_drivers/`) | dummy: a dictionary in memory; Bambu: the printer itself, over MQTT and FTPS | upload, start, pause, resume, cancel, status | printers |
| Printer registry (`services/printer_service.py`) | `printers` rows | create, update, delete | jobs, through `printer_id` |
| Slicer (`slicer/`) | files under `sliced/`, `sliced_artifacts` rows | `slice_print_job` | OrcaSlicer subprocess |
| Uploads (`services/upload_service.py`) | files under `uploads/`, `uploaded_files` rows | upload | STL validation |
| Retention (`services/retention_service.py`, `workers/retention_worker.py`) | none of its own | daily run, run on demand, storage overview | files, jobs, audit log |
| Updates (`services/update_service.py`, `deploy/updater/`) | `update_runs` rows | check, install, status | GitHub, updater container, which restarts the backend |
| Accounts (`services/user_service.py`, `api/routes/auth.py`, `core/rate_limit.py`) | `users` rows, signed cookies, attempts in memory | login, logout, create, update, first administrator | every route |
| Frontend (`src/frontend`) | query caches | polls and calls the routes | routes |
| Scripts (`src/scripts`) | backup archives | backup, restore, install, trigger update | database, files |

What is hard here:

* **Interleaving.**  Nothing locks or versions a row.  A handler loads a job,
  checks it, and commits changed attributes later.  `autoflush` is off and the
  isolation level is PostgreSQL's READ COMMITTED, so another request may commit
  between any two statements.
* **Two transactions for one request.**  Removing a job and starting a print
  commit, then renumber.  Slicing commits SLICING, then the result.
* **Effects outside the transaction.**  Printers are commanded, and files are
  written and unlinked, before the commit; an exception or a restart in between
  leaves them apart from the table.
* **Reports without identity.**  A printer reports what it does, not for which
  job, and a Bambu printer acts on a command some time after it was published.
* **Restarts.**  Dummy printers forget everything; so does the rate limiter; the
  updater restarts the very process that waits for it.

What makes each part correct:

* **Queue**: a queued job has a position, positions are distinct and dense, a job
  that was started is not offered again; seen from outside, a list of jobs.
* **Prints**: FINISHED means printed, a final status is final, the table says what
  the printer does, and every print is reported in the end.
* **Retention**: a job that may still be printed keeps its model, a deleted one
  leaves no file, a file is removed only when it is due and counted once, and what
  is due goes in the end.
* **Updates**: a success means that what was built when the install was asked for is
  running, the page offers newer releases only, and every install is answered and
  reported.
* **Accounts**: an edit changes what it asks for, the login limit holds and a lockout
  ends.

Much of what the services do not lock is promised only for want of overlap.  The
modules say how much that is: in `QueueService` the number of workers is a constant,
and what needs one worker is checked and proved for one; in `PrintService` any number
of requests overlap on any printers, and the properties say which jobs do not suffer.

## 2. Plan

In the order of their importance, with what is done of each:

1. `JobStatus`, `PrintQueue`, `QueueService`: the queue, and that it implements the
   abstract list of jobs.  Checked; proved in `QueueProofs` (any number of workers),
   `SerialQueueProofs` and `QueueRefinement` (one worker).
2. `PrinterDrivers`, `PrintBoard`, `PrintService`: a print from start to end, with the
   registry's edits and deletions of printers, and that it implements the abstract
   board of prints.  Checked; safety and the refinement proved in `PrintProofs`.
3. `FileStore`, `Retention`: uploads, slicer output, files on disk and the retention
   runs, and that they implement the abstract store of files.  Checked; safety and the
   refinement proved in `RetentionProofs`.
4. `Updates`: install requests, updater, its script, restart.  Checked; safety and the
   order of releases proved in `UpdatesProofs`.
5. `Accounts`: users, the first administrator, the login limit.  Checked; safety
   proved in `AccountsProofs`.

Left: the queue page of the frontend with its cached list, the storage overview, and
session cookies.

## 3. Modules

**`JobStatus`** is the table `ALLOWED_TRANSITIONS` and its check.

**`PrintQueue`** is the abstract specification of the queue: a list of distinct
jobs.  A job joins at its end, leaves from any place, is taken to be printed once
and for all; a teacher may rearrange the list.  It knows no positions or rows.

**`QueueService`** models job approval, the queue and the queue's part of a start
or a slice at the level of SQL statements.  `rows` is the committed table; each
worker has a program counter `pc`, the `subject` its request names, and `session`,
the identity map of its SQLAlchemy session: a row is loaded once and stays as
loaded until a commit expires it (`Reading`), and a commit updates only attributes
that differ from what was loaded (`Written`, `Commit`).  One action stands for one
SELECT or one commit with the code in front of it:

| Code | Actions |
| --- | --- |
| `get_job` and the handler's checks | `Open` with `Approve`, `Reject`, `Unapprove`, `Sync`, `Slice`, `Enqueue`, `RemoveFromQueue`, `StartPrint`, `Move` |
| `approve_job`, `reject_job`, `unapprove_job`, the commit of a sync or of a slice | `SetStatus` |
| `slice_print_job` | `SliceBegin`, `RunSlicer`, `SetStatus` |
| `enqueue_job` | `EnqueueMax`, `EnqueueCommit` |
| `remove_from_queue`, `start_print` | `RemoveCommit` or `StartCommit`, then `RenumberRead`, `RenumberCommit` |
| `move_job` | `MoveRead` or `MoveNowhere`, then as a reorder |
| `reorder_queue` | `Reorder`, `ReorderRead` or `ReorderRefused`, `ReorderCommit` |
| an exception, a lost connection, a restart | `Abort` |

A request whose first check fails changes nothing and is no step.  The flush in
`log_action` and the commit after it are one step, because nothing is read in
between and nobody else sees flushed rows.

**`PrinterDrivers`** models what is behind `PrinterDriver`: per printer a machine
(status and job), and for a Bambu printer a mailbox of published commands.  A dummy
obeys within the call and refuses a pause or a resume out of turn; a Bambu printer
acts in `Receive`, may never get a command (`Lose`), and may report OFFLINE.  What
the printer itself does is not in the repository and is marked external.

**`PrintService`** composes the drivers with the handlers of `print_service`.  A
request loads its job (`Load`), asks the printer if the job is active (`SyncRead`),
commits what it heard (`SyncCommit`), checks the loaded object and commands the
driver (`Call`, or `Answer` when it changes nothing), and commits (`Finish`, or
`FinishFails` when the printer was deleted).  `DeletePrinter`, `UpdatePrinter` (the
switch of `is_active`), `Abort` and `Restart` may come between any two of these.
`registry` is the table of printers.  Positions are left to `QueueService`.

Nothing in the code asks whether a printer has a job already, keeps two requests about
one job apart, or brings table and printer together again once they have parted.
`astray` is a history variable that no guard reads: the jobs of which

* two requests overlap, one of which commands (`Overlap`);
* a start commands a printer that another job has, by the table or by a request under
  way: that one and all those go astray (`Crossed`);
* a start commands a Bambu printer that still shows an earlier print or has mail
  (`Stale`);
* a request is cut off between the driver call and its commit (`Abort`, `FinishFails`);
* the printer is deleted, or is simulated and forgets the job in a restart.

The properties are about all other jobs, in the same system and at the same time: what
is shown is that the damage stays with those jobs.  What may happen to them is listed
at the end of section 4.

`DeletePrinter` is one step.  `delete_printer` reads the printer's jobs, sets their
`printer_id` to NULL and deletes the row in one transaction.  When a start on the same
printer commits between the reading and the DELETE, the foreign key does object, the
route answers 409 and the whole transaction is rolled back: nothing has changed, and no
step of the model is needed for it.

**`PrintBoard`** is the abstract specification of the prints, for whoever looks at the
jobs: a job waits, has a printer to itself, or is over for good, and is finished only
after it was printed.  A paused job does not end and a job is printed once, on a
printer that obeys at once; a Bambu printer may hear of a pause or a cancel too late.
A job may go astray; nothing is promised of it any more, but that it takes no printer
which another job has to itself (`Wander`).  In `PrintService` the board is the table
itself: the printer acts before the commit, so a job may be printed while the board
still says that it waits.

**`FileStore`** is the abstract specification of the storage: a job gets files until it
falls due, from then on they may be removed one by one, and it is erased for good when
none is left.  It knows no runs, rows or transactions; of the files on disk it sees
those that rows name (`Recorded`).

**`Retention`** models files beside rows.  `disk` changes at once, `rows` at a commit.
An upload writes its file, then commits (`UploadWrite`, `UploadCommit`); a slice
commits SLICING, writes its output, and commits the result with an artifact row
(`SliceStart`, `SliceWrite`, `SliceEnd`).  `run_retention` selects jobs (`Begin`),
and per file looks (`Examine`) and unlinks (`Unlink`, or `Missing` when another run
was faster, which rolls the whole run back); per job it flushes an UPDATE and holds
the row's lock (`Flush`, `Deadlock`); then it commits (`Commit`).  `Die` is an
exception or a restart.

The other services are the single step `Move`.  Their handlers overlap, check an older
row and commit what they decided on: a cancel or a report may turn one end into
another, and a stale start commit may even bring a job that is over back to PRINTING.
So `Move` takes a job to any status they ever commit (`Committed`, of which a run names
a part, `Commits`), with no regard to the table, and any number of slicers may run on
one job (`slicing`), each to end without an effect, in failure or with an artifact.
What is assumed is that no request is as old as the days of retention: a job that is
due (`due`) is loaded by no handler any more and has no slicer running.

**`Updates`** models an install from the click to the restart.  `row` is the table
`update_runs`, `handler` the request in the backend, `script` the run of
`updater-trigger.sh`, `page` what each browser shows, `image` what the next
container would be made of.

| Code | Actions |
| --- | --- |
| `check_for_update`, `_parse_version`, `_is_newer` | `CheckForUpdate` with `Parsed`, `IsNewer` |
| `install_update`, `run_updater` | `Install` (the row is RUNNING), `Post` or `Unreachable`, then `Finish` or `ClientTimeout` |
| `updater-trigger.sh` | `PullEnds`; `UpToDate`, `Recreate` or `RecreateUpdater`; `CommandFails` |
| `updater_service.py` | a thread per request (`Post`), `ScriptTimeout` |
| compose file, nginx, GitHub, the host | `Crash`, `Boot`, `GatewayTimeout`, `Release`, `Rebuild` |

A tag is a sequence of segments, a segment a sequence of digits and other characters,
of which `Number` keeps the digits, as `_parse_version` does.  The compose file builds
the services of this repository and names no image for them, so `PullEnds` brings
nothing; images change when somebody builds them on the host (`Rebuild`), which the
model lets happen at any time.  `ScriptTimeout` kills the shell, answers 124 at once,
and leaves its current command running: it ends, but no other follows (`Killed`,
`GoesOn`).  `Recreate` replaces the backend and every request in it, the one that waits
for this very script included.

**`Accounts`** models the users and the login limit, on one thread pool.  A creation
looks for the name (`CreateUser`) and inserts later (`Insert`, or `InsertFails` by
the unique index); an edit loads (`EditUser`) and writes the columns that differ
(`EditCommit`).  A login passes `check` statement by statement: it reads the clock and
takes the deque (`Attempts`), tests it (`Loop`), compares its oldest hit
(`LookAtOldest`) and drops it (`PopLeft`), tests the length (`Admit` or `Refuse`) and
appends (`Record`).  Two threads that purge at once may drop a hit that is still fresh,
or find the deque empty (`IndexError`, a 500).  Then come `Authenticate` or
`Unauthorized`, and `SignIn`, which drops the deque; an attempt that holds the dropped
one goes on with it unseen (`Detached`).  `Tick` lets time pass, `Boot` adds the first
administrator, `Crash` forgets attempts, `Abort` is an exception.  Attempts are kept for
one client address: different addresses have different deques that do not meet.

**`MCQueueService`**, **`MCPrintService`**, **`MCUpdates`**, **`MCAccounts`** define the
constants of the runs; `Retention` needs none.  Definitions introduced by a comment
"Mutant:" are faulty variants of the one below them; no specification uses them.
They serve to see that a property fails when the code is broken in that way.

## 4. Runs

| Run | Instance | What it shows |
| --- | --- | --- |
| `QueueOneWorker` | 3 jobs, 1 worker, positions up to 4, every request, every reorder list of up to 3 ids, repetitions included | Requests served one at a time, cut off anywhere: positions are distinct, numbering leaves 1..n unless the list repeats an id, started jobs stay out of the queue, changes follow the table, and `PrintQueue` is implemented |
| `QueueTwoWorkers` | 2 jobs, 2 workers, positions up to 2 | Under full interleaving, with objects loaded before, a QUEUED job keeps a position |
| `QueueConcurrentEnqueue` | 2 jobs, 2 workers | Violation: two jobs at one position |
| `QueueApproveQueued` | 2 jobs, 1 worker | Violation: an approved job that can be neither enqueued nor removed |
| `PrintTwoWorkers` | 2 jobs, 1 dummy, 2 workers, every request, deactivation, deletion, aborts, restarts | Of the jobs that have not gone astray only printed ones finish, final is final, table and printer agree, and the table of transitions is followed; `PrintBoard` is implemented throughout |
| `PrintMessages` | 2 jobs, 1 Bambu printer with 1 command under way, 1 worker, no resume, no deletion, aborts, lost commands, fairness | The same for a printer that hears late or never: only printed jobs finish, `PrintBoard` is implemented, and every print settles |
| `Retention` | 2 jobs, moved to PRINTING, FINISHED and REJECTED in any order, the scheduled run and one from the admin page, 1 artifact per job, 1 run cut off, fairness | Jobs that may still be worked on keep their model, deleted jobs leave no file, overlapping runs do not count a file twice, only due files vanish, due jobs are cleaned up in the end, and `FileStore` is implemented |
| `PrintStaleReport` | 2 jobs, 1 Bambu printer, 1 worker, no faults | Violation: the report of the print before ends the next job |
| `PrintDeletedPrinter` | 1 job, 1 dummy, 1 worker | Violation: a printing job loses its printer |
| `Updates` | 1 browser, tags `v1.9`, `1.10.0-rc1` and `1.10.2`, 2 installs, 1 crash, fairness | An install that claims success has left the backend at what was built when it was asked for, whatever overlapped, timed out or failed; the page offers newer releases only; no request waits for ever |
| `UpdatesReported` | the same with 1 install, no crash, fairness | Violation: the restart cuts off the handler and the row stays RUNNING |
| `Accounts` | 2 threads, 2 ids, 2 names, 1 attempt in a window of 1 tick, fairness of time | An edit changes what it asks for, no more is on record than the limit and the other thread's attempt, a lockout ends |

**Bounds.**  `MaxPosition` stops an enqueue beyond a position; it exceeds the
number of jobs by one in `QueueOneWorker` so that the gap a crash leaves before
renumbering can be stepped over.  `MailboxSize` is the number of commands under way
to one printer.  Two workers show every race of two requests; three do not fit
the time of a run, so what needs three requests at once is covered only where a
theorem holds for any number of workers, as all of `PrintProofs` and `QueueProofs` do.
`PrintTwoWorkers` has one printer, because two jobs on different printers meet nowhere;
two jobs on one printer are the least that can be crossed, and a third would only be
one more that is not.  `PrintMessages` has one worker and leaves requests out for its
liveness property; its safety was also checked with every request and fault and two
commands under way (601,573 states), that of `PrintTwoWorkers` with two dummies and one
worker (719,515).  In `Retention`, two jobs and two runs are the least that can
deadlock; `MaxRequests` and `MaxFaults` are one each, so that a run that is cut off can
meet one that goes on.  The three statuses of `Commits` are one in work and the two
that fall due by different rules; with all nine, safety and the refinement were checked
too (572,476 states), the liveness property takes too long then.  With one artifact per
job a second slicer waits for the first one's failure; the theorems hold for any number.
`MaxFaults` also bounds how often a run fails: a file that can never be unlinked and
ends every run is outside.  In `Updates`, two installs are the least that can overlap
or follow each other; the tags have a prefix, a suffix, a missing segment and a segment
of two digits.  In `Accounts`, two ids are the administrator and one user who is
created, two names let one of them be taken, and with a limit of one a second thread
is enough to exceed it.  Jobs and workers are interchangeable, so the queue runs and
`PrintTwoWorkers` use them as a symmetry set: none of their properties is a liveness
property, the mapping to `PrintBoard` makes no choice, and the mapping to `PrintQueue`
does not depend on the one it makes when positions are distinct, which the same run
checks.

**Deadlock** is not checked: the system may rest when every job has reached a final
status.

**Fairness** (`PrintMessages`).  A request that was accepted is carried on: threads
are not starved.  A page with the job is open and polls every two seconds
(`components/PrintJobLiveProgress.tsx`), strongly fair since the one worker may be
busy at times; this is an assumption on the teacher, for nothing else in the code asks
a printer.  Not every poll is cut off and not every report is lost, so that a poll
hears of an end that stays (`Hears`), and commits it (`Notes`), in the long run.  A
printer reads a command that is not lost, and a running print ends.  Nothing is assumed
of faults.

**Fairness** (`Retention`).  The scheduler starts a run every day (at most one at a
time, the default of APScheduler), and a run that was started goes on.  PostgreSQL
hands a row lock to waiting transactions in turn, hence strong fairness of `Flush`:
without it a run that always loses deadlocks could come back for ever before the
other gets its lock.  Nothing is assumed of the admin page, whose requests are
finitely many.

**Fairness** (`Updates`, `UpdatesReported`).  A handler that can go on goes on, each
command of the script comes to its end one way or the other (httpx and the updater
have timeouts, and podman's commands end), and podman restarts a backend that has
stopped (`restart: unless-stopped`).  Nothing is assumed of GitHub or administrators.

**Fairness** (`Accounts`).  Time passes.  Nothing is assumed of clients: a lockout ends
for one that keeps trying, too.

**Violations not kept as runs.**  Each is found by changing a constant or a property
of a run above:

* a stale enqueue puts a printing job back in the queue (`QueueTwoWorkers` with
  `StartedJobsLeftTheQueue`);
* a reorder list that repeats an id leaves a gap, since the job gets the last of its
  places (`NumberingIsDense` without the exception that names such lists);
* a start on a printer that has a job takes the printer: with a dummy, cancel the second
  job and the first stays PRINTING for ever; pause the first, start the second and let
  it end, and the first goes from PAUSED to FINISHED without having been printed
  (`PrintsSettle`, `StatusFollowsTheTable`, `OwnPrintsAreReported`, `JobAndPrinterAgree`
  of all jobs and not only of those that are not `astray`, already with one worker);
* of two requests about one job, a report read earlier overwrites a cancel, and a stale
  start brings a job that is over back to PRINTING (`FinalStatusIsFinal` of all jobs);
* a paused job on a Bambu printer goes to FINISHED or FAILED, which the table forbids
  (`StatusFollowsTheTable` without the exception for `Lan`);
* a cancel whose commit fails leaves the job PRINTING for ever on an idle printer, as
  does a restart, since `sync_job_with_driver` ignores IDLE (`PrintsSettle` of all jobs);
* an install succeeds without bringing the release that the page offered: the compose
  file has `build:` and no `image:` (`compose.yaml:22-24`, `53-55`, `69-72`), so a pull
  brings nothing and `up` finds nothing to do, while `UpdatesPage.tsx:45` says "Update
  installed successfully".  The fault lies with the compose file, so it is stated here
  and is not a run;
* a release candidate hides its own release: `1.10.0-rc1` reads as 1.10.1, so 1.10.0 is
  not offered after it (`Tags` that do not ascend in the sense of `ReleasesAscend`).

## 5. Proofs

Every theorem holds for any values of the constants that satisfy the named
assumptions: any number of jobs, workers, printers, runs, browsers or users, any
bounds, and every fault the module has, unless said otherwise.  Each proof module has
an inductive invariant, one lemma per group of actions, and a last step that
combines them.

**`SetLemmas`**: a finite, or bounded, set of naturals has its `Max` as a member and upper
bound.

**`QueueProofs`**, any number of workers: `TypeCorrectness`, `QueuedJobsStayPositioned`,
both with any interleaving.  `QueuedJobsArePositioned` is not inductive: a commit writes
what a handler checked long before.  `IInv` adds that a handler holds what it checked
(`HandlersHoldWhatTheyChecked`): an enqueue holds an object without position, so the
position it assigns differs from the loaded one and is really written together with
QUEUED; a remove or a start holds an object whose status differs from the one it
assigns, so the status is written whenever the position is cleared; and a numbering
never assigns zero.

**`SerialQueueProofs`**, one worker (`OneWorker`): `SerialPositionsAreDistinct`,
`SerialStatusFollowsTheTable` and `SerialNumberingIsDense`.  The invariant `SInv` says
that the session holds the rows as they are (`Serial`), so that a check is true of the
row until the commit (`RowAllows`), the next position lies behind all others, and the
list a numbering goes through has exactly the jobs of the queue.  A numbering leaves
1..n if that list names no job twice, which is so of every list read from the table
(`OrdersAreOnce`), but not of one that comes with a reorder request.  One worker is not
a convenience of the proof: with two, each of these theorems has a counterexample
(`QueueConcurrentEnqueue`), so they say what crashes between the transactions of a
request do, and not what overlapping requests do.

**`QueueRefinement`**, one worker: `SerialImplementsPrintQueue`.  The mapping takes for the
queue a list of the positioned jobs sorted by position.  Such a list is unique when
positions are distinct (`SInv`), and it exists: a smallest set of jobs that could not be
sorted would have a job of greatest position, to be put behind the others.  Every
commit then keeps positions and start marks, lets one job join, leave or start, or
numbers the positioned jobs anew, and each is a step of `PrintQueue` or leaves the list
alone.

**`PrintProofs`**, any number of jobs, workers and printers of either kind, every
request and every fault: `TypeCorrectness`, `FinishedWasPrinted`, `TableTellsTheTruth`,
`FinalStatusStays`, `ReportsFollowTheTable` and `PrintServiceImplementsPrintBoard`.
None of them assumes anything of who starts what where.  The invariant is `Base`, of
all machines and requests, and `InOrder` of each job that has not gone astray: a request
that commands is the only one about it (`AloneWith`) and knows the row as it is
(`Current`), a poll has missed nothing but other polls (`Polled`); the printer that has
the job has no other (`HasToItself`), works on nothing else and has no other mail
(`Delivered`), so that a report is of this job and is still true when it is committed
(`Heard`); a simulated printer does what the table, or the request about to commit, says
of it (`Followed`, `Obeyed`), and works on the job only as long as one of them says so
(`NotForgotten`); and no other printer ever heard of it (`KnownAtHome`).  A step about
another job keeps all this since it cannot touch the printer without sending the job
astray, which is what the conditions of section 3 amount to.  The refinement maps a step
about a job astray to `Wander` or `GoAstray`, for which `HasToItself` of the *other*
jobs is needed.

**`RetentionProofs`**: `TypeCorrectness`, `ModelsAreKept`, `NothingIsLeft`, `FreedOnce`,
`OnlyDueFilesAreRemoved` and `ImplementsTheStore`, for any number of overlapping runs,
slicers and artifacts, and whatever order of statuses the other services commit.  All
rests on a job being due for good: `Selections` (a selection made long ago is still
sound, since a due job never comes back and gets no new file), `Unlinking`, `Flushed` (a
job whose UPDATE is flushed has no file left), `FreedForGood` (a file that was counted
never comes back), `Slicers` (a slicer has room for its artifact, and its job is neither
due nor removed), `ModelsStay` (whatever may still become of a job, its model is there)
and `RowsAreReal` (what is due is over).  Every step is then one of the store: a step
of a job names at most one file more (`RowStores`, `WriteStores`), an unlink removes a
file of a due job, and a commit erases jobs that have no named file left.
`DeletedJobsLeaveNoFiles` speaks of the files that rows name: the output of a failed
slice that got no artifact row, and `slicer.log`, are outside.

**`UpdatesProofs`**: `TypeCorrectness`; `SuccessIsInstalled`, with no assumption on who
overlaps whom.  `IInv` has `Phases` (how handler, row and script go together, exit code
zero being that of a script that ran all its commands) and `Kept` (what runs was built,
what was built when an install was asked for is still there, and if the install
succeeded, it runs).  `OffersComeAfter` rests on the
order of releases: `_is_newer` is decided by the first number that differs
(`NewerByFirst`), hence asymmetric, transitive and total (`NewerIsTransitive` and its
neighbours), so that if every release counts up one of the three numbers (`ReleasesAscend`,
which the assumption `InstanceAscends` of `MCUpdates` checks for its tags) it is newer than
all before (`LaterIsNewer`, by the first counterexample there could be).

**`AccountsProofs`**: `TypeCorrectness`, `EditsKeepToTheRequest`, and `LimitHolds`, whose
invariant counts attempts on record and on their way together: only what was let in
below the limit is added, a purge takes some away, and what a reset orphans is never
added.

Only model-checked: every liveness property
(`PrintsSettle`, `DueJobsAreCleaned`, `UpdatesSettle`, `LockoutEnds`), which this prover
does not treat, and `StartedJobsLeftTheQueue`, which holds for one worker only, is
part of `SInv` in a stronger form, and says little of the threads that really serve.
Every other safety property of a passing run is stated by a theorem.

## 6. Not modelled

* Jobs and prints: notes, timestamps and metadata of jobs; FTPS upload, temperatures,
  progress and the connection test of a printer; creation of printers.
* Uploads and slices: STL validation and the G-code metadata, which no later decision
  depends on; file sizes with the storage overview that adds them up.
* Retention: editing the retention days (a job is due or is not; raising the days does
  not undo that), and the pages that list runs.
* Accounts: passwords, signed session cookies and CSRF tokens, which are functions of
  one request; more than one client address (behind the proxy all browsers may share
  one, which makes the single deque the interesting case).  Nothing in the code keeps a
  last administrator, and nothing promises it.
* The audit log, which is only appended to and never read by the code, and system
  status, which reads counters.
* The frontend beyond the button of the updates page and the polling named above; the
  scripts for backup, restore and installation, which are run by hand.
