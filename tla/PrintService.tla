----------------------------- MODULE PrintService -----------------------------
(***************************************************************************)
(* Starting, pausing, resuming and cancelling a print, and reconciling the *)
(* job with its printer.  Every request loads the job; when that job is    *)
(* printing or paused the load asks the printer first and may commit what  *)
(* it hears.  Then the handler checks the loaded object, commands the      *)
(* driver, and only afterwards commits the new status: three places where  *)
(* another request, an exception or a restart may come in between.         *)
(*                                                                         *)
(* Nothing in the code asks whether a printer has a job already, or keeps  *)
(* two requests about one job apart.  astray is a history variable: the    *)
(* jobs whose row and printer something of that kind may have parted.  No  *)
(* guard reads it; the properties say what holds of all other jobs.        *)
(*                                                                         *)
(* Jobs are in the queue at the start; QueueService models how they come   *)
(* there, and what a start does to positions.                              *)
(***************************************************************************)
EXTENDS PrinterDrivers, JobStatus, FiniteSets

CONSTANTS Workers,    \* the threads that serve requests
          Requests,   \* the kinds of request the clients send
          Faults,     \* subset of {"abort", "restart", "lose"}
          NoPrinter   \* printer_id IS NULL

ASSUME NoPrinterAssumption == NoPrinter \notin Printers

VARIABLES rows,      \* the committed table print_jobs
          registry,  \* the committed table printers
          worker,    \* per worker, the request it serves
          astray     \* history: the jobs something has come between

vars == <<rows, registry, worker, astray, machine, mailbox, printed>>

\* What a handler leaves alone.
tables == <<registry, astray>>

-----------------------------------------------------------------------------

Active == {"PRINTING", "PAUSED"}

Final == {"FINISHED", "FAILED", "CANCELLED"}

Row == [status: {"QUEUED"} \cup Active \cup Final, printer: Printers \cup {NoPrinter}]

Handlers == {"poll", "start", "pause", "resume", "cancel"}

\* loaded is the job as the session holds it, printer the one a start names.
Serving == [at: {"sync", "syncCommit", "handle", "commit"}, op: Handlers, job: Jobs,
            loaded: Row, printer: Printers \cup {NoPrinter},
            answer: Answers]

Resting == [at |-> "idle"]

Rests(w) == worker' = [worker EXCEPT ![w] = Resting]

Init == /\ rows = [j \in Jobs |-> [status |-> "QUEUED", printer |-> NoPrinter]]
        /\ registry = [p \in Printers |-> "ACTIVE"]
        /\ worker = [w \in Workers |-> Resting]
        /\ astray = {}
        /\ DriversInit

-----------------------------------------------------------------------------
(* What may part a job from its printer.                                   *)

OnPrinter(row, p) == row.status \in Active /\ row.printer = p

\* The request found its job on printer p, may put it back there (only the status
\* is written), or has just started it there.
Holds(request, p) ==
  \/ /\ request.loaded.status \in Active
     /\ p \in {request.loaded.printer, rows[request.job].printer}
  \/ request.at = "commit" /\ request.printer = p

\* The jobs that printer p has, by the table or by a request under way.
On(p) == {j \in Jobs : \/ OnPrinter(rows[j], p)
                       \/ \E w \in Workers : /\ worker[w] # Resting
                                             /\ worker[w].job = j
                                             /\ Holds(worker[w], p)}

\* A request of w meets another about the same job, and one of them commands.
Overlap(w, op, j) == \E x \in Workers \ {w} : /\ worker[x] # Resting
                                              /\ worker[x].job = j
                                              /\ op # "poll" \/ worker[x].op # "poll"

\* A Bambu printer in this state may still report, or act on, what was before.
Stale(p) == p \in Lan /\ (machine[p] # Idle \/ mailbox[p] # <<>>)

Stray(jobs) == astray' = astray \cup jobs

-----------------------------------------------------------------------------
\* get_job: the sync is skipped for a job that is not active or whose
\* printer is gone.
Asks(row) == row.status \in Active /\ row.printer # NoPrinter

Load(w, op, j, p) ==
  /\ op \in Requests
  /\ worker[w] = Resting
  /\ worker' = [worker EXCEPT ![w] =
       [at      |-> IF Asks(rows[j]) THEN "sync" ELSE "handle",
        op      |-> op,
        job     |-> j,
        loaded  |-> rows[j],
        printer |-> p,
        answer  |-> "IDLE"]]
  /\ Stray(IF Overlap(w, op, j) THEN {j} ELSE {})
  /\ UNCHANGED <<rows, registry, driverVars>>

\* A poll that has nobody to ask only reads, and is no step.
Poll(w, j) == Asks(rows[j]) /\ Load(w, "poll", j, NoPrinter)

Start(w, j, p) == /\ registry[p] = "ACTIVE"
                  /\ rows[j].status = "QUEUED"
                  /\ Load(w, "start", j, p)

Steer(w, j) == /\ rows[j].status \in Active
               /\ \E op \in {"pause", "resume", "cancel"} : Load(w, op, j, NoPrinter)

\* The sync is over: a poll is answered, any other request handled.
Synced(request) == IF request.op = "poll" THEN Resting
                   ELSE [request EXCEPT !.at = "handle", !.answer = "IDLE"]

\* Mutant: a deactivated printer is not asked.
SyncReadActiveOnly(w) ==
  /\ worker[w].at = "sync"
  /\ \E report \in Reports(worker[w].loaded.printer) :
       worker' = [worker EXCEPT ![w] =
         IF /\ report \in {"FINISHED", "ERROR"}
            /\ registry[@.loaded.printer] = "ACTIVE"
         THEN [@ EXCEPT !.at = "syncCommit", !.answer = report]
         ELSE Synced(@)]
  /\ UNCHANGED <<rows, tables, driverVars>>

\* sync_job_with_driver reads the report ...
SyncRead(w) ==
  /\ worker[w].at = "sync"
  /\ \E report \in Reports(worker[w].loaded.printer) :
       worker' = [worker EXCEPT ![w] =
         IF report \in {"FINISHED", "ERROR"}
         THEN [@ EXCEPT !.at = "syncCommit", !.answer = report]
         ELSE Synced(@)]
  /\ UNCHANGED <<rows, tables, driverVars>>

\* Mutant: the handler goes on with the object as it was before the sync.
SyncCommitUnrefreshed(w) ==
  /\ worker[w].at = "syncCommit"
  /\ rows' = [rows EXCEPT ![worker[w].job].status = IF worker[w].answer = "FINISHED"
                                                    THEN "FINISHED" ELSE "FAILED"]
  /\ worker' = [worker EXCEPT ![w] = Synced(@)]
  /\ UNCHANGED <<tables, driverVars>>

\* ... and commits it, whatever the row says by now; the object is refreshed.
SyncCommit(w) ==
  /\ worker[w].at = "syncCommit"
  /\ LET j == worker[w].job
         row == [rows[j] EXCEPT !.status = IF worker[w].answer = "FINISHED"
                                           THEN "FINISHED" ELSE "FAILED"] IN
       /\ rows' = [rows EXCEPT ![j] = row]
       /\ worker' = [worker EXCEPT ![w] = Synced([@ EXCEPT !.loaded = row])]
  /\ UNCHANGED <<tables, driverVars>>

-----------------------------------------------------------------------------
\* The check of the handler, on the loaded object.
Admits(op, loaded) ==
  \/ op = "start" /\ Allowed(loaded.status, "READY_TO_PRINT")
  \/ op = "pause" /\ loaded.status = "PRINTING" /\ loaded.printer # NoPrinter
  \/ op = "resume" /\ loaded.status = "PAUSED" /\ loaded.printer # NoPrinter
  \/ op = "cancel" /\ loaded.status \in Active /\ loaded.printer # NoPrinter

Destination(w) == IF worker[w].op = "start" THEN worker[w].printer
                                            ELSE worker[w].loaded.printer

Order(w) == [verb |-> worker[w].op, job |-> worker[w].job]

\* A start that finds jobs on its printer crosses them, and itself.
Crossed(w) ==
  LET j == worker[w].job
      others == On(worker[w].printer) \ {j} IN
  IF others # {} \/ Stale(worker[w].printer) THEN {j} \cup others ELSE {}

Call(w) ==
  /\ worker[w].at = "handle"
  /\ Admits(worker[w].op, worker[w].loaded)
  /\ Command(Destination(w), Order(w))
  /\ worker' = [worker EXCEPT ![w].at = "commit"]
  /\ Stray(IF worker[w].op = "start" THEN Crossed(w) ELSE {})
  /\ UNCHANGED <<rows, registry>>

\* Answered without a change: 409, or a driver that raised.
Answer(w) ==
  /\ worker[w].at = "handle"
  /\ Admits(worker[w].op, worker[w].loaded) => Refuses(Destination(w), Order(w))
  /\ Rests(w)
  /\ UNCHANGED <<rows, tables, driverVars>>

\* Mutant: the status that is only passed through is the one committed.
OutcomeReady == [start |-> "READY_TO_PRINT", pause |-> "PAUSED", resume |-> "PRINTING",
                 cancel |-> "CANCELLED"]

\* Mutant: a cancelled print counts as a failed one.
OutcomeFailed == [start |-> "PRINTING", pause |-> "PAUSED", resume |-> "PRINTING",
                  cancel |-> "FAILED"]

Outcome == [start |-> "PRINTING", pause |-> "PAUSED", resume |-> "PRINTING",
            cancel |-> "CANCELLED"]

\* Mutant: the job does not remember its printer.
FinishWithoutPrinter(w) ==
  /\ worker[w].at = "commit"
  /\ worker[w].op = "start" => registry[worker[w].printer] # "DELETED"
  /\ rows' = [rows EXCEPT ![worker[w].job].status = Outcome[worker[w].op]]
  /\ Rests(w)
  /\ UNCHANGED <<tables, driverVars>>

Finish(w) ==
  /\ worker[w].at = "commit"
  /\ worker[w].op = "start" => registry[worker[w].printer] # "DELETED"
  /\ rows' = [rows EXCEPT ![worker[w].job] =
       [status  |-> Outcome[worker[w].op],
        printer |-> IF worker[w].op = "start" THEN worker[w].printer ELSE @.printer]]
  /\ Rests(w)
  /\ UNCHANGED <<tables, driverVars>>

\* printer_id is a foreign key: the commit of a start fails when the printer
\* is gone, though the driver has started it already.
FinishFails(w) ==
  /\ worker[w].at = "commit"
  /\ worker[w].op = "start" /\ registry[worker[w].printer] = "DELETED"
  /\ Rests(w)
  /\ Stray({worker[w].job})
  /\ UNCHANGED <<rows, registry, driverVars>>

-----------------------------------------------------------------------------
\* delete_printer: the session nulls printer_id of the printer's jobs before
\* it deletes the row, so the foreign key does not object.  It does when a
\* start on p commits between the two: then nothing of this is committed.
DeletePrinter(p) ==
  /\ "delete" \in Requests
  /\ registry[p] # "DELETED"
  /\ registry' = [registry EXCEPT ![p] = "DELETED"]
  /\ Stray(On(p))
  /\ rows' = [j \in Jobs |-> IF rows[j].printer = p
                             THEN [rows[j] EXCEPT !.printer = NoPrinter] ELSE rows[j]]
  /\ UNCHANGED <<worker, driverVars>>

\* update_printer writes is_active, whatever the printer does at the time.
UpdatePrinter(p) ==
  /\ "update" \in Requests
  /\ registry[p] # "DELETED"
  /\ registry' = [registry EXCEPT ![p] = IF @ = "ACTIVE" THEN "INACTIVE" ELSE "ACTIVE"]
  /\ UNCHANGED <<rows, worker, astray, driverVars>>

\* An exception on the way (printer offline, connection to the database lost).
Abort(w) == /\ "abort" \in Faults
            /\ worker[w] # Resting
            /\ Rests(w)
            /\ Stray(IF worker[w].at = "commit" THEN {worker[w].job} ELSE {})
            /\ UNCHANGED <<rows, registry, driverVars>>

\* The backend process is restarted.
Restart == /\ "restart" \in Faults
           /\ worker' = [w \in Workers |-> Resting]
           /\ ForgetDummies
           /\ Stray({j \in Jobs : \/ rows[j].status \in Active /\ rows[j].printer \notin Lan
                                 \/ \E w \in Workers : /\ worker[w].at = "commit"
                                                       /\ worker[w].job = j})
           /\ UNCHANGED <<rows, registry>>

Proceed(w) == \/ SyncRead(w)
              \/ SyncCommit(w)
              \/ Call(w)
              \/ Answer(w)
              \/ Finish(w)
              \/ FinishFails(w)

Arrive(w) == \E j \in Jobs : \/ Poll(w, j)
                             \/ Steer(w, j)
                             \/ \E p \in Printers : Start(w, j, p)

Outside(A) == A /\ UNCHANGED <<rows, worker, tables>>

Environment(p) == \/ Outside(Receive(p))
                  \/ Outside(PrintEnds(p))
                  \/ Outside(PrintFails(p))
                  \/ "lose" \in Faults /\ Outside(Lose(p))

Next == \/ \E w \in Workers : Arrive(w) \/ Proceed(w) \/ Abort(w)
        \/ \E p \in Printers : DeletePrinter(p) \/ UpdatePrinter(p) \/ Environment(p)
        \/ Restart

Spec == Init /\ [][Next]_vars

\* What ends the print of j in the table: a report that it is over is read ...
Hears(w, j) == SyncRead(w) /\ worker[w].job = j /\ worker'[w].at = "syncCommit"

\* ... and committed.
Notes(w, j) == SyncCommit(w) /\ worker[w].job = j

\* A request that was accepted is carried on.  A page that shows the job polls
\* every two seconds, not every one of its polls is cut off, and not every
\* report of a printer is lost.  A print that runs comes to its end, and a
\* Bambu printer reads its mail.
Fairness ==
  /\ \A w \in Workers : WF_vars(Proceed(w))
  /\ \A j \in Jobs : /\ SF_vars(\E w \in Workers : Poll(w, j))
                     /\ SF_vars(\E w \in Workers : Hears(w, j))
                     /\ SF_vars(\E w \in Workers : Notes(w, j))
  /\ \A p \in Printers : /\ WF_vars(Outside(PrintEnds(p)))
                         /\ WF_vars(Outside(Receive(p)))

FairSpec == Spec /\ Fairness

-----------------------------------------------------------------------------
(* Properties.                                                             *)

\* Every variable has its type.
TypeOK == /\ rows \in [Jobs -> Row]
          /\ registry \in [Printers -> {"ACTIVE", "INACTIVE", "DELETED"}]
          /\ astray \subseteq Jobs
          /\ worker \in [Workers -> Serving \cup {Resting}]
          /\ DriversTypeOK

\* A final status is never revised: what the student and retention_service
\* act on (deletion of the file) does not change behind their backs.
FinalStatusIsFinal ==
  [][\A j \in Jobs \ astray :
       rows[j].status \in Final => rows'[j].status = rows[j].status]_vars

\* A job is reported FINISHED only after its own print has come to its end
\* (docs/bambu-a1-mini.md, "The job shows FINISHED after the print completes").
FinishedJobsWerePrinted ==
  \A j \in Jobs : rows[j].status = "FINISHED" => j \in printed

\* No request that overlaps another, is cut off, or starts a print on a printer
\* that has one, makes any other job be reported FINISHED that was not printed.
OwnPrintsAreReported ==
  \A j \in Jobs \ astray : rows[j].status = "FINISHED" => j \in printed

Follows(j, m) == /\ m.job = j
                 /\ rows[j].status = "PRINTING" => m.status \in {"PRINTING", "FINISHED"}
                 /\ rows[j].status = "PAUSED" => m.status = "PAUSED"

Commanded(j) == \E w \in Workers : worker[w].at = "commit" /\ worker[w].job = j

\* But for the moment between a driver call and its commit, the table tells the
\* truth about simulated printers: an active job is the one its printer works
\* on, and a paused job is paused there, whatever befalls other jobs.
JobAndPrinterAgree ==
  \A j \in Jobs \ astray :
    /\ rows[j].status \in Active
    /\ rows[j].printer \notin Lan
    /\ ~Commanded(j)
    => rows[j].printer \in Printers /\ Follows(j, machine[rows[j].printer])

\* A job that is printing or paused has a printer to ask, to pause and to
\* cancel (delete_printer answers "Printer cannot be deleted while print
\* jobs reference it").
ActiveJobsHaveAPrinter ==
  \A j \in Jobs : rows[j].status \in Active => rows[j].printer # NoPrinter

\* sync_job_with_driver asks no table and yet moves a job on a simulated
\* printer only along it, like every other code path (READY_TO_PRINT is passed
\* through within a start).
StatusFollowsTheTable ==
  [][\A j \in Jobs \ astray :
       \/ rows'[j].status = rows[j].status
       \/ rows[j].printer \in Lan
       \/ Allowed(rows[j].status, rows'[j].status)
       \/ rows[j].status = "QUEUED" /\ rows'[j].status = "PRINTING"]_vars

\* A Bambu printer that does not do what the table says of j, and is not going to.
OutOfStep(j) == LET p == rows[j].printer IN
  /\ p \in Lan
  /\ mailbox[p] = <<>>
  /\ machine[p] \notin [status: {"PRINTING", "FINISHED", "ERROR"}, job: {j}]

\* A job that prints is eventually reported as ended, unless it is paused or its
\* printer missed a command: no print stays PRINTING on the queue page for ever,
\* not even when its printer was deactivated, or another job went astray.
PrintsSettle ==
  \A j \in Jobs :
    rows[j].status = "PRINTING"
      ~> \/ rows[j].status \in Final \cup {"PAUSED"}
         \/ j \in astray
         \/ OutOfStep(j)

Board == INSTANCE PrintBoard WITH board <- rows, Remote <- Lan

\* Behind requests, drivers and printers there is a board of jobs: no job that
\* has not gone astray shares its printer with any other, is revived when it is
\* over, finished before it was printed, or printed twice.
ImplementsPrintBoard == Board!Spec
=============================================================================
