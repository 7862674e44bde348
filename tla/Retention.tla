------------------------------- MODULE Retention -------------------------------
(***************************************************************************)
(* The files of print jobs: the model an upload writes, the G-code the     *)
(* slicer writes, and the retention runs that remove both once a job has   *)
(* been over for long enough.                                              *)
(*                                                                         *)
(* Files change at once, rows when a transaction commits.  A run works its *)
(* way through the jobs it selected, unlinks their files one after the     *)
(* other, flushes an UPDATE per job (which locks the row until the end of  *)
(* the transaction) and commits once at the end.  The scheduled run and a  *)
(* run from the admin page may overlap.                                    *)
(*                                                                         *)
(* The other services appear as single commits (PrintService and           *)
(* QueueService model them in detail).  Handlers overlap and commit        *)
(* what they decided on an older row, so that a job that has just finished *)
(* may be printing again, or a second slicer may run on one job: nothing   *)
(* is assumed of the order of statuses but that no request or slicer runs  *)
(* for as long as the days after which a job is due.                       *)
(***************************************************************************)
EXTENDS Naturals, Sequences, FiniteSets, SequencesExt, JobStatus

CONSTANTS Jobs,          \* the print jobs
          Runs,          \* threads that may execute run_retention
          Scheduled,     \* the one of APScheduler
          Commits,       \* bound: the statuses other services commit here
          MaxArtifacts,  \* bound: artifacts of one job
          MaxRequests,   \* bound: runs from the admin page
          MaxFaults      \* bound: runs cut off by an exception or a restart

\* What approval, queue, printer and sync commit: start_print passes
\* READY_TO_PRINT within one transaction, and nothing ever sets EXPIRED.
Committed == {"SUBMITTED", "APPROVED", "REJECTED", "QUEUED", "PRINTING", "PAUSED",
              "FINISHED", "FAILED", "CANCELLED"}

ASSUME JobsAssumption == IsFiniteSet(Jobs)
ASSUME RunsAssumption == Scheduled \in Runs
ASSUME CommitsAssumption == Commits \subseteq Committed
ASSUME RetentionBounds == {MaxArtifacts, MaxRequests, MaxFaults} \subseteq Nat

VARIABLES rows,      \* print_jobs with the uploaded_files and artifacts of each
          disk,      \* the files under storage_root
          slicing,   \* per job, the slicers that run on it
          run,       \* per thread, the run it executes
          requests,  \* the runs the admin page has asked for
          faults     \* the runs cut off so far

vars == <<rows, disk, slicing, run, requests, faults>>

-----------------------------------------------------------------------------

Stl(j) == [kind |-> "stl", job |-> j]

\* Every slice of a job writes the same path.
Gcode(j) == [kind |-> "gcode", job |-> j]

Files == [kind: {"stl", "gcode"}, job: Jobs]

\* NONE: no such row yet.  gone: deleted_at is set.  artifacts: how many
\* SlicedArtifact rows.  due: the timestamp of the status is before the cutoff.
Row == [status: Statuses \cup {"NONE"}, gone: BOOLEAN,
        artifacts: 0..MaxArtifacts, due: BOOLEAN]

\* The statuses whose files are removed, numbered in the order of the
\* queries.
RetentionRules == [FINISHED |-> 1, FAILED |-> 2, REJECTED |-> 3]

\* held: jobs whose UPDATE is flushed; freed: the files it unlinked.
Run == [at: {"idle", "files", "unlink"},
        todo: Seq([job: Jobs, files: Seq(Files)]),
        held: SUBSET Jobs, freed: SUBSET Files]

NoRun == [at |-> "idle", todo |-> <<>>, held |-> {}, freed |-> {}]

Init == /\ rows = [j \in Jobs |-> [status |-> "NONE", gone |-> FALSE,
                                   artifacts |-> 0, due |-> FALSE]]
        /\ disk = {}
        /\ slicing = [j \in Jobs |-> 0]
        /\ run = [r \in Runs |-> NoRun]
        /\ requests = 0
        /\ faults = 0

SetStatus(j, status) ==
  rows' = [rows EXCEPT ![j].status = status, ![j].due = FALSE]

\* A request that has loaded the job may still commit, whatever the others
\* have made of the row meanwhile; no request is as old as a job that is due.
InUse(j) == rows[j].status \notin {"NONE", "DELETED"} /\ ~rows[j].due

-----------------------------------------------------------------------------
(* create_upload_and_job: an upload cut off between the two steps leaves a *)
(* file that no row names, here the one its next attempt writes again.     *)

UploadWrite(j) == /\ rows[j].status = "NONE"
                  /\ disk' = disk \cup {Stl(j)}
                  /\ UNCHANGED <<rows, slicing, run, requests, faults>>

\* Mutant: the rows are committed before the file is written.
UploadCommitFirst(j) == /\ rows[j].status = "NONE"
                        /\ SetStatus(j, "SUBMITTED")
                        /\ UNCHANGED <<disk, slicing, run, requests, faults>>

UploadCommit(j) == /\ rows[j].status = "NONE"
                   /\ Stl(j) \in disk
                   /\ SetStatus(j, "SUBMITTED")
                   /\ UNCHANGED <<disk, slicing, run, requests, faults>>

-----------------------------------------------------------------------------
(* slice_print_job: the status check and the commit of SLICING come before *)
(* OrcaSlicer, which may fail or time out before or after it has written.  *)

SliceStart(j) == /\ InUse(j)
                 /\ rows[j].artifacts + slicing[j] < MaxArtifacts
                 /\ SetStatus(j, "SLICING")
                 /\ slicing' = [slicing EXCEPT ![j] = @ + 1]
                 /\ UNCHANGED <<disk, run, requests, faults>>

SliceWrite(j) == /\ slicing[j] > 0
                 /\ Stl(j) \in disk
                 /\ disk' = disk \cup {Gcode(j)}
                 /\ UNCHANGED <<rows, slicing, run, requests, faults>>

\* Exit code 0 is success, whatever has been written; a restart cuts the
\* request off and leaves the row as it is.
SliceEnd(j) == /\ slicing[j] > 0
               /\ slicing' = [slicing EXCEPT ![j] = @ - 1]
               /\ \/ SetStatus(j, "FAILED")
                  \/ rows' = [rows EXCEPT ![j].status = "SLICED",
                                          ![j].artifacts = @ + 1]
                  \/ rows' = rows
               /\ UNCHANGED <<disk, run, requests, faults>>

\* Mutant: a failed job may be approved once more, however old.
MoveRetry(j) == /\ \/ InUse(j) /\ \E status \in Commits : SetStatus(j, status)
                   \/ rows[j].status = "FAILED" /\ SetStatus(j, "APPROVED")
                /\ UNCHANGED <<disk, slicing, run, requests, faults>>

\* Approval, queue and prints.
Move(j) == /\ InUse(j)
           /\ \E status \in Commits : SetStatus(j, status)
           /\ UNCHANGED <<disk, slicing, run, requests, faults>>

\* Days go by, and slicer_timeout_seconds before them.
Age(j) == /\ rows[j].status \in DOMAIN RetentionRules
          /\ slicing[j] = 0
          /\ rows' = [rows EXCEPT ![j].due = TRUE]
          /\ UNCHANGED <<disk, slicing, run, requests, faults>>

-----------------------------------------------------------------------------
(* find_retention_candidates                                               *)

\* Mutant: only jobs whose model is still there.
CandidatesWithModel == {j \in Jobs : /\ rows[j].status \in DOMAIN RetentionRules
                                     /\ rows[j].due
                                     /\ Stl(j) \in disk}

\* Mutant: the age is not compared with the cutoff.
CandidatesOfAnyAge == {j \in Jobs : rows[j].status \in DOMAIN RetentionRules}

Candidates == {j \in Jobs : rows[j].status \in DOMAIN RetentionRules /\ rows[j].due}

\* One query per status, each in whatever order the database returns.
SelectionOrders ==
  {q \in SetToSeqs(Candidates) : \A i, k \in DOMAIN q :
     i < k => RetentionRules[rows[q[i]].status]
                <= RetentionRules[rows[q[k]].status]}

\* Mutant: the model only.
ModelOf(j) == IF rows[j].gone THEN <<>> ELSE <<Stl(j)>>

\* The paths of a job in the order run_retention deletes them: one for the
\* model unless deleted_at is set, one per artifact row.
FilesOf(j) == (IF rows[j].gone THEN <<>> ELSE <<Stl(j)>>)
              \o [i \in 1..rows[j].artifacts |-> Gcode(j)]

-----------------------------------------------------------------------------
(* run_retention                                                           *)

\* A run that selects no job writes its log entry only and is no step.
Begin(r) ==
  /\ run[r] = NoRun
  /\ Candidates # {}
  /\ \/ r = Scheduled /\ UNCHANGED requests
     \/ /\ r # Scheduled
        /\ requests < MaxRequests
        /\ requests' = requests + 1
  /\ \E q \in SelectionOrders :
       run' = [run EXCEPT ![r] =
                 [NoRun EXCEPT !.at = "files",
                               !.todo = [i \in DOMAIN q |->
                                           [job |-> q[i], files |-> FilesOf(q[i])]]]]
  /\ UNCHANGED <<rows, disk, slicing, faults>>

Current(r) == Head(run[r].todo)

\* The rest of its work once the first file of the current job is done with.
NextFile(r) == [run[r].todo EXCEPT ![1].files = Tail(@)]

\* _delete_file_if_exists: a look whether the file exists ...
Examine(r) ==
  /\ run[r].at = "files"
  /\ run[r].todo # <<>>
  /\ Current(r).files # <<>>
  /\ run' = IF Head(Current(r).files) \in disk
            THEN [run EXCEPT ![r].at = "unlink"]
            ELSE [run EXCEPT ![r].todo = NextFile(r)]
  /\ UNCHANGED <<rows, disk, slicing, requests, faults>>

\* Mutant: a file that has vanished in between is no error.
UnlinkMissingOk(r) ==
  /\ run[r].at = "unlink"
  /\ disk' = disk \ {Head(Current(r).files)}
  /\ run' = [run EXCEPT ![r].at = "files", ![r].todo = NextFile(r),
                        ![r].freed = @ \cup {Head(Current(r).files)}]
  /\ UNCHANGED <<rows, slicing, requests, faults>>

\* ... and then stat and unlink ...
Unlink(r) ==
  /\ run[r].at = "unlink"
  /\ Head(Current(r).files) \in disk
  /\ disk' = disk \ {Head(Current(r).files)}
  /\ run' = [run EXCEPT ![r].at = "files", ![r].todo = NextFile(r),
                        ![r].freed = @ \cup {Head(Current(r).files)}]
  /\ UNCHANGED <<rows, slicing, requests, faults>>

GiveUp(r) == run' = [run EXCEPT ![r] = NoRun]

\* ... which raise when another run was faster.
Missing(r) ==
  /\ run[r].at = "unlink"
  /\ Head(Current(r).files) \notin disk
  /\ GiveUp(r)
  /\ UNCHANGED <<rows, disk, slicing, requests, faults>>

JobDone(r) == run[r].at = "files" /\ run[r].todo # <<>> /\ Current(r).files = <<>>

Waits(r, s) == r # s /\ JobDone(r) /\ Current(r).job \in run[s].held

\* log_action flushes the UPDATE of the job and takes the lock of its row.
Flush(r) ==
  /\ JobDone(r)
  /\ \A s \in Runs : ~Waits(r, s)
  /\ run' = [run EXCEPT ![r].held = @ \cup {Current(r).job}, ![r].todo = Tail(@)]
  /\ UNCHANGED <<rows, disk, slicing, requests, faults>>

\* PostgreSQL ends one of two transactions that wait for each other.
Deadlock(r) ==
  /\ \E s \in Runs : Waits(r, s) /\ Waits(s, r)
  /\ GiveUp(r)
  /\ UNCHANGED <<rows, disk, slicing, requests, faults>>

\* Mutant: a status the enumeration does not have.
CommitMisspelt(r) ==
  /\ run[r].at = "files"
  /\ run[r].todo = <<>>
  /\ rows' = [j \in Jobs |-> IF j \in run[r].held
                             THEN [rows[j] EXCEPT !.status = "REMOVED", !.gone = TRUE]
                             ELSE rows[j]]
  /\ GiveUp(r)
  /\ UNCHANGED <<disk, slicing, requests, faults>>

\* The jobs become DELETED; the log entries say what was freed.
Commit(r) ==
  /\ run[r].at = "files"
  /\ run[r].todo = <<>>
  /\ rows' = [j \in Jobs |-> IF j \in run[r].held
                             THEN [rows[j] EXCEPT !.status = "DELETED", !.gone = TRUE]
                             ELSE rows[j]]
  /\ GiveUp(r)
  /\ UNCHANGED <<disk, slicing, requests, faults>>

\* An exception (permissions, connection lost) or a restart of the backend.
Die(r) == /\ run[r] # NoRun
          /\ faults < MaxFaults
          /\ faults' = faults + 1
          /\ GiveUp(r)
          /\ UNCHANGED <<rows, disk, slicing, requests>>

-----------------------------------------------------------------------------

Proceed(r) == \/ Examine(r)
              \/ Unlink(r)
              \/ Missing(r)
              \/ Flush(r)
              \/ Deadlock(r)
              \/ Commit(r)

Live(j) == \/ UploadWrite(j)
           \/ UploadCommit(j)
           \/ SliceStart(j)
           \/ SliceWrite(j)
           \/ SliceEnd(j)
           \/ Move(j)
           \/ Age(j)

Next == \/ \E j \in Jobs : Live(j)
        \/ \E r \in Runs : Begin(r) \/ Proceed(r) \/ Die(r)

Spec == Init /\ [][Next]_vars

\* The scheduler starts a run every day, a run that was started goes on, and
\* PostgreSQL hands a row lock to the transactions that wait for it in turn.
Fairness == /\ WF_vars(Begin(Scheduled))
            /\ \A r \in Runs : WF_vars(Proceed(r)) /\ SF_vars(Flush(r))

FairSpec == Spec /\ Fairness

-----------------------------------------------------------------------------
(* Properties.                                                             *)

\* Every variable has its type.
TypeOK == /\ rows \in [Jobs -> Row]
          /\ disk \subseteq Files
          /\ slicing \in [Jobs -> 0..MaxArtifacts]
          /\ run \in [Runs -> Run]
          /\ requests \in 0..MaxRequests
          /\ faults \in 0..MaxFaults

Printable == {"SUBMITTED", "APPROVED", "SLICING", "SLICED", "QUEUED", "PRINTING", "PAUSED"}

\* A job that may still be sliced or printed has its model on disk, whatever
\* runs overlap or die and wherever an upload is cut off.
PrintableJobsHaveTheirModel ==
  \A j \in Jobs : rows[j].status \in Printable => Stl(j) \in disk

\* A job marked DELETED has left none of the files its rows name (the promise
\* of retention_service: "deletes the uploaded STL and any sliced artifacts").
DeletedJobsLeaveNoFiles ==
  \A j \in Jobs : rows[j].status = "DELETED" =>
    Stl(j) \notin disk /\ (rows[j].artifacts > 0 => Gcode(j) \notin disk)

\* Overlapping runs never both count a file into the freed bytes they log.
FilesAreFreedOnce ==
  \A r, s \in Runs : r # s => run[r].freed \cap run[s].freed = {}

\* No run, however old its selection, removes a file before its job is due.
OnlyDueFilesVanish == [][\A f \in disk \ disk' : rows[f.job].due]_vars

\* A job that is due is cleaned up in the end: overlapping runs, runs that
\* find half of their files gone and database deadlocks only delay it.
DueJobsAreCleaned ==
  \A j \in Jobs : rows[j].due /\ rows[j].status \in DOMAIN RetentionRules
                    ~> rows[j].status = "DELETED"

\* The files that rows name; an upload or a slice that was cut off may have
\* left others.
Recorded == {f \in disk : IF f.kind = "stl" THEN rows[f.job].status # "NONE"
                                          ELSE rows[f.job].artifacts > 0}

Store == INSTANCE FileStore WITH stored <- Recorded,
                                 due <- {j \in Jobs : rows[j].due},
                                 erased <- {j \in Jobs : rows[j].status = "DELETED"}

\* Behind uploads, slices and overlapping runs there is a store of files: a
\* job that is due gets no file and is never revived, and it is deleted, for
\* good, by a commit that comes after all its files have gone.
ImplementsFileStore == Store!Spec
=============================================================================
