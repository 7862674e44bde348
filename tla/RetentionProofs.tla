---------------------------- MODULE RetentionProofs ----------------------------
(***************************************************************************)
(* Theorems about Retention, for any number of jobs, of overlapping runs,  *)
(* of artifacts and of runs that are cut off.                              *)
(***************************************************************************)
EXTENDS Retention, FiniteSetTheorems, TLAPS

\* A job that is due is one of these.
Over == {"FINISHED", "FAILED", "REJECTED", "DELETED"}

\* The files the rows of a job name.
Named(j, table) == {Stl(j)} \cup (IF table[j].artifacts > 0 THEN {Gcode(j)} ELSE {})

Entry == [job: Jobs, files: Seq(Files)]

\* What a run has still to do for a job: the job is due, the list holds files
\* of this job only, and every file that is left is on the list.
Sound(e, table, store) ==
  /\ table[e.job].due
  /\ \A k \in DOMAIN e.files : e.files[k].job = e.job
  /\ \A f \in Named(e.job, table) : f \in store => \E k \in DOMAIN e.files : e.files[k] = f

\* deleted_at is set together with DELETED only, and what is due is over.
RealRow(row) == /\ row.gone => row.status = "DELETED"
                /\ row.due => row.status \in Over

RowsAreReal == \A j \in Jobs : RealRow(rows[j])

\* A slicer has room for its artifact, and its job has neither been removed
\* nor become due.
Slicers == \A j \in Jobs : /\ rows[j].artifacts + slicing[j] <= MaxArtifacts
                           /\ slicing[j] > 0 => InUse(j)

\* Whatever may still become of a job, its model is there.
ModelsStay == \A j \in Jobs : InUse(j) => Stl(j) \in disk

Selections == \A r \in Runs : \A i \in DOMAIN run[r].todo : Sound(run[r].todo[i], rows, disk)

\* A run that is about to unlink has a file to unlink.
Busy(x) == x.at = "unlink" => x.todo # <<>> /\ x.todo[1].files # <<>>

Unlinking == \A r \in Runs : Busy(run[r])

\* The files of a job whose UPDATE is flushed are gone.
Bare(j, table, store) == /\ table[j].due
                         /\ \A f \in Named(j, table) : f \notin store

Flushed == \A r \in Runs : \A j \in run[r].held : Bare(j, rows, disk)

FreedForGood == \A r \in Runs : \A f \in run[r].freed :
                  f \notin disk /\ rows[f.job].due

IInv == /\ TypeOK /\ RowsAreReal /\ Slicers /\ ModelsStay
        /\ Selections /\ Unlinking /\ Flushed /\ FreedForGood
        /\ DeletedJobsLeaveNoFiles /\ FilesAreFreedOnce

\* A job that may get files: neither due nor removed.
Open(j) == ~rows[j].due /\ rows[j].status # "DELETED"

-----------------------------------------------------------------------------
(* What a run has still to do.                                             *)

(* The files of different jobs differ.                                     *)
LEMMA NamedFiles ==
  ASSUME NEW j \in Jobs, NEW table, NEW f \in Named(j, table)
  PROVE  f \in Files /\ f.job = j
BY DEF Named, Stl, Gcode, Files

(* An entry stays sound while the job stays as it is and gets no file.     *)
LEMMA SoundKept ==
  ASSUME NEW e, NEW table, NEW store, Sound(e, table, store),
         NEW table2, NEW store2,
         table2[e.job].due,
         table2[e.job].artifacts = table[e.job].artifacts,
         \A f \in Named(e.job, table) : f \in store2 => f \in store
  PROVE  Sound(e, table2, store2)
BY DEF Sound, Named

(* It stays sound when the first of its files is done with.                *)
LEMMA SoundTail ==
  ASSUME NEW e \in Entry, NEW table, NEW store, Sound(e, table, store),
         e.files # <<>>, NEW store2, store2 \subseteq store, e.files[1] \notin store2
  PROVE  Sound([job |-> e.job, files |-> Tail(e.files)], table, store2)
<1> DEFINE n == [job |-> e.job, files |-> Tail(e.files)]
<1>1. /\ e.files \in Seq(Files) /\ e.job \in Jobs
      /\ \A k \in DOMAIN Tail(e.files) : k + 1 \in DOMAIN e.files /\ Tail(e.files)[k] = e.files[k + 1]
      /\ \A k \in DOMAIN e.files : k # 1 => k - 1 \in DOMAIN Tail(e.files)
                                           /\ Tail(e.files)[k - 1] = e.files[k]
  BY DEF Entry
<1>2. \A k \in DOMAIN Tail(e.files) : Tail(e.files)[k].job = e.job
  BY <1>1 DEF Sound
<1>3. ASSUME NEW f \in Named(e.job, table), f \in store2
      PROVE  \E k \in DOMAIN Tail(e.files) : Tail(e.files)[k] = f
  <2>1. PICK k \in DOMAIN e.files : e.files[k] = f
    BY <1>3 DEF Sound
  <2>2. k # 1
    BY <1>3, <2>1
  <2> QED
    BY <1>1, <2>1, <2>2
<1> QED
  BY <1>2, <1>3 DEF Sound

(* The rest of the work of a run is a list of entries like the list was.   *)
LEMMA TodoTail ==
  ASSUME NEW S, NEW s \in Seq(S), s # <<>>
  PROVE  /\ Tail(s) \in Seq(S) /\ Head(s) = s[1] /\ 1 \in DOMAIN s /\ s[1] \in S
         /\ \A i \in DOMAIN Tail(s) : i + 1 \in DOMAIN s /\ Tail(s)[i] = s[i + 1]
OBVIOUS

(* Being done with the first file changes the first entry only.            *)
LEMMA NextFileEntries ==
  ASSUME NEW s \in Seq(Entry), s # <<>>, s[1].files # <<>>,
         NEW n, n = [s EXCEPT ![1].files = Tail(@)]
  PROVE  /\ n \in Seq(Entry) /\ DOMAIN n = DOMAIN s
         /\ n[1] = [job |-> s[1].job, files |-> Tail(s[1].files)]
         /\ \A i \in DOMAIN s : i # 1 => n[i] = s[i]
<1>1. 1 \in DOMAIN s /\ s[1] \in Entry /\ s \in [1..Len(s) -> Entry] /\ Len(s) \in Nat
  OBVIOUS
<1>2. s[1].files \in Seq(Files) /\ s[1].job \in Jobs
  BY <1>1 DEF Entry
<1>3. Tail(s[1].files) \in Seq(Files)
  BY <1>2
<1>4. ASSUME NEW e \in Entry, NEW x
      PROVE  [e EXCEPT !.files = x] = [job |-> e.job, files |-> x]
  BY DEF Entry
<1>5. n = [s EXCEPT ![1] = [job |-> s[1].job, files |-> Tail(s[1].files)]]
  <2>1. n = [s EXCEPT ![1] = [s[1] EXCEPT !.files = Tail(s[1].files)]]
    OBVIOUS
  <2> QED
    BY <1>1, <1>4, <2>1
<1>6. [job |-> s[1].job, files |-> Tail(s[1].files)] \in Entry
  BY <1>2, <1>3 DEF Entry
<1>7. n \in [1..Len(s) -> Entry] /\ DOMAIN n = DOMAIN s
  BY <1>1, <1>5, <1>6
<1>8. n[1] = [job |-> s[1].job, files |-> Tail(s[1].files)]
  BY <1>1, <1>5
<1>9. \A i \in DOMAIN s : i # 1 => n[i] = s[i]
  BY <1>1, <1>5
<1>10. n \in Seq(Entry)
  BY <1>1, <1>7
<1> QED
  BY <1>7, <1>8, <1>9, <1>10

-----------------------------------------------------------------------------
(* The kinds of step.                                                      *)

RunRecord == [at: {"idle", "files", "unlink"}, todo: Seq(Entry),
              held: SUBSET Jobs, freed: SUBSET Files]

\* A run is a record whose type can be spelled out.
LEMMA RunRecords == Run = RunRecord
BY DEF Run, RunRecord, Entry

\* Nobody works on the table or the disk but the run r, which becomes x.
LEMMA RunStep ==
  ASSUME IInv, NEW r \in Runs, NEW x \in RunRecord,
         run' = [run EXCEPT ![r] = x], rows' = rows, disk' = disk, slicing' = slicing,
         requests' \in 0..MaxRequests, faults' \in 0..MaxFaults,
         \A i \in DOMAIN x.todo : Sound(x.todo[i], rows, disk),
         Busy(x),
         \A j \in x.held : Bare(j, rows, disk),
         x.freed \subseteq run[r].freed
  PROVE  IInv'
<1>1. run \in [Runs -> RunRecord]
  BY RunRecords DEF IInv, TypeOK
<1>2. run'[r] = x /\ \A s \in Runs : s # r => run'[s] = run[s]
  BY <1>1
<1>3. run' \in [Runs -> RunRecord]
  BY <1>1
<1>4. TypeOK'
  BY <1>3, RunRecords DEF IInv, TypeOK
<1>5. Selections'
  BY <1>2 DEF IInv, Selections
<1>6. Unlinking'
  BY <1>2 DEF IInv, Unlinking
<1>7. Flushed'
  BY <1>2 DEF IInv, Flushed
<1>8. FreedForGood'
  BY <1>2 DEF IInv, FreedForGood
<1>9. FilesAreFreedOnce'
  BY <1>2 DEF IInv, FilesAreFreedOnce
<1>10. RowsAreReal' /\ Slicers' /\ ModelsStay' /\ DeletedJobsLeaveNoFiles'
  BY DEF IInv, RowsAreReal, Slicers, ModelsStay, InUse, DeletedJobsLeaveNoFiles
<1> QED
  BY <1>4, <1>5, <1>6, <1>7, <1>8, <1>9, <1>10 DEF IInv

(* A run that gives up forgets what it has done.                           *)
LEMMA GivingUp ==
  ASSUME IInv, NEW r \in Runs, GiveUp(r), rows' = rows, disk' = disk, slicing' = slicing,
         requests' \in 0..MaxRequests, faults' \in 0..MaxFaults
  PROVE  IInv'
<1>1. NoRun \in RunRecord /\ NoRun.todo = <<>> /\ NoRun.held = {} /\ NoRun.freed = {} /\ Busy(NoRun)
  BY DEF NoRun, RunRecord, Busy
<1>2. run' = [run EXCEPT ![r] = NoRun]
  BY DEF GiveUp
<1>3. \A i \in DOMAIN NoRun.todo : Sound(NoRun.todo[i], rows, disk)
  BY <1>1
<1>4. NoRun.freed \subseteq run[r].freed /\ \A j \in NoRun.held : Bare(j, rows, disk)
  BY <1>1
<1> QED
  BY <1>1, <1>2, <1>3, <1>4, RunStep

(* A job that is open gets a file.                                         *)
LEMMA Grow ==
  ASSUME IInv, NEW f \in Files, Open(f.job),
         disk' = disk \cup {f}, UNCHANGED <<rows, slicing, run, requests, faults>>
  PROVE  IInv'
<1>1. TypeOK'
  BY DEF IInv, TypeOK
<1>2. \A j \in Jobs : rows[j].due => \A g \in Named(j, rows) : g \in disk' => g \in disk
  BY NamedFiles DEF Open
<1>3. Selections'
  <2> SUFFICES ASSUME NEW r \in Runs, NEW i \in DOMAIN run[r].todo
               PROVE  Sound(run[r].todo[i], rows, disk')
    BY DEF Selections
  <2> DEFINE e == run[r].todo[i]
  <2>1. Sound(e, rows, disk)
    BY DEF IInv, Selections
  <2>2. e \in Entry
    BY RunRecords DEF IInv, TypeOK, RunRecord
  <2>3. e.job \in Jobs
    BY <2>2 DEF Entry
  <2>4. rows[e.job].due
    BY <2>1 DEF Sound
  <2>5. \A g \in Named(e.job, rows) : g \in disk' => g \in disk
    BY <1>2, <2>3, <2>4
  <2>6. Sound(e, rows, disk')
    <3> HIDE DEF e
    <3> QED
      BY <2>1, <2>4, <2>5, SoundKept
  <2> QED
    BY <2>6
<1>4. Flushed'
  BY <1>2 DEF IInv, Flushed, Bare, TypeOK, Run
<1>5. FreedForGood'
  BY DEF IInv, FreedForGood, Open
<1>6. RowsAreReal' /\ Slicers' /\ ModelsStay'
  BY DEF IInv, RowsAreReal, Slicers, ModelsStay, InUse
<1>7. DeletedJobsLeaveNoFiles'
  BY DEF IInv, DeletedJobsLeaveNoFiles, Open, Stl, Gcode
<1>8. Unlinking' /\ FilesAreFreedOnce'
  BY DEF IInv, Unlinking, FilesAreFreedOnce
<1> QED
  BY <1>1, <1>3, <1>4, <1>5, <1>6, <1>7, <1>8 DEF IInv

(* The row of a job and the slicers that run on it change, either because  *)
(* the job is open, or to make it due.                                     *)
LEMMA Change ==
  ASSUME IInv, NEW j \in Jobs, NEW row \in Row, NEW n \in 0..MaxArtifacts,
         rows' = [rows EXCEPT ![j] = row], slicing' = [slicing EXCEPT ![j] = n],
         UNCHANGED <<disk, run, requests, faults>>,
         RealRow(row),
         row.artifacts + n <= MaxArtifacts,
         n > 0 => row.status \notin {"NONE", "DELETED"} /\ ~row.due,
         row.status \notin {"NONE", "DELETED"} /\ ~row.due => Stl(j) \in disk,
         row.status # "DELETED",
         Open(j) \/ (row.artifacts = rows[j].artifacts /\ row.due)
  PROVE  IInv'
<1>1. /\ rows \in [Jobs -> Row] /\ run \in [Runs -> RunRecord]
      /\ slicing \in [Jobs -> 0..MaxArtifacts]
      /\ rows'[j] = row /\ \A k \in Jobs : k # j => rows'[k] = rows[k]
      /\ slicing'[j] = n /\ \A k \in Jobs : k # j => slicing'[k] = slicing[k]
  BY RunRecords DEF IInv, TypeOK
<1>2. TypeOK'
  BY <1>1 DEF IInv, TypeOK
<1>3. RowsAreReal'
  BY <1>1 DEF IInv, RowsAreReal
<1>4. \A k \in Jobs : rows[k].due => /\ rows'[k].due
                                    /\ rows'[k].artifacts = rows[k].artifacts
  BY <1>1 DEF Open
<1>5. Selections'
  <2> SUFFICES ASSUME NEW r \in Runs, NEW i \in DOMAIN run[r].todo
               PROVE  Sound(run[r].todo[i], rows', disk)
    BY DEF Selections
  <2> DEFINE e == run[r].todo[i]
  <2>1. Sound(e, rows, disk)
    BY DEF IInv, Selections
  <2>2. e.job \in Jobs
    <3>1. run[r].todo \in Seq(Entry)
      BY <1>1 DEF RunRecord
    <3>2. e \in Entry
      BY <3>1
    <3> QED
      BY <3>2 DEF Entry
  <2>3. rows[e.job].due
    BY <2>1 DEF Sound
  <2>4. rows'[e.job].due /\ rows'[e.job].artifacts = rows[e.job].artifacts
    BY <1>4, <2>2, <2>3
  <2>5. Sound(e, rows', disk)
    <3> HIDE DEF e
    <3> QED
      BY <2>1, <2>4, SoundKept
  <2> QED
    BY <2>5
<1>6. Flushed'
  <2> SUFFICES ASSUME NEW r \in Runs, NEW k \in run[r].held
               PROVE  Bare(k, rows', disk)
    BY DEF Flushed
  <2>1. Bare(k, rows, disk) /\ k \in Jobs
    BY <1>1 DEF IInv, Flushed, RunRecord
  <2> QED
    BY <1>4, <2>1 DEF Bare, Named
<1>7. FreedForGood'
  <2> SUFFICES ASSUME NEW r \in Runs, NEW f \in run[r].freed
               PROVE  f \notin disk /\ rows'[f.job].due
    BY DEF FreedForGood
  <2>1. f \notin disk /\ rows[f.job].due /\ f.job \in Jobs
    BY <1>1 DEF IInv, FreedForGood, RunRecord, Files
  <2> QED
    BY <1>4, <2>1
<1>8. Slicers'
  BY <1>1 DEF IInv, Slicers, InUse
<1>9. ModelsStay'
  BY <1>1 DEF IInv, ModelsStay, InUse
<1>10. DeletedJobsLeaveNoFiles'
  BY <1>1 DEF IInv, DeletedJobsLeaveNoFiles
<1>11. Unlinking' /\ FilesAreFreedOnce'
  BY DEF IInv, Unlinking, FilesAreFreedOnce
<1> QED
  BY <1>2, <1>3, <1>5, <1>6, <1>7, <1>8, <1>9, <1>10, <1>11 DEF IInv

-----------------------------------------------------------------------------
(* The steps of a job.                                                     *)

(* A status is set together with its timestamp.                            *)
LEMMA SetRow ==
  ASSUME IInv, NEW j \in Jobs, NEW t \in Statuses, SetStatus(j, t)
  PROVE  \E row \in Row :
           /\ rows' = [rows EXCEPT ![j] = row]
           /\ row.status = t /\ row.due = FALSE
           /\ row.gone = rows[j].gone /\ row.artifacts = rows[j].artifacts
<1>1. rows[j] \in Row /\ rows \in [Jobs -> Row]
  BY DEF IInv, TypeOK
<1> DEFINE row == [rows[j] EXCEPT !.status = t, !.due = FALSE]
<1>2. /\ row \in Row /\ row.status = t /\ row.due = FALSE
      /\ row.gone = rows[j].gone /\ row.artifacts = rows[j].artifacts
  BY <1>1 DEF Row
<1>3. rows' = [rows EXCEPT ![j] = row]
  BY <1>1 DEF SetStatus, Row
<1> HIDE DEF row
<1> QED
  BY <1>2, <1>3

(* A successful slice adds one artifact.                                   *)
LEMMA SlicedRow ==
  ASSUME IInv, NEW j \in Jobs, slicing[j] > 0,
         rows' = [rows EXCEPT ![j].status = "SLICED", ![j].artifacts = @ + 1]
  PROVE  \E row \in Row :
           /\ rows' = [rows EXCEPT ![j] = row]
           /\ row.status = "SLICED" /\ row.due = rows[j].due
           /\ row.gone = rows[j].gone /\ row.artifacts = rows[j].artifacts + 1
           /\ row.artifacts > 0
<1>1. rows[j] \in Row /\ rows \in [Jobs -> Row]
  BY DEF IInv, TypeOK
<1>2. /\ rows[j].artifacts \in 0..MaxArtifacts /\ slicing[j] \in 0..MaxArtifacts
      /\ MaxArtifacts \in Nat /\ rows[j].artifacts + slicing[j] <= MaxArtifacts
  BY <1>1, RetentionBounds DEF IInv, TypeOK, Slicers, Row
<1>3. rows[j].artifacts + 1 \in 0..MaxArtifacts /\ rows[j].artifacts + 1 > 0
  BY <1>2
<1> DEFINE row == [rows[j] EXCEPT !.status = "SLICED", !.artifacts = rows[j].artifacts + 1]
<1>4. /\ row \in Row /\ row.status = "SLICED" /\ row.due = rows[j].due
      /\ row.gone = rows[j].gone /\ row.artifacts = rows[j].artifacts + 1
  BY <1>1, <1>3 DEF Row, Statuses
<1>5. rows' = [rows EXCEPT ![j] = row]
  BY <1>1 DEF Row
<1> HIDE DEF row
<1> QED
  BY <1>3, <1>4, <1>5

(* An open job may get any status but DELETED.                             *)
LEMMA SetKeeps ==
  ASSUME IInv, NEW j \in Jobs, Open(j), Stl(j) \in disk,
         NEW t \in Statuses \ {"DELETED"}, SetStatus(j, t),
         NEW n \in 0..MaxArtifacts, slicing' = [slicing EXCEPT ![j] = n],
         rows[j].artifacts + n <= MaxArtifacts, UNCHANGED <<disk, run, requests, faults>>
  PROVE  IInv'
<1>1. PICK row \in Row : /\ rows' = [rows EXCEPT ![j] = row]
                         /\ row.status = t /\ row.due = FALSE
                         /\ row.gone = rows[j].gone /\ row.artifacts = rows[j].artifacts
  BY SetRow
<1>2. RealRow(row)
  BY <1>1 DEF IInv, RowsAreReal, RealRow, Open
<1>3. row.status \notin {"NONE", "DELETED"} /\ ~row.due
  BY <1>1 DEF Statuses
<1> QED
  BY <1>1, <1>2, <1>3, Change

(* The slicers on a job are counted, and its row counts its artifacts.     *)
LEMMA Counts ==
  ASSUME IInv, NEW j \in Jobs
  PROVE  /\ slicing \in [Jobs -> 0..MaxArtifacts] /\ slicing[j] \in 0..MaxArtifacts
         /\ rows[j].artifacts \in 0..MaxArtifacts /\ MaxArtifacts \in Nat
         /\ rows[j].artifacts + slicing[j] <= MaxArtifacts
         /\ [slicing EXCEPT ![j] = slicing[j]] = slicing
<1>1. slicing \in [Jobs -> 0..MaxArtifacts] /\ rows[j] \in Row
  BY DEF IInv, TypeOK
<1> QED
  BY <1>1, RetentionBounds DEF IInv, Slicers, Row

(* A job in use is open and has its model.                                 *)
LEMMA InUseFacts ==
  ASSUME IInv, NEW j \in Jobs, InUse(j) \/ slicing[j] > 0
  PROVE  Open(j) /\ Stl(j) \in disk /\ rows[j].status # "NONE"
BY DEF IInv, Slicers, ModelsStay, InUse, Open

(* A job without a row is open.                                            *)
LEMMA NewFacts ==
  ASSUME IInv, NEW j \in Jobs, rows[j].status = "NONE"
  PROVE  Open(j)
BY DEF IInv, RowsAreReal, RealRow, Over, Open

\* An upload and its commit keep the invariant.
LEMMA UploadSteps ==
  ASSUME IInv, NEW j \in Jobs, UploadWrite(j) \/ UploadCommit(j)
  PROVE  IInv'
<1>1. Open(j)
  BY NewFacts DEF UploadWrite, UploadCommit
<1>2. CASE UploadWrite(j)
  <2>1. Stl(j) \in Files /\ Stl(j).job = j
    BY DEF Stl, Files
  <2> QED
    BY <1>1, <1>2, <2>1, Grow DEF UploadWrite
<1>3. CASE UploadCommit(j)
  <2>1. "SUBMITTED" \in Statuses \ {"DELETED"}
    BY DEF Statuses
  <2>2. /\ slicing' = [slicing EXCEPT ![j] = slicing[j]] /\ slicing[j] \in 0..MaxArtifacts
        /\ rows[j].artifacts + slicing[j] <= MaxArtifacts
    BY <1>3, Counts DEF UploadCommit
  <2>3. Stl(j) \in disk /\ SetStatus(j, "SUBMITTED") /\ UNCHANGED <<disk, run, requests, faults>>
    BY <1>3 DEF UploadCommit
  <2> QED
    BY <1>1, <2>1, <2>2, <2>3, SetKeeps
<1> QED
  BY <1>2, <1>3

\* The steps of a slicer keep the invariant.
LEMMA SliceSteps ==
  ASSUME IInv, NEW j \in Jobs, SliceStart(j) \/ SliceWrite(j) \/ SliceEnd(j)
  PROVE  IInv'
<1>1. Open(j) /\ Stl(j) \in disk /\ rows[j].status # "NONE"
  BY InUseFacts DEF SliceStart, SliceWrite, SliceEnd
<1>2. /\ slicing[j] \in 0..MaxArtifacts /\ rows[j].artifacts \in 0..MaxArtifacts
      /\ MaxArtifacts \in Nat /\ rows[j].artifacts + slicing[j] <= MaxArtifacts
  BY Counts
<1>3. CASE SliceStart(j)
  <2>1. "SLICING" \in Statuses \ {"DELETED"}
    BY DEF Statuses
  <2>2. PICK n : n = slicing[j] + 1
    OBVIOUS
  <2>3. n \in 0..MaxArtifacts /\ rows[j].artifacts + n <= MaxArtifacts
    BY <1>2, <1>3, <2>2 DEF SliceStart
  <2>4. slicing' = [slicing EXCEPT ![j] = n]
    BY <1>3, <2>2 DEF SliceStart
  <2>5. SetStatus(j, "SLICING") /\ UNCHANGED <<disk, run, requests, faults>>
    BY <1>3 DEF SliceStart
  <2> QED
    BY <1>1, <2>1, <2>3, <2>4, <2>5, SetKeeps
<1>4. CASE SliceWrite(j)
  <2>1. Gcode(j) \in Files /\ Gcode(j).job = j
    BY DEF Gcode, Files
  <2> QED
    BY <1>1, <1>4, <2>1, Grow DEF SliceWrite
<1>5. CASE SliceEnd(j)
  <2>1. PICK n : n = slicing[j] - 1
    OBVIOUS
  <2>2. n \in 0..MaxArtifacts /\ rows[j].artifacts + n + 1 <= MaxArtifacts
    BY <1>2, <1>5, <2>1 DEF SliceEnd
  <2>3. /\ slicing' = [slicing EXCEPT ![j] = n] /\ slicing[j] > 0
        /\ UNCHANGED <<disk, run, requests, faults>>
    BY <1>5, <2>1 DEF SliceEnd
  <2>4. CASE SetStatus(j, "FAILED")
    <3>1. "FAILED" \in Statuses \ {"DELETED"} /\ rows[j].artifacts + n <= MaxArtifacts
      BY <1>2, <2>2 DEF Statuses
    <3> QED
      BY <1>1, <2>2, <2>3, <2>4, <3>1, SetKeeps
  <2>5. CASE rows' = [rows EXCEPT ![j].status = "SLICED", ![j].artifacts = @ + 1]
    <3>1. PICK row \in Row :
            /\ rows' = [rows EXCEPT ![j] = row]
            /\ row.status = "SLICED" /\ row.due = rows[j].due
            /\ row.gone = rows[j].gone /\ row.artifacts = rows[j].artifacts + 1
      BY <2>3, <2>5, SlicedRow
    <3>2. RealRow(row) /\ ~row.due
      BY <1>1, <3>1 DEF IInv, RowsAreReal, RealRow, Open
    <3>3. row.artifacts + n <= MaxArtifacts
      BY <1>2, <2>2, <3>1
    <3>4. row.status \notin {"NONE", "DELETED"}
      BY <3>1
    <3> QED
      BY <1>1, <2>2, <2>3, <3>1, <3>2, <3>3, <3>4, Change
  <2>6. CASE rows' = rows
    <3>1. rows' = [rows EXCEPT ![j] = rows[j]] /\ rows[j] \in Row /\ RealRow(rows[j])
      BY <2>6 DEF IInv, TypeOK, RowsAreReal
    <3>2. rows[j].artifacts + n <= MaxArtifacts
      BY <1>2, <2>2
    <3> QED
      BY <1>1, <2>2, <2>3, <3>1, <3>2, Change DEF Open
  <2> QED
    BY <1>5, <2>4, <2>5, <2>6 DEF SliceEnd
<1> QED
  BY <1>3, <1>4, <1>5

\* A commit of the other services keeps the invariant.
LEMMA MoveStep ==
  ASSUME IInv, NEW j \in Jobs, Move(j)
  PROVE  IInv'
<1>1. Open(j) /\ Stl(j) \in disk
  BY InUseFacts DEF Move
<1>2. PICK t \in Commits : SetStatus(j, t)
  BY DEF Move
<1>3. t \in Statuses \ {"DELETED"}
  BY <1>2, CommitsAssumption DEF Committed, Statuses
<1>4. /\ slicing' = [slicing EXCEPT ![j] = slicing[j]] /\ slicing[j] \in 0..MaxArtifacts
      /\ rows[j].artifacts + slicing[j] <= MaxArtifacts
      /\ UNCHANGED <<disk, run, requests, faults>>
  BY Counts DEF Move
<1> QED
  BY <1>1, <1>2, <1>3, <1>4, SetKeeps

\* A job that becomes due keeps the invariant.
LEMMA AgeStep ==
  ASSUME IInv, NEW j \in Jobs, Age(j)
  PROVE  IInv'
<1>1. rows[j] \in Row /\ rows \in [Jobs -> Row] /\ RealRow(rows[j])
  BY DEF IInv, TypeOK, RowsAreReal
<1>2. rows[j].status \in {"FINISHED", "FAILED", "REJECTED"} /\ slicing[j] = 0
  BY DEF Age, RetentionRules
<1> DEFINE row == [rows[j] EXCEPT !.due = TRUE]
<1>3. row \in Row /\ row.status = rows[j].status /\ row.artifacts = rows[j].artifacts
      /\ row.due /\ row.gone = rows[j].gone
  BY <1>1 DEF Row
<1>4. rows' = [rows EXCEPT ![j] = row] /\ UNCHANGED <<disk, run, requests, faults>>
  BY <1>1 DEF Age, Row
<1>5. RealRow(row) /\ row.status # "DELETED"
  BY <1>1, <1>2, <1>3 DEF RealRow, Over
<1>6. PICK n : n = 0
  OBVIOUS
<1>7. /\ slicing' = [slicing EXCEPT ![j] = n] /\ n \in 0..MaxArtifacts
      /\ row.artifacts + n <= MaxArtifacts /\ ~(n > 0)
  <2>1. slicing' = [slicing EXCEPT ![j] = n]
    BY <1>2, <1>6, Counts DEF Age
  <2>2. n \in 0..MaxArtifacts /\ row.artifacts + n <= MaxArtifacts /\ ~(n > 0)
    BY <1>3, <1>6, Counts
  <2> QED
    BY <2>1, <2>2
<1> HIDE DEF row
<1> QED
  BY <1>3, <1>4, <1>5, <1>7, Change

-----------------------------------------------------------------------------
(* The steps of a run.                                                     *)

(* A query returns jobs that are over and due.                             *)
LEMMA SelectionFacts ==
  ASSUME NEW q \in SelectionOrders
  PROVE  q \in Seq(Candidates)
<1>1. IsFiniteSet(Candidates)
  BY JobsAssumption, FS_Subset DEF Candidates
<1>2. Cardinality(Candidates) \in Nat
  BY <1>1, FS_CardinalityType
<1>3. q \in [1..Cardinality(Candidates) -> Candidates]
  BY DEF SelectionOrders, SetToSeqs
<1> QED
  BY <1>2, <1>3

(* The list of the files of a job is complete.                             *)
LEMMA FilesOfFacts ==
  ASSUME IInv, NEW j \in Candidates
  PROVE  LET e == [job |-> j, files |-> FilesOf(j)] IN e \in Entry /\ Sound(e, rows, disk)
<1>1. j \in Jobs /\ rows[j] \in Row /\ rows[j].due /\ ~rows[j].gone
  BY DEF Candidates, RetentionRules, IInv, TypeOK, RowsAreReal, RealRow, Row
<1>2. rows[j].artifacts \in Nat
  BY <1>1, RetentionBounds DEF Row
<1> DEFINE n == rows[j].artifacts
           g == [i \in 1..n |-> Gcode(j)]
<1>3. Stl(j) \in Files /\ Gcode(j) \in Files /\ Stl(j).job = j /\ Gcode(j).job = j
  BY <1>1 DEF Stl, Gcode, Files
<1>4. g \in Seq(Files) /\ Len(g) = n
  BY <1>2, <1>3
<1>5. FilesOf(j) = <<Stl(j)>> \o g
  BY <1>1 DEF FilesOf
<1>6. /\ FilesOf(j) \in Seq(Files) /\ DOMAIN FilesOf(j) = 1..(n + 1)
      /\ FilesOf(j)[1] = Stl(j)
      /\ \A k \in 2..(n + 1) : FilesOf(j)[k] = Gcode(j)
  <2>1. <<Stl(j)>> \in Seq(Files) /\ Len(<<Stl(j)>>) = 1 /\ <<Stl(j)>>[1] = Stl(j)
    BY <1>3
  <2>2. \A k \in 1..n : g[k] = Gcode(j)
    OBVIOUS
  <2> HIDE DEF g
  <2> QED
    BY <1>2, <1>4, <1>5, <2>1, <2>2
<1>7. \A k \in 1..(n + 1) : k = 1 \/ k \in 2..(n + 1)
  BY <1>2
<1>8. \A k \in DOMAIN FilesOf(j) : FilesOf(j)[k].job = j
  BY <1>3, <1>6, <1>7
<1>9. \A f \in Named(j, rows) : \E k \in DOMAIN FilesOf(j) : FilesOf(j)[k] = f
  <2>1. 1 \in DOMAIN FilesOf(j)
    BY <1>2, <1>6
  <2>2. n > 0 => 2 \in DOMAIN FilesOf(j) /\ 2 \in 2..(n + 1)
    BY <1>2, <1>6
  <2> QED
    BY <1>6, <2>1, <2>2 DEF Named
<1> QED
  BY <1>1, <1>6, <1>8, <1>9 DEF Entry, Sound

(* A run starts with its selection and nothing else.                       *)
LEMMA FirstRun ==
  ASSUME NEW t \in Seq(Entry), NEW x, x = [NoRun EXCEPT !.at = "files", !.todo = t]
  PROVE  /\ x \in RunRecord
         /\ x.at = "files" /\ x.todo = t /\ x.held = {} /\ x.freed = {}
<1>1. NoRun \in RunRecord
  BY DEF NoRun, RunRecord
<1>2. x \in RunRecord
  BY <1>1 DEF RunRecord
<1>3. x.at = "files" /\ x.todo = t /\ x.held = {} /\ x.freed = {}
  BY DEF NoRun
<1> QED
  BY <1>2, <1>3

\* A run begins with a sound selection.
LEMMA BeginStep ==
  ASSUME IInv, NEW r \in Runs, Begin(r)
  PROVE  IInv'
<1>1. PICK q \in SelectionOrders :
        run' = [run EXCEPT ![r] =
                 [NoRun EXCEPT !.at = "files",
                               !.todo = [i \in DOMAIN q |->
                                           [job |-> q[i], files |-> FilesOf(q[i])]]]]
  BY DEF Begin
<1> DEFINE todo == [i \in DOMAIN q |-> [job |-> q[i], files |-> FilesOf(q[i])]]
           x == [NoRun EXCEPT !.at = "files", !.todo = todo]
<1>2. q \in Seq(Candidates)
  BY SelectionFacts
<1>3. \A i \in DOMAIN q : todo[i] \in Entry /\ Sound(todo[i], rows, disk)
  BY <1>2, FilesOfFacts
<1>4. todo \in Seq(Entry)
  <2>1. DOMAIN q = 1..Len(q) /\ Len(q) \in Nat
    BY <1>2
  <2>2. todo \in [1..Len(q) -> Entry]
    BY <1>3, <2>1
  <2> HIDE DEF todo
  <2> QED
    BY <2>1, <2>2
<1>5. DOMAIN todo = DOMAIN q
  OBVIOUS
<1>6. run' = [run EXCEPT ![r] = x]
  BY <1>1
<1> HIDE DEF todo
<1>7. x \in RunRecord /\ Busy(x) /\ x.todo = todo /\ x.held = {} /\ x.freed = {}
  <2>1. /\ x \in RunRecord
        /\ x.at = "files" /\ x.todo = todo /\ x.held = {} /\ x.freed = {}
    BY <1>4, FirstRun
  <2> HIDE DEF x
  <2> QED
    BY <2>1 DEF Busy
<1>8. rows' = rows /\ disk' = disk /\ slicing' = slicing /\ requests' \in 0..MaxRequests /\ faults' \in 0..MaxFaults
  BY RetentionBounds DEF Begin, IInv, TypeOK
<1>9. x.freed \subseteq run[r].freed /\ \A j \in x.held : Bare(j, rows, disk)
  BY <1>7
<1>10. \A i \in DOMAIN x.todo : Sound(x.todo[i], rows, disk)
  BY <1>3, <1>5, <1>7
<1> HIDE DEF x
<1> QED
  BY <1>6, <1>7, <1>8, <1>9, <1>10, RunStep

\* What the invariant says of one run.
LEMMA RunFacts ==
  ASSUME IInv, NEW r \in Runs
  PROVE  /\ run[r] \in RunRecord /\ Busy(run[r])
         /\ \A i \in DOMAIN run[r].todo : Sound(run[r].todo[i], rows, disk)
         /\ \A j \in run[r].held : Bare(j, rows, disk)
BY RunRecords DEF IInv, TypeOK, Unlinking, Selections, Flushed

\* A run that is done with the first file of its first job.
LEMMA NextFileFacts ==
  ASSUME IInv, NEW r \in Runs, run[r].todo # <<>>, run[r].todo[1].files # <<>>,
         NEW store, store \subseteq disk, run[r].todo[1].files[1] \notin store,
         \A i \in DOMAIN run[r].todo : Sound(run[r].todo[i], rows, store)
  PROVE  /\ NextFile(r) \in Seq(Entry)
         /\ \A i \in DOMAIN NextFile(r) : Sound(NextFile(r)[i], rows, store)
<1> DEFINE s == run[r].todo
           n == NextFile(r)
<1>1. s \in Seq(Entry)
  BY RunFacts DEF RunRecord
<1>2. 1 \in DOMAIN s /\ s[1] \in Entry
  BY <1>1, TodoTail
<1>3. /\ n \in Seq(Entry) /\ DOMAIN n = DOMAIN s
      /\ n[1] = [job |-> s[1].job, files |-> Tail(s[1].files)]
      /\ \A i \in DOMAIN s : i # 1 => n[i] = s[i]
  BY <1>1, NextFileEntries DEF NextFile
<1>4. Sound(n[1], rows, store)
  BY <1>2, <1>3, SoundTail
<1> QED
  BY <1>3, <1>4

\* Looking at a file keeps the invariant.
LEMMA ExamineStep ==
  ASSUME IInv, NEW r \in Runs, Examine(r)
  PROVE  IInv'
<1> DEFINE s == run[r].todo
<1>1. run[r] \in RunRecord /\ s \in Seq(Entry) /\ s # <<>> /\ run[r].at = "files"
  BY RunFacts DEF RunRecord, Examine
<1>2. Head(s) = s[1] /\ 1 \in DOMAIN s /\ s[1] \in Entry /\ s[1].files # <<>>
  BY <1>1, TodoTail DEF Examine, Current
<1>3. Head(s[1].files) = s[1].files[1]
  BY <1>2, TodoTail DEF Entry
<1>4. /\ rows' = rows /\ disk' = disk /\ slicing' = slicing
      /\ requests' \in 0..MaxRequests /\ faults' \in 0..MaxFaults
  BY DEF Examine, IInv, TypeOK
<1>5. CASE Head(s[1].files) \in disk
  <2> DEFINE x == [run[r] EXCEPT !.at = "unlink"]
  <2>1. run' = [run EXCEPT ![r] = x]
    BY <1>2, <1>5 DEF Examine, Current
  <2>2. x \in RunRecord /\ x.todo = s /\ x.held = run[r].held /\ x.freed = run[r].freed
    BY <1>1 DEF RunRecord
  <2>3. Busy(x)
    BY <1>1, <1>2, <2>2 DEF Busy
  <2> HIDE DEF x
  <2> QED
    BY <1>4, <2>1, <2>2, <2>3, RunFacts, RunStep
<1>6. CASE Head(s[1].files) \notin disk
  <2> DEFINE x == [run[r] EXCEPT !.todo = NextFile(r)]
  <2>1. run' = [run EXCEPT ![r] = x]
    BY <1>2, <1>6 DEF Examine, Current
  <2>2. /\ NextFile(r) \in Seq(Entry)
        /\ \A i \in DOMAIN NextFile(r) : Sound(NextFile(r)[i], rows, disk)
    BY <1>1, <1>2, <1>3, <1>6, RunFacts, NextFileFacts
  <2>3. /\ x \in RunRecord /\ x.todo = NextFile(r) /\ x.at = "files"
        /\ x.held = run[r].held /\ x.freed = run[r].freed
    BY <1>1, <2>2 DEF RunRecord
  <2>4. Busy(x)
    BY <2>3 DEF Busy
  <2> HIDE DEF x
  <2> QED
    BY <1>4, <2>1, <2>2, <2>3, <2>4, RunFacts, RunStep
<1> QED
  BY <1>5, <1>6

\* Flushing the row of a job keeps the invariant.
LEMMA FlushStep ==
  ASSUME IInv, NEW r \in Runs, Flush(r)
  PROVE  IInv'
<1> DEFINE s == run[r].todo
           x == [run[r] EXCEPT !.held = @ \cup {s[1].job}, !.todo = Tail(s)]
<1>1. run[r] \in RunRecord /\ s \in Seq(Entry) /\ s # <<>> /\ run[r].at = "files"
  BY RunFacts DEF RunRecord, Flush, JobDone
<1>2. /\ Tail(s) \in Seq(Entry) /\ Head(s) = s[1] /\ 1 \in DOMAIN s /\ s[1] \in Entry
      /\ \A i \in DOMAIN Tail(s) : i + 1 \in DOMAIN s /\ Tail(s)[i] = s[i + 1]
  BY <1>1, TodoTail
<1>3. s[1].files = <<>> /\ s[1].job \in Jobs
  BY <1>2 DEF Flush, JobDone, Current, Entry
<1>4. Bare(s[1].job, rows, disk)
  BY <1>2, <1>3, RunFacts DEF Sound, Bare
<1>5. run' = [run EXCEPT ![r] = x]
  BY <1>2 DEF Flush, Current
<1>6. /\ x \in RunRecord /\ x.todo = Tail(s) /\ x.at = "files"
      /\ x.held = run[r].held \cup {s[1].job} /\ x.freed = run[r].freed
  BY <1>1, <1>2, <1>3 DEF RunRecord
<1>7. Busy(x)
  BY <1>6 DEF Busy
<1>8. \A i \in DOMAIN x.todo : Sound(x.todo[i], rows, disk)
  BY <1>2, <1>6, RunFacts
<1>9. \A j \in x.held : Bare(j, rows, disk)
  BY <1>4, <1>6, RunFacts
<1>10. /\ rows' = rows /\ disk' = disk /\ slicing' = slicing
       /\ requests' \in 0..MaxRequests /\ faults' \in 0..MaxFaults
  BY DEF Flush, IInv, TypeOK
<1> HIDE DEF x
<1> QED
  BY <1>5, <1>6, <1>7, <1>8, <1>9, <1>10, RunStep

\* A run that meets a vanished file, a deadlock or a crash rolls back.
LEMMA GivingUpSteps ==
  ASSUME IInv, NEW r \in Runs, Missing(r) \/ Deadlock(r) \/ Die(r)
  PROVE  IInv'
<1>1. GiveUp(r) /\ rows' = rows /\ disk' = disk /\ slicing' = slicing /\ requests' \in 0..MaxRequests
  BY DEF Missing, Deadlock, Die, IInv, TypeOK
<1>2. faults' \in 0..MaxFaults
  BY RetentionBounds DEF Missing, Deadlock, Die, IInv, TypeOK
<1> QED
  BY <1>1, <1>2, GivingUp

\* Unlinking a file keeps the invariant.
LEMMA UnlinkStep ==
  ASSUME IInv, NEW r \in Runs, Unlink(r)
  PROVE  IInv' /\ \A f \in disk \ disk' : rows[f.job].due
<1> DEFINE s == run[r].todo
           f == s[1].files[1]
           x == [run[r] EXCEPT !.at = "files", !.todo = NextFile(r), !.freed = @ \cup {f}]
<1>1. /\ run \in [Runs -> RunRecord] /\ run[r] \in RunRecord
      /\ s \in Seq(Entry) /\ s # <<>> /\ s[1].files # <<>>
  BY RunFacts, RunRecords DEF RunRecord, Unlink, Busy, IInv, TypeOK
<1>2. Head(s) = s[1] /\ 1 \in DOMAIN s /\ s[1] \in Entry
  BY <1>1, TodoTail
<1>3. Head(s[1].files) = f /\ f \in Files /\ 1 \in DOMAIN s[1].files
  BY <1>1, <1>2, TodoTail DEF Entry
<1>4. Sound(s[1], rows, disk) /\ f.job = s[1].job /\ s[1].job \in Jobs
  BY <1>2, <1>3, RunFacts DEF Sound, Entry
<1>5. rows[f.job].due /\ f \in disk
  BY <1>2, <1>3, <1>4 DEF Sound, Unlink, Current
<1>6. disk' = disk \ {f} /\ rows' = rows
  BY <1>2, <1>3 DEF Unlink, Current
<1>7. run' = [run EXCEPT ![r] = x]
  BY <1>2, <1>3 DEF Unlink, Current
<1>8. \A q \in Runs : \A i \in DOMAIN run[q].todo : Sound(run[q].todo[i], rows, disk')
  BY <1>6, RunFacts DEF Sound
<1>9. /\ NextFile(r) \in Seq(Entry)
      /\ \A i \in DOMAIN NextFile(r) : Sound(NextFile(r)[i], rows, disk')
  <2> DEFINE store == disk'
  <2>1. store \subseteq disk /\ f \notin store
    BY <1>6
  <2>2. \A i \in DOMAIN run[r].todo : Sound(run[r].todo[i], rows, store)
    BY <1>8
  <2> HIDE DEF store
  <2>3. /\ NextFile(r) \in Seq(Entry)
        /\ \A i \in DOMAIN NextFile(r) : Sound(NextFile(r)[i], rows, store)
    BY <1>1, <2>1, <2>2, NextFileFacts
  <2> QED
    BY <2>3 DEF store
<1>10. /\ x \in RunRecord /\ x.todo = NextFile(r) /\ x.at = "files"
       /\ x.held = run[r].held /\ x.freed = run[r].freed \cup {f}
  BY <1>1, <1>3, <1>9 DEF RunRecord
<1>11. Busy(x)
  BY <1>10 DEF Busy
<1> HIDE DEF x, f
<1>12. run'[r] = x /\ \A q \in Runs : q # r => run'[q] = run[q]
  BY <1>1, <1>7
<1>13. run' \in [Runs -> RunRecord]
  BY <1>1, <1>7, <1>10
<1>14. TypeOK'
  BY <1>6, <1>13, RunRecords DEF IInv, TypeOK, Unlink
<1>15. Selections'
  <2> SUFFICES ASSUME NEW q \in Runs, NEW i \in DOMAIN run'[q].todo
               PROVE  Sound(run'[q].todo[i], rows, disk')
    BY <1>6 DEF Selections
  <2> QED
    BY <1>8, <1>9, <1>10, <1>12
<1>16. Unlinking'
  BY <1>11, <1>12 DEF IInv, Unlinking
<1>17. Flushed'
  BY <1>6, <1>10, <1>12 DEF IInv, Flushed, Bare
<1>18. FreedForGood'
  BY <1>5, <1>6, <1>10, <1>12 DEF IInv, FreedForGood
<1>19. FilesAreFreedOnce'
  <2>1. \A q \in Runs : f \notin run[q].freed
    BY <1>5 DEF IInv, FreedForGood
  <2> QED
    BY <1>10, <1>12, <2>1 DEF IInv, FilesAreFreedOnce
<1>20. ModelsStay'
  <2>1. \A j \in Jobs : InUse(j) => Stl(j) # f
    BY <1>4, <1>5 DEF InUse, Stl
  <2> QED
    BY <1>6, <2>1 DEF IInv, ModelsStay, InUse
<1>21. RowsAreReal' /\ Slicers' /\ DeletedJobsLeaveNoFiles'
  BY <1>6 DEF IInv, RowsAreReal, Slicers, InUse, DeletedJobsLeaveNoFiles, Unlink
<1> QED
  BY <1>5, <1>6, <1>14, <1>15, <1>16, <1>17, <1>18, <1>19, <1>20, <1>21 DEF IInv

\* The commit of a run keeps the invariant.
LEMMA CommitStep ==
  ASSUME IInv, NEW r \in Runs, Commit(r)
  PROVE  IInv'
<1> DEFINE gone(j) == [rows[j] EXCEPT !.status = "DELETED", !.gone = TRUE]
<1>1. rows \in [Jobs -> Row] /\ run \in [Runs -> RunRecord] /\ run[r].held \subseteq Jobs
  BY RunRecords DEF IInv, TypeOK, RunRecord
<1>2. \A j \in Jobs : rows'[j] = IF j \in run[r].held THEN gone(j) ELSE rows[j]
  BY DEF Commit
<1>3. \A j \in Jobs : /\ gone(j) \in Row /\ gone(j).status = "DELETED"
                      /\ gone(j).artifacts = rows[j].artifacts
                      /\ gone(j).due = rows[j].due
  BY <1>1 DEF Row, Statuses
<1>4. \A j \in Jobs : RealRow(gone(j))
  BY <1>3 DEF RealRow, Over
<1>5. rows' \in [Jobs -> Row]
  <2>1. rows' = [j \in Jobs |-> IF j \in run[r].held THEN gone(j) ELSE rows[j]]
    BY DEF Commit
  <2> HIDE DEF gone
  <2> QED
    BY <1>1, <1>3, <2>1
<1> HIDE DEF gone
<1>6. \A j \in Jobs : /\ rows'[j].artifacts = rows[j].artifacts
                      /\ rows'[j].due = rows[j].due
  BY <1>2, <1>3
<1>7. run' = [run EXCEPT ![r] = NoRun] /\ disk' = disk /\ slicing' = slicing
  BY DEF Commit, GiveUp
<1>8. NoRun \in RunRecord /\ NoRun.todo = <<>> /\ NoRun.held = {} /\ NoRun.freed = {} /\ Busy(NoRun)
  BY DEF NoRun, RunRecord, Busy
<1>9. run'[r] = NoRun /\ \A q \in Runs : q # r => run'[q] = run[q]
  BY <1>1, <1>7
<1>10. run' \in [Runs -> RunRecord]
  BY <1>1, <1>7, <1>8
<1>11. TypeOK'
  BY <1>5, <1>7, <1>10, RunRecords DEF IInv, TypeOK, Commit
<1>12. RowsAreReal'
  BY <1>2, <1>4 DEF IInv, RowsAreReal
<1>13. Selections'
  <2> SUFFICES ASSUME NEW q \in Runs, q # r, NEW i \in DOMAIN run[q].todo
               PROVE  Sound(run[q].todo[i], rows', disk)
    <3>1. DOMAIN NoRun.todo = {}
      BY <1>8
    <3> QED
      BY <1>7, <1>9, <3>1 DEF Selections
  <2> DEFINE e == run[q].todo[i]
  <2>1. Sound(e, rows, disk)
    BY DEF IInv, Selections
  <2>2. e.job \in Jobs
    <3>1. run[q].todo \in Seq(Entry)
      BY <1>1 DEF RunRecord
    <3>2. e \in Entry
      BY <3>1
    <3> QED
      BY <3>2 DEF Entry
  <2>3. rows[e.job].due
    BY <2>1 DEF Sound
  <2>4. rows'[e.job].due /\ rows'[e.job].artifacts = rows[e.job].artifacts
    BY <1>6, <2>2, <2>3
  <2>5. Sound(e, rows', disk)
    <3> HIDE DEF e
    <3> QED
      BY <2>1, <2>4, SoundKept
  <2> QED
    BY <2>5
<1>14. Flushed'
  <2> SUFFICES ASSUME NEW q \in Runs, q # r, NEW k \in run[q].held
               PROVE  Bare(k, rows', disk)
    BY <1>7, <1>8, <1>9 DEF Flushed
  <2>1. Bare(k, rows, disk) /\ k \in Jobs
    BY <1>1 DEF IInv, Flushed, RunRecord
  <2> QED
    BY <1>6, <2>1 DEF Bare, Named
<1>15. FreedForGood'
  <2> SUFFICES ASSUME NEW q \in Runs, q # r, NEW g \in run[q].freed
               PROVE  g \notin disk /\ rows'[g.job].due
    BY <1>7, <1>8, <1>9 DEF FreedForGood
  <2>1. g \notin disk /\ rows[g.job].due /\ g.job \in Jobs
    BY <1>1 DEF IInv, FreedForGood, RunRecord, Files
  <2> QED
    BY <1>6, <2>1
<1>16. Unlinking' /\ FilesAreFreedOnce'
  BY <1>8, <1>9 DEF IInv, Unlinking, FilesAreFreedOnce
<1>17. ModelsStay' /\ Slicers'
  <2>1. \A j \in Jobs : InUse(j) => rows'[j] = rows[j]
    BY <1>2, RunFacts DEF Bare, InUse
  <2>2. \A j \in Jobs : InUse(j)' => InUse(j)
    BY <1>2, <1>3 DEF InUse
  <2>3. ModelsStay'
    BY <1>7, <2>2 DEF IInv, ModelsStay
  <2>4. \A j \in Jobs : slicing[j] > 0 => InUse(j)'
    BY <2>1 DEF IInv, Slicers, InUse
  <2>5. Slicers'
    BY <1>6, <1>7, <2>4 DEF IInv, Slicers
  <2> QED
    BY <2>3, <2>5
<1>18. DeletedJobsLeaveNoFiles'
  <2>1. \A j \in run[r].held : Bare(j, rows, disk)
    BY RunFacts
  <2>2. \A j \in run[r].held : Stl(j) \notin disk /\ (rows[j].artifacts > 0 => Gcode(j) \notin disk)
    BY <2>1 DEF Bare, Named
  <2> QED
    BY <1>2, <1>3, <1>7, <2>2 DEF IInv, DeletedJobsLeaveNoFiles
<1> QED
  BY <1>11, <1>12, <1>13, <1>14, <1>15, <1>16, <1>17, <1>18 DEF IInv

-----------------------------------------------------------------------------
(* The theorems.                                                           *)

\* The invariant holds at the start.
LEMMA InvInit == Init => IInv
<1> SUFFICES ASSUME Init PROVE IInv
  OBVIOUS
<1>1. NoRun \in RunRecord /\ NoRun.todo = <<>> /\ NoRun.held = {} /\ NoRun.freed = {} /\ Busy(NoRun)
  BY DEF NoRun, RunRecord, Busy
<1>2. \A r \in Runs : run[r] = NoRun
  BY DEF Init
<1>3. TypeOK
  <2>1. run \in [Runs -> RunRecord]
    BY <1>1 DEF Init
  <2>2. rows \in [Jobs -> Row]
    BY RetentionBounds DEF Init, Row
  <2> QED
    BY <2>1, <2>2, RunRecords, RetentionBounds DEF Init, TypeOK
<1>4. RowsAreReal /\ Slicers /\ ModelsStay
  BY RetentionBounds DEF Init, RowsAreReal, RealRow, Slicers, ModelsStay, InUse
<1>5. Selections
  <2>1. DOMAIN NoRun.todo = {}
    BY <1>1
  <2> QED
    BY <1>2, <2>1 DEF Selections
<1>6. Unlinking /\ Flushed /\ FreedForGood /\ FilesAreFreedOnce
  BY <1>1, <1>2 DEF Unlinking, Flushed, FreedForGood, FilesAreFreedOnce
<1>7. DeletedJobsLeaveNoFiles
  BY DEF Init, DeletedJobsLeaveNoFiles
<1> QED
  BY <1>3, <1>4, <1>5, <1>6, <1>7 DEF IInv

\* Every step keeps the invariant.
LEMMA InvStep == IInv /\ [Next]_vars => IInv'
<1> SUFFICES ASSUME IInv, [Next]_vars PROVE IInv'
  OBVIOUS
<1>1. ASSUME NEW j \in Jobs, Live(j) PROVE IInv'
  BY <1>1, UploadSteps, SliceSteps, MoveStep, AgeStep DEF Live
<1>2. ASSUME NEW r \in Runs, Begin(r) \/ Proceed(r) \/ Die(r) PROVE IInv'
  BY <1>2, BeginStep, ExamineStep, UnlinkStep, FlushStep, CommitStep, GivingUpSteps DEF Proceed
<1>3. CASE UNCHANGED vars
  BY <1>3 DEF vars, IInv, TypeOK, RowsAreReal, Slicers, ModelsStay, InUse, Selections, Unlinking,
              Flushed, FreedForGood, DeletedJobsLeaveNoFiles, FilesAreFreedOnce
<1> QED
  BY <1>1, <1>2, <1>3 DEF Next

(* The invariant holds throughout.                                         *)
LEMMA Invariance == Spec => []IInv
BY InvInit, InvStep, PTL DEF Spec

(* Every variable has its type, for any number of jobs and runs.           *)
THEOREM TypeCorrectness == Spec => []TypeOK
<1>1. IInv => TypeOK
  BY DEF IInv
<1> QED
  BY Invariance, <1>1, PTL

(* However many runs overlap or die and wherever an upload is cut off, a   *)
(* job that may still be sliced or printed has its model on disk.          *)
THEOREM ModelsAreKept == Spec => []PrintableJobsHaveTheirModel
<1>1. IInv => PrintableJobsHaveTheirModel
  BY DEF IInv, RowsAreReal, RealRow, ModelsStay, InUse, Over, Printable, PrintableJobsHaveTheirModel
<1> QED
  BY Invariance, <1>1, PTL

(* A job marked DELETED has left no file its rows name, whichever of the   *)
(* runs that worked on it removed which.                                   *)
THEOREM NothingIsLeft == Spec => []DeletedJobsLeaveNoFiles
<1>1. IInv => DeletedJobsLeaveNoFiles
  BY DEF IInv
<1> QED
  BY Invariance, <1>1, PTL

(* Of any number of overlapping runs no two count one file as freed.       *)
THEOREM FreedOnce == Spec => []FilesAreFreedOnce
<1>1. IInv => FilesAreFreedOnce
  BY DEF IInv
<1> QED
  BY Invariance, <1>1, PTL

(* No run, however old its selection, removes a file before its job is due. *)
THEOREM OnlyDueFilesAreRemoved == Spec => OnlyDueFilesVanish
<1> DEFINE A == \A f \in disk \ disk' : rows[f.job].due
<1>1. IInv /\ [Next]_vars => [A]_vars
  <2> SUFFICES ASSUME IInv, Next PROVE A
    OBVIOUS
  <2>1. ASSUME NEW j \in Jobs, Live(j) PROVE A
    BY <2>1 DEF Live, UploadWrite, UploadCommit, SliceStart, SliceWrite, SliceEnd, Move, Age
  <2>2. ASSUME NEW r \in Runs, Unlink(r) PROVE A
    BY <2>2, UnlinkStep
  <2>3. ASSUME NEW r \in Runs, Begin(r) \/ Proceed(r) \/ Die(r), ~Unlink(r) PROVE A
    BY <2>3 DEF Begin, Proceed, Examine, Missing, Flush, Deadlock, Commit, Die
  <2> QED
    BY <2>1, <2>2, <2>3 DEF Next
<1> HIDE DEF A
<1>2. Spec => [][A]_vars
  BY Invariance, <1>1, PTL DEF Spec
<1> QED
  BY <1>2 DEF A, OnlyDueFilesVanish

-----------------------------------------------------------------------------
(* The store of files behind it.                                           *)

\* What the store sees.
Due == {j \in Jobs : rows[j].due}

Erased == {j \in Jobs : rows[j].status = "DELETED"}

\* What the disk holds for the jobs of a table.
Records(table, store) ==
  {f \in store : IF f.kind = "stl" THEN table[f.job].status # "NONE"
                                   ELSE table[f.job].artifacts > 0}

(* The one file that a step of a job may give it.                          *)
LEMMA FileOf ==
  ASSUME NEW f \in Files
  PROVE  f.job \in Jobs /\ (f = Stl(f.job) \/ f = Gcode(f.job))
         /\ (f.kind = "stl" <=> f = Stl(f.job))
BY DEF Files, Stl, Gcode

(* A step that the store does not see.                                     *)
LEMMA Unseen ==
  ASSUME Recorded' = Recorded, Due' = Due, Erased' = Erased
  PROVE  UNCHANGED Store!vars
BY DEF Store!vars, Due, Erased

(* A job that is neither due nor erased gets a file, perhaps once more.    *)
LEMMA Stores ==
  ASSUME NEW f \in Files, f.job \notin Due \cup Erased,
         Recorded' = Recorded \cup {f}, Due' = Due, Erased' = Erased
  PROVE  Store!Next
<1>1. Store!Store(f)
  BY DEF Store!Store, Due, Erased
<1> QED
  BY <1>1 DEF Store!Next

\* A file written is seen by the store when a row names it already.
LEMMA WriteStores ==
  ASSUME IInv, NEW f \in Files, Open(f.job), disk' = disk \cup {f}, rows' = rows
  PROVE  Store!Next \/ UNCHANGED Store!vars
<1>1. Due' = Due /\ Erased' = Erased
  BY DEF Due, Erased
<1>2. f.job \notin Due \cup Erased
  BY DEF Due, Erased, Open
<1>3. Recorded' = Recorded \cup {f} \/ Recorded' = Recorded
  BY DEF Recorded
<1> QED
  BY <1>1, <1>2, <1>3, Unseen, Stores

\* Of the files of its job a table names f besides, at most.
Adds(table, f) ==
  /\ \A g \in Files : g.job = f.job /\ g # f =>
       (g \in Records(rows, disk) <=> g \in Records(table, disk))
  /\ f \in Records(rows, disk) => f \in Records(table, disk)

\* A row that changes names at most one file that it did not name before.
LEMMA RowStores ==
  ASSUME IInv, NEW j \in Jobs, NEW row \in Row, NEW f \in Files, f.job = j,
         rows' = [rows EXCEPT ![j] = row], disk' = disk,
         Open(j), row.status # "DELETED", ~row.due, Adds(rows', f)
  PROVE  Store!Next \/ UNCHANGED Store!vars
<1>1. rows \in [Jobs -> Row] /\ disk \subseteq Files
  BY DEF IInv, TypeOK
<1>2. rows'[j] = row /\ \A k \in Jobs : k # j => rows'[k] = rows[k]
  BY <1>1
<1>3. Due' = Due /\ Erased' = Erased /\ j \notin Due \cup Erased
  BY <1>1, <1>2 DEF Due, Erased, Open
<1>4. Recorded = Records(rows, disk) /\ Recorded' = Records(rows', disk)
  BY DEF Recorded, Records
<1>5. \A g \in Files : g.job # j => (g \in Recorded <=> g \in Recorded')
  BY <1>2, <1>4, FileOf DEF Records
<1>6. \A g \in Files : g # f => (g \in Recorded <=> g \in Recorded')
  BY <1>4, <1>5 DEF Adds
<1>7. Recorded \subseteq Files /\ Recorded' \subseteq Files
  BY <1>1 DEF Recorded
<1>8. f \in Recorded => f \in Recorded'
  BY <1>4 DEF Adds
<1>9. Recorded' = Recorded \cup {f} \/ Recorded' = Recorded
  <2>1. CASE f \in Recorded'
    <3>1. \A g : g \in Recorded' <=> g \in Recorded \cup {f}
      BY <1>6, <1>7, <2>1
    <3> QED
      BY <3>1
  <2>2. CASE f \notin Recorded'
    <3>1. \A g : g \in Recorded' <=> g \in Recorded
      BY <1>6, <1>7, <1>8, <2>2
    <3> QED
      BY <3>1
  <2> QED
    BY <2>1, <2>2
<1> QED
  BY <1>3, <1>9, Unseen, Stores

(* A status is set: the model of a new job is recorded, or nothing is seen. *)
LEMMA SetStores ==
  ASSUME IInv, NEW j \in Jobs, Open(j), NEW t \in Statuses \ {"DELETED"},
         SetStatus(j, t), disk' = disk
  PROVE  Store!Next \/ UNCHANGED Store!vars
<1>1. PICK row \in Row : /\ rows' = [rows EXCEPT ![j] = row]
                         /\ row.status = t /\ row.due = FALSE
                         /\ row.gone = rows[j].gone /\ row.artifacts = rows[j].artifacts
  BY SetRow
<1>2. rows'[j] = row /\ row.status \notin {"NONE", "DELETED"}
  BY <1>1 DEF IInv, TypeOK, Statuses
<1>3. Stl(j) \in Files /\ Stl(j).job = j /\ Stl(j).kind = "stl"
  BY DEF Stl, Files
<1>4. Adds(rows', Stl(j))
  BY <1>1, <1>2, <1>3, FileOf DEF Adds, Records
<1> QED
  BY <1>1, <1>2, <1>3, <1>4, RowStores

\* A job that falls due.
LEMMA AgeStores ==
  ASSUME IInv, NEW j \in Jobs, Age(j)
  PROVE  Store!Next
<1>1. rows[j] \in Row /\ rows \in [Jobs -> Row] /\ disk \subseteq Files
  BY DEF IInv, TypeOK
<1> DEFINE row == [rows[j] EXCEPT !.due = TRUE]
<1>2. row \in Row /\ row.status = rows[j].status /\ row.due /\ row.artifacts = rows[j].artifacts
  BY <1>1 DEF Row
<1>3. rows' = [rows EXCEPT ![j] = row] /\ disk' = disk /\ rows[j].status # "DELETED"
  BY <1>1 DEF Age, Row, RetentionRules
<1> HIDE DEF row
<1>4. rows'[j] = row /\ \A k \in Jobs : k # j => rows'[k] = rows[k]
  BY <1>1, <1>3
<1>5. Due' = Due \cup {j} /\ Erased' = Erased /\ j \notin Erased
  BY <1>2, <1>3, <1>4 DEF Due, Erased
<1>6. \A g \in disk : /\ rows'[g.job].status = rows[g.job].status
                      /\ rows'[g.job].artifacts = rows[g.job].artifacts
  BY <1>1, <1>2, <1>4, FileOf
<1>7. Recorded' = Recorded
  BY <1>3, <1>6 DEF Recorded
<1>8. Store!FallDue(j)
  BY <1>5, <1>7 DEF Store!FallDue, Due, Erased
<1> QED
  BY <1>8 DEF Store!Next

\* The steps of a job: it gets a file, falls due, or nothing is to be seen.
LEMMA LiveStores ==
  ASSUME IInv, NEW j \in Jobs, Live(j)
  PROVE  Store!Next \/ UNCHANGED Store!vars
<1>1. /\ Stl(j) \in Files /\ Stl(j).job = j
      /\ Gcode(j) \in Files /\ Gcode(j).job = j /\ Gcode(j).kind = "gcode"
  BY DEF Stl, Gcode, Files
<1>2. {"SUBMITTED", "SLICING", "FAILED"} \cup Commits \subseteq Statuses \ {"DELETED"}
  BY CommitsAssumption DEF Committed, Statuses
<1>3. CASE UploadWrite(j)
  BY <1>1, <1>3, NewFacts, WriteStores DEF UploadWrite
<1>4. CASE UploadCommit(j)
  BY <1>2, <1>4, NewFacts, SetStores DEF UploadCommit
<1>5. CASE SliceStart(j)
  BY <1>2, <1>5, InUseFacts, SetStores DEF SliceStart
<1>6. CASE SliceWrite(j)
  BY <1>1, <1>6, InUseFacts, WriteStores DEF SliceWrite
<1>7. CASE SliceEnd(j)
  <2>1. Open(j) /\ rows[j].status # "NONE" /\ disk' = disk /\ slicing[j] > 0
    BY <1>7, InUseFacts DEF SliceEnd
  <2>2. CASE SetStatus(j, "FAILED")
    BY <1>2, <2>1, <2>2, SetStores
  <2>3. CASE rows' = [rows EXCEPT ![j].status = "SLICED", ![j].artifacts = @ + 1]
    <3>1. PICK row \in Row :
            /\ rows' = [rows EXCEPT ![j] = row]
            /\ row.status = "SLICED" /\ row.due = rows[j].due
            /\ row.gone = rows[j].gone /\ row.artifacts = rows[j].artifacts + 1
            /\ row.artifacts > 0
      BY <2>1, <2>3, SlicedRow
    <3>2. rows'[j] = row /\ ~row.due /\ row.status # "DELETED"
      BY <2>1, <3>1 DEF IInv, TypeOK, Open
    <3>3. Adds(rows', Gcode(j))
      BY <1>1, <2>1, <3>1, <3>2, FileOf DEF Adds, Records
    <3> QED
      BY <1>1, <2>1, <3>1, <3>2, <3>3, RowStores
  <2>4. CASE rows' = rows
    <3>1. Recorded' = Recorded /\ Due' = Due /\ Erased' = Erased
      BY <2>1, <2>4 DEF Recorded, Due, Erased
    <3> QED
      BY <3>1, Unseen
  <2> QED
    BY <1>7, <2>2, <2>3, <2>4 DEF SliceEnd
<1>8. CASE Move(j)
  <2>1. PICK t \in Commits : SetStatus(j, t)
    BY <1>8 DEF Move
  <2>2. Open(j) /\ disk' = disk
    BY <1>8, InUseFacts DEF Move
  <2> QED
    BY <1>2, <2>1, <2>2, SetStores
<1>9. CASE Age(j)
  BY <1>9, AgeStores
<1> QED
  BY <1>3, <1>4, <1>5, <1>6, <1>7, <1>8, <1>9 DEF Live

\* A run removes a file of a job that is due.
LEMMA UnlinkStores ==
  ASSUME IInv, NEW r \in Runs, Unlink(r)
  PROVE  Store!Next \/ UNCHANGED Store!vars
<1> DEFINE f == Head(Current(r).files)
<1>1. f \in disk /\ disk' = disk \ {f} /\ rows' = rows /\ disk \subseteq Files
  BY DEF Unlink, IInv, TypeOK
<1>2. rows[f.job].due /\ f \in Files
  BY <1>1, UnlinkStep
<1> HIDE DEF f
<1>3. Recorded' = Recorded \ {f}
  BY <1>1 DEF Recorded
<1>4. Store!Remove(f)
  BY <1>1, <1>2, <1>3, FileOf DEF Store!Remove
<1> QED
  BY <1>2, <1>4 DEF Store!Next

\* A run erases the jobs whose rows it has flushed.
LEMMA CommitStores ==
  ASSUME IInv, NEW r \in Runs, Commit(r)
  PROVE  Store!Next
<1>0. PICK J : J = run[r].held
  OBVIOUS
<1>1. rows \in [Jobs -> Row] /\ J \subseteq Jobs /\ disk \subseteq Files
  BY <1>0, RunRecords DEF IInv, TypeOK, RunRecord
<1>2. \A j \in J : rows[j].due /\ Bare(j, rows, disk)
  BY <1>0, RunFacts DEF Bare
<1>3. disk' = disk
  BY DEF Commit
<1>4. \A j \in Jobs : /\ rows'[j].due = rows[j].due
                      /\ rows'[j].artifacts = rows[j].artifacts
                      /\ rows'[j].status = IF j \in J THEN "DELETED" ELSE rows[j].status
  <2>1. \A j \in Jobs : LET row == [rows[j] EXCEPT !.status = "DELETED", !.gone = TRUE]
                        IN  /\ row.due = rows[j].due /\ row.status = "DELETED"
                            /\ row.artifacts = rows[j].artifacts
    BY <1>1 DEF Row
  <2> QED
    BY <1>0, <2>1 DEF Commit
<1>5. J \subseteq Due /\ Due' = Due /\ Erased' = Erased \cup J
  BY <1>1, <1>2, <1>4 DEF Due, Erased
<1>6. \A f \in Recorded : f.job \notin J
  <2> SUFFICES ASSUME NEW f \in Recorded, f.job \in J
               PROVE  FALSE
    OBVIOUS
  <2>1. f \in disk /\ f \in Files
    BY <1>1 DEF Recorded
  <2>2. f \in Named(f.job, rows)
    BY <2>1, FileOf DEF Recorded, Named
  <2> QED
    BY <1>2, <2>1, <2>2 DEF Bare
<1>7. \A j \in J : rows[j].status # "NONE"
  BY <1>1, <1>2 DEF IInv, RowsAreReal, RealRow, Over
<1>8. Recorded' = Recorded
  <2>1. \A f \in disk : /\ rows'[f.job].artifacts = rows[f.job].artifacts
                        /\ rows'[f.job].status # "NONE" <=> rows[f.job].status # "NONE"
    BY <1>1, <1>4, <1>7, FileOf
  <2>2. \A f : f \in Recorded' <=> f \in Recorded
    BY <1>3, <2>1 DEF Recorded
  <2> QED
    BY <2>2
<1>9. Store!Erase(J)
  BY <1>5, <1>6, <1>8 DEF Store!Erase, Due, Erased
<1>10. J \in SUBSET Jobs
  BY <1>1
<1> QED
  BY <1>9, <1>10 DEF Store!Next

(* Behind uploads, slices and any number of overlapping runs, some cut     *)
(* off, there is a store of files: a job that is due gets no file and is   *)
(* never revived, and it is deleted for good, after all its files.         *)
THEOREM ImplementsTheStore == Spec => ImplementsFileStore
<1>1. Init => Store!Init
  <2> SUFFICES ASSUME Init PROVE Store!Init
    OBVIOUS
  <2>1. \A j \in Jobs : ~rows[j].due /\ rows[j].status = "NONE"
    BY DEF Init
  <2>2. disk = {}
    BY DEF Init
  <2> QED
    BY <2>1, <2>2 DEF Store!Init, Recorded
<1>2. IInv /\ [Next]_vars => [Store!Next]_(Store!vars)
  <2> SUFFICES ASSUME IInv, [Next]_vars
               PROVE  Store!Next \/ UNCHANGED Store!vars
    OBVIOUS
  <2>1. ASSUME rows' = rows, disk' = disk
        PROVE  UNCHANGED Store!vars
    BY <2>1 DEF Store!vars, Recorded
  <2>2. ASSUME NEW j \in Jobs, Live(j)
        PROVE  Store!Next \/ UNCHANGED Store!vars
    BY <2>2, LiveStores
  <2>3. ASSUME NEW r \in Runs, Unlink(r) \/ Commit(r)
        PROVE  Store!Next \/ UNCHANGED Store!vars
    BY <2>3, UnlinkStores, CommitStores
  <2>4. ASSUME NEW r \in Runs, Begin(r) \/ Examine(r) \/ Missing(r) \/ Flush(r) \/ Deadlock(r) \/ Die(r)
        PROVE  rows' = rows /\ disk' = disk
    BY <2>4 DEF Begin, Examine, Missing, Flush, Deadlock, Die
  <2>5. CASE UNCHANGED vars
    BY <2>1, <2>5 DEF vars
  <2> QED
    BY <2>1, <2>2, <2>3, <2>4, <2>5 DEF Next, Proceed
<1> QED
  BY <1>1, <1>2, Invariance, PTL DEF Spec, ImplementsFileStore, Store!Spec

=============================================================================
