----------------------------- MODULE QueueService -----------------------------
(***************************************************************************)
(* The queue and the approval services as the database sees them: requests *)
(* run in a pool of worker threads, each with a session of its own, and    *)
(* their statements interleave under READ COMMITTED.                       *)
(*                                                                         *)
(* A session is an identity map: the first SELECT that returns a row makes *)
(* an object of it, later SELECTs return the same object unrefreshed, and  *)
(* a commit emits an UPDATE of just the attributes that differ from what   *)
(* was loaded, then expires every object.  No row is locked or versioned   *)
(* between the load and the commit.  The flush inside log_action and the   *)
(* commit that follows it are one step: the transaction reads nothing in   *)
(* between, and no other one sees the flushed rows before the commit.      *)
(* A request whose guard fails answers 409 and changes nothing: it is no   *)
(* step here.  Created rows only: jobs start as uploaded.                  *)
(***************************************************************************)
EXTENDS Naturals, Sequences, FiniteSets, SequencesExt, JobStatus

CONSTANTS Jobs,          \* the uploaded print jobs
          Workers,       \* the threads that serve requests
          Requests,      \* the kinds of request the clients send
          ReorderLists,  \* the lists of ids a reorder request may carry
          MaxPosition,   \* bound: no job is enqueued beyond this position
          NoJob          \* the subject of a worker that serves no job

ASSUME JobsAssumption == IsFiniteSet(Jobs) /\ NoJob \notin Jobs
ASSUME ListsAssumption == \A l \in ReorderLists : l \in Seq(Jobs)
ASSUME BoundAssumption == MaxPosition \in Nat

VARIABLES rows,     \* the committed table print_jobs
          pc,       \* the next statement of each worker
          subject,  \* the job its request names
          session,  \* its identity map: the row as loaded, or NotLoaded
          order,    \* the ids it is about to number
          next      \* the position it computed from MAX(queue_position)

vars == <<rows, pc, subject, session, order, next>>

-----------------------------------------------------------------------------
(* Rows, queries and the unit of work.                                     *)

NoPosition == 0

\* started stands for started_at IS NOT NULL.
Row == [status: Statuses, position: Nat, started: BOOLEAN]

NotLoaded == [status |-> "NOT_LOADED", position |-> NoPosition, started |-> FALSE]

Positioned(r) == {j \in Jobs : r[j].position # NoPosition}

\* The lists get_queue may return: rows of equal position come in any order.
QueueOrders(r) ==
  {q \in SetToSeqs(Positioned(r)) :
     \A i, k \in DOMAIN q : i < k => r[q[i]].position <= r[q[k]].position}

\* Mutant: the position after the last one taken from the number of jobs.
NextPositionByCount(r) == 1 + Cardinality(Positioned(r))

NextPosition(r) == 1 + Max({NoPosition} \cup {r[j].position : j \in Jobs})

\* The identity map of a worker after a SELECT that returns the rows of S.
Reading(w, S) ==
  [j \in Jobs |-> IF j \in S /\ session[w][j] = NotLoaded
                  THEN rows[j] ELSE session[w][j]]

\* The row an UPDATE leaves: only attributes changed since the load are set.
Written(row, loaded, assigned) ==
  [status   |-> IF assigned.status = loaded.status
                THEN row.status ELSE assigned.status,
   position |-> IF assigned.position = loaded.position
                THEN row.position ELSE assigned.position,
   started  |-> IF assigned.started = loaded.started
                THEN row.started ELSE assigned.started]

Commit(w, assigned) ==
  rows' = [j \in Jobs |-> IF session[w][j] = NotLoaded
                          THEN rows[j]
                          ELSE Written(rows[j], session[w][j], assigned[j])]

\* The loaded objects with row as the new content of the subject.
Assign(w, row) == [session[w] EXCEPT ![subject[w]] = row]

\* Where an enumeration of the list l, starting at 1, leaves job j: an id
\* that occurs twice keeps the index of its last occurrence.
Place(l, j) == Max({i \in DOMAIN l : l[i] = j})

\* The loaded objects after the loop over `order` that numbers them.
Numbered(w) ==
  [j \in Jobs |-> IF j \in ToSet(order[w])
                  THEN [session[w][j] EXCEPT !.position = Place(order[w], j)]
                  ELSE session[w][j]]

\* Every object expired, nothing kept from this transaction.
Expire(w, label) ==
  /\ pc' = [pc EXCEPT ![w] = label]
  /\ subject' = [subject EXCEPT ![w] = NoJob]
  /\ session' = [session EXCEPT ![w] = [j \in Jobs |-> NotLoaded]]
  /\ order' = [order EXCEPT ![w] = <<>>]
  /\ next' = [next EXCEPT ![w] = NoPosition]

Finish(w) == Expire(w, "idle")

-----------------------------------------------------------------------------

Init == /\ rows = [j \in Jobs |-> [status |-> "SUBMITTED", position |-> NoPosition,
                                   started |-> FALSE]]
        /\ pc = [w \in Workers |-> "idle"]
        /\ subject = [w \in Workers |-> NoJob]
        /\ session = [w \in Workers |-> [j \in Jobs |-> NotLoaded]]
        /\ order = [w \in Workers |-> <<>>]
        /\ next = [w \in Workers |-> NoPosition]

\* A request about job j arrives and loads it; the handler then stands at label.
Open(w, j, kind, label) ==
  /\ kind \in Requests
  /\ pc[w] = "idle"
  /\ pc' = [pc EXCEPT ![w] = label]
  /\ subject' = [subject EXCEPT ![w] = j]
  /\ session' = [session EXCEPT ![w] = Reading(w, {j})]
  /\ UNCHANGED <<rows, order, next>>

-----------------------------------------------------------------------------
(* Requests that change nothing but the status.                            *)

Approve(w, j)   == Allowed(rows[j].status, "APPROVED")  /\ Open(w, j, "approve", "approve")
Reject(w, j)    == Allowed(rows[j].status, "REJECTED")  /\ Open(w, j, "reject", "reject")
Unapprove(w, j) == Allowed(rows[j].status, "SUBMITTED") /\ Open(w, j, "unapprove", "unapprove")

\* Any request for a printing job first asks the printer; the answer is the
\* printer's own, and the status is set without a look at the table.
Sync(w, j) == /\ rows[j].status = "PRINTING"
              /\ \E answer \in {"finished", "error"} : Open(w, j, "sync", answer)

\* Mutant: a status the enumeration does not have.
TargetMisspelt ==
  [approve |-> "APPROVED", reject |-> "REJECTED", unapprove |-> "SUBMITTED",
   finished |-> "DONE", error |-> "FAILED", sliced |-> "SLICED", sliceFailed |-> "FAILED"]

Target == [approve |-> "APPROVED", reject |-> "REJECTED", unapprove |-> "SUBMITTED",
           finished |-> "FINISHED", error |-> "FAILED",
           sliced |-> "SLICED", sliceFailed |-> "FAILED"]

SetStatus(w) ==
  /\ pc[w] \in DOMAIN Target
  /\ Commit(w, Assign(w, [session[w][subject[w]] EXCEPT !.status = Target[pc[w]]]))
  /\ Finish(w)

-----------------------------------------------------------------------------
(* slice_print_job: one transaction before the slicer runs, one after it.  *)

\* Mutant: no look at the table.
SliceUnchecked(w, j) == Open(w, j, "slice", "slice")

Slice(w, j) == Allowed(rows[j].status, "SLICING") /\ Open(w, j, "slice", "slice")

SliceBegin(w) ==
  /\ pc[w] = "slice"
  /\ Commit(w, Assign(w, [session[w][subject[w]] EXCEPT !.status = "SLICING"]))
  /\ pc' = [pc EXCEPT ![w] = "runSlicer"]
  /\ session' = [session EXCEPT ![w] = [j \in Jobs |-> NotLoaded]]
  /\ UNCHANGED <<subject, order, next>>

\* The expired job is loaded again for its input path, and OrcaSlicer runs.
RunSlicer(w) ==
  /\ pc[w] = "runSlicer"
  /\ session' = [session EXCEPT ![w] = Reading(w, {subject[w]})]
  /\ \E result \in {"sliced", "sliceFailed"} : pc' = [pc EXCEPT ![w] = result]
  /\ UNCHANGED <<rows, subject, order, next>>

-----------------------------------------------------------------------------
(* enqueue_job                                                             *)

\* Mutant: a failed print may be put in the queue again.
EnqueueFailedToo(w, j) ==
  /\ Allowed(rows[j].status, "QUEUED") \/ rows[j].status = "FAILED"
  /\ rows[j].position = NoPosition
  /\ Open(w, j, "enqueue", "enqueue")

Enqueue(w, j) == /\ Allowed(rows[j].status, "QUEUED")
                 /\ rows[j].position = NoPosition
                 /\ Open(w, j, "enqueue", "enqueue")

EnqueueMax(w) ==
  /\ pc[w] = "enqueue"
  /\ NextPosition(rows) <= MaxPosition
  /\ next' = [next EXCEPT ![w] = NextPosition(rows)]
  /\ pc' = [pc EXCEPT ![w] = "enqueueCommit"]
  /\ UNCHANGED <<rows, subject, session, order>>

EnqueueCommit(w) ==
  /\ pc[w] = "enqueueCommit"
  /\ Commit(w, Assign(w, [session[w][subject[w]] EXCEPT !.status = "QUEUED",
                                                        !.position = next[w]]))
  /\ Finish(w)

-----------------------------------------------------------------------------
(* remove_from_queue and start_print commit first and renumber afterwards, *)
(* in a transaction of its own.                                            *)

RemoveFromQueue(w, j) == /\ rows[j].position # NoPosition
                         /\ Allowed(rows[j].status, "APPROVED")
                         /\ Open(w, j, "remove", "remove")

\* Mutant: the status is left behind.
RemoveKeepsStatus(w) ==
  /\ pc[w] = "remove"
  /\ Commit(w, Assign(w, [session[w][subject[w]] EXCEPT !.position = NoPosition]))
  /\ Expire(w, "renumber")

RemoveCommit(w) ==
  /\ pc[w] = "remove"
  /\ Commit(w, Assign(w, [session[w][subject[w]] EXCEPT !.status = "APPROVED",
                                                        !.position = NoPosition]))
  /\ Expire(w, "renumber")

\* READY_TO_PRINT is assigned and checked in memory only; the driver takes
\* the artifact before anything is committed, or the request is given up.
StartPrint(w, j) == /\ Allowed(rows[j].status, "READY_TO_PRINT")
                    /\ Open(w, j, "start", "start")

\* Mutant: the position is left behind.
StartKeepsPosition(w) ==
  /\ pc[w] = "start"
  /\ Commit(w, Assign(w, [session[w][subject[w]] EXCEPT !.status = "PRINTING",
                                                        !.started = TRUE]))
  /\ Expire(w, "renumber")

StartCommit(w) ==
  /\ pc[w] = "start"
  /\ Commit(w, Assign(w, [session[w][subject[w]] EXCEPT !.status = "PRINTING",
                                                        !.position = NoPosition,
                                                        !.started = TRUE]))
  /\ Expire(w, IF session[w][subject[w]].position # NoPosition THEN "renumber" ELSE "idle")

RenumberRead(w) ==
  /\ pc[w] = "renumber"
  /\ \E q \in QueueOrders(rows) : order' = [order EXCEPT ![w] = q]
  /\ session' = [session EXCEPT ![w] = Reading(w, Positioned(rows))]
  /\ pc' = [pc EXCEPT ![w] = "renumberCommit"]
  /\ UNCHANGED <<rows, subject, next>>

RenumberCommit(w) ==
  /\ pc[w] = "renumberCommit"
  /\ Commit(w, Numbered(w))
  /\ Finish(w)

-----------------------------------------------------------------------------
(* reorder_queue, and move_job which ends in it.                           *)

Reorder(w, l) ==
  /\ "reorder" \in Requests
  /\ pc[w] = "idle"
  /\ order' = [order EXCEPT ![w] = l]
  /\ pc' = [pc EXCEPT ![w] = "reorder"]
  /\ UNCHANGED <<rows, subject, session, next>>

Move(w, j) == /\ rows[j].position # NoPosition
              /\ \E direction \in {"moveUp", "moveDown"} : Open(w, j, "move", direction)

\* The index the subject of w would take in the list q, 0 or beyond the end
\* when there is none.
SwapIndex(w, q) == IF pc[w] = "moveUp" THEN Place(q, subject[w]) - 1
                                       ELSE Place(q, subject[w]) + 1

MoveRead(w) ==
  /\ pc[w] \in {"moveUp", "moveDown"}
  /\ \E q \in QueueOrders(rows) :
       /\ subject[w] \in ToSet(q)
       /\ SwapIndex(w, q) \in DOMAIN q
       /\ order' = [order EXCEPT ![w] =
                      [q EXCEPT ![SwapIndex(w, q)] = subject[w],
                                ![Place(q, subject[w])] = q[SwapIndex(w, q)]]]
  /\ session' = [session EXCEPT ![w] = Reading(w, Positioned(rows))]
  /\ pc' = [pc EXCEPT ![w] = "reorder"]
  /\ UNCHANGED <<rows, subject, next>>

\* The job stands at the end already, or has left the queue since it was
\* loaded (the search for its index then fails).
MoveNowhere(w) ==
  /\ pc[w] \in {"moveUp", "moveDown"}
  /\ \E q \in QueueOrders(rows) : subject[w] \in ToSet(q) => SwapIndex(w, q) \notin DOMAIN q
  /\ Finish(w)
  /\ UNCHANGED rows

\* Mutant: a request may leave out jobs of the queue.
ReorderReadPart(w) ==
  /\ pc[w] = "reorder"
  /\ ToSet(order[w]) \subseteq Positioned(rows)
  /\ session' = [session EXCEPT ![w] = Reading(w, Positioned(rows))]
  /\ pc' = [pc EXCEPT ![w] = "reorderCommit"]
  /\ UNCHANGED <<rows, subject, order, next>>

\* The ids requested, as a set, are compared with the queue read again.
ReorderRead(w) ==
  /\ pc[w] = "reorder"
  /\ ToSet(order[w]) = Positioned(rows)
  /\ session' = [session EXCEPT ![w] = Reading(w, Positioned(rows))]
  /\ pc' = [pc EXCEPT ![w] = "reorderCommit"]
  /\ UNCHANGED <<rows, subject, order, next>>

ReorderRefused(w) ==
  /\ pc[w] = "reorder"
  /\ ToSet(order[w]) # Positioned(rows)
  /\ Finish(w)
  /\ UNCHANGED rows

ReorderCommit(w) ==
  /\ pc[w] = "reorderCommit"
  /\ Commit(w, Numbered(w))
  /\ Finish(w)

-----------------------------------------------------------------------------
\* An exception, a driver that refuses, a lost connection or a restart of
\* the process: what is not committed is rolled back.
Abort(w) == /\ pc[w] # "idle"
            /\ Finish(w)
            /\ UNCHANGED rows

Arrive(w) ==
  \/ \E j \in Jobs : \/ Approve(w, j)
                     \/ Reject(w, j)
                     \/ Unapprove(w, j)
                     \/ Sync(w, j)
                     \/ Slice(w, j)
                     \/ Enqueue(w, j)
                     \/ RemoveFromQueue(w, j)
                     \/ StartPrint(w, j)
                     \/ Move(w, j)
  \/ \E l \in ReorderLists : Reorder(w, l)

Proceed(w) ==
  \/ SetStatus(w)
  \/ SliceBegin(w)
  \/ RunSlicer(w)
  \/ EnqueueMax(w)
  \/ EnqueueCommit(w)
  \/ RemoveCommit(w)
  \/ StartCommit(w)
  \/ RenumberRead(w)
  \/ RenumberCommit(w)
  \/ MoveRead(w)
  \/ MoveNowhere(w)
  \/ ReorderRead(w)
  \/ ReorderRefused(w)
  \/ ReorderCommit(w)

Next == \E w \in Workers : Arrive(w) \/ Proceed(w) \/ Abort(w)

Spec == Init /\ [][Next]_vars

-----------------------------------------------------------------------------
(* Properties.                                                             *)

Labels == {"idle", "slice", "runSlicer", "enqueue", "enqueueCommit", "remove", "start",
           "renumber", "renumberCommit", "reorder", "moveUp", "moveDown",
           "reorderCommit"} \cup DOMAIN Target

\* Every variable has its type: rows are well-formed, and a worker holds
\* whole rows or nothing.
TypeOK == /\ rows \in [Jobs -> Row]
          /\ pc \in [Workers -> Labels]
          /\ subject \in [Workers -> Jobs \cup {NoJob}]
          /\ session \in [Workers -> [Jobs -> Row \cup {NotLoaded}]]
          /\ order \in [Workers -> Seq(Jobs)]
          /\ next \in [Workers -> Nat]

\* However requests interleave, a job whose status is QUEUED has a position
\* and so is in what get_queue returns: blind writes of stale objects never
\* make a queued job vanish from the queue page.
QueuedJobsArePositioned ==
  \A j \in Jobs : rows[j].status = "QUEUED" => rows[j].position # NoPosition

\* No two jobs hold the same position, so ORDER BY queue_position is the
\* order the teacher set (renumber_queue, "positions stay a dense 1..n").
PositionsAreDistinct ==
  \A j, k \in Positioned(rows) : rows[j].position = rows[k].position => j = k

\* A job that was handed to a printer is not offered for printing again.
StartedJobsLeftTheQueue ==
  \A j \in Jobs : rows[j].started => rows[j].position = NoPosition

Numbers(w) == RenumberCommit(w) \/ ReorderCommit(w)

\* Whoever numbers the queue leaves the positions 1..n: the gap that a removal,
\* a start or a careless reorder has left is closed, and a rearrangement opens
\* none (renumber_queue, "positions stay a dense 1..n sequence").  Only a list
\* that names a job twice leaves a gap, where the job stood before.
NumberingIsDense ==
  [][\A w \in Workers :
       Numbers(w) => \/ {rows'[j].position : j \in Positioned(rows)'}
                          = 1..Cardinality(Positioned(rows)')
                     \/ pc[w] = "reorderCommit" /\ ~IsInjective(order[w])]_vars

\* Served one at a time, whatever the order of the requests and wherever they
\* are cut off, every request moves a job along the table or not at all
\* (READY_TO_PRINT is passed through within a start).
StatusFollowsTheTable ==
  [][\A j \in Jobs : \/ rows'[j].status = rows[j].status
                     \/ Allowed(rows[j].status, rows'[j].status)
                     \/ rows[j].status = "QUEUED" /\ rows'[j].status = "PRINTING"]_vars

\* An approved job can be enqueued: it does not hold a position from an
\* earlier stay in the queue, which would make enqueue_job refuse it.
ApprovedJobsCanBeEnqueued ==
  \A j \in Jobs : rows[j].status = "APPROVED" => rows[j].position = NoPosition

\* The queue in the order get_queue lists it, and the jobs ever started.
Promise == INSTANCE PrintQueue
             WITH queue <- CHOOSE q \in QueueOrders(rows) : TRUE,
                  started <- {j \in Jobs : rows[j].started}

\* Requests served one at a time, crashes included, implement PrintQueue:
\* positions, gaps and renumbering are invisible in the list of jobs.
ImplementsPrintQueue == Promise!Spec
=============================================================================
