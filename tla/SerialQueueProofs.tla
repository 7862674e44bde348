--------------------------- MODULE SerialQueueProofs ---------------------------
(***************************************************************************)
(* Theorems about QueueService when requests are served one at a time, for *)
(* any number of jobs.  A session then holds the rows as they are, so what *)
(* a handler checks is true of the row until its commit, and an UPDATE     *)
(* leaves exactly what the handler assigned.  With a second worker each of *)
(* these theorems has a counterexample.                                    *)
(***************************************************************************)
EXTENDS QueueProofs

OneWorker == \A v, w \in Workers : v = w

OnceEach(l) == \A i, k \in DOMAIN l : l[i] = l[k] => i = k

\* The labels at which a handler is about to write the job it loaded.
Writing == DOMAIN Target \cup {"slice", "enqueue", "enqueueCommit", "remove", "start"}

\* The checks of a handler, of the row and not of the object it loaded.
RowAllows(w) ==
  LET row == rows[subject[w]] IN
  /\ pc[w] \in DOMAIN Target => Allowed(row.status, Target[pc[w]])
  /\ pc[w] = "slice" => Allowed(row.status, "SLICING")
  /\ pc[w] = "runSlicer" => row.status = "SLICING"
  /\ pc[w] \in {"enqueue", "enqueueCommit"} =>
       Allowed(row.status, "QUEUED") /\ row.position = NoPosition
  /\ pc[w] = "enqueueCommit" => \A j \in Jobs : rows[j].position < next[w]
  /\ pc[w] = "remove" => Allowed(row.status, "APPROVED")
  /\ pc[w] = "start" => Allowed(row.status, "READY_TO_PRINT")

Serial(w) ==
  /\ \A j \in Jobs : session[w][j] # NotLoaded => session[w][j] = rows[j]
  /\ pc[w] \in Writing => subject[w] \in Jobs /\ session[w][subject[w]] # NotLoaded
  /\ pc[w] = "runSlicer" => subject[w] \in Jobs
  /\ RowAllows(w)
  /\ pc[w] \in {"renumberCommit", "reorderCommit"} =>
       /\ ToSet(order[w]) = Positioned(rows)
       /\ \A j \in Positioned(rows) : session[w][j] # NotLoaded

\* StartedJobsLeftTheQueue with what keeps it: no started job comes back to
\* a status from which it could be queued.
StartedJobsStayAway ==
  \A j \in Jobs : rows[j].started =>
    rows[j].position = NoPosition /\ rows[j].status \in {"PRINTING", "FINISHED", "FAILED"}

TableInv == PositionsAreDistinct /\ StartedJobsStayAway

SInv == IInv /\ TableInv /\ \A w \in Workers : Serial(w)

\* What StatusFollowsTheTable asks of a step.
Follows ==
  \A j \in Jobs : \/ rows'[j].status = rows[j].status
                  \/ Allowed(rows[j].status, rows'[j].status)
                  \/ rows[j].status = "QUEUED" /\ rows'[j].status = "PRINTING"

-----------------------------------------------------------------------------
(* Lists.                                                                  *)

(* The list holds a job at the place the numbering finds for it.           *)
LEMMA PlaceHolds ==
  ASSUME NEW l \in Seq(Jobs), NEW j \in ToSet(l)
  PROVE  Place(l, j) \in 1..Len(l) /\ l[Place(l, j)] = j
<1> DEFINE S == {i \in DOMAIN l : l[i] = j}
<1>1. S \subseteq Nat /\ S # {} /\ Len(l) \in Nat /\ \A x \in S : x <= Len(l)
  BY DEF ToSet
<1>2. Max(S) \in S
  <2> HIDE DEF S
  <2> QED BY <1>1, MaxOfBounded
<1>3. Place(l, j) = Max(S)
  BY DEF Place
<1> QED BY <1>2, <1>3

(* The queue query returns every positioned job, and each once.            *)
LEMMA QueueOrdersList ==
  ASSUME NEW r \in [Jobs -> Row], NEW q \in QueueOrders(r)
  PROVE  ToSet(q) = Positioned(r) /\ OnceEach(q)
<1> DEFINE P == Positioned(r)
           D == 1..Cardinality(P)
<1>1. P \subseteq Jobs /\ IsFiniteSet(P)
  BY JobsAssumption, FS_Subset DEF Positioned
<1>2. Cardinality(P) \in Nat
  BY <1>1, FS_CardinalityType
<1>3. q \in [D -> P] /\ \A i, k \in D : i # k => q[i] # q[k]
  BY DEF QueueOrders, SetToSeqs
<1>4. IsFiniteSet(D) /\ Cardinality(D) = Cardinality(P)
  BY <1>2, FS_Interval
<1>5. q \in Injection(D, P)
  BY <1>3 DEF Injection, IsInjective
<1> HIDE DEF P, D
<1>6. q \in Surjection(D, P)
  BY <1>1, <1>4, <1>5, FS_Injection
<1>7. ToSet(q) = P
  BY <1>3, <1>6 DEF ToSet, Surjection
<1> QED BY <1>3, <1>7 DEF OnceEach, P

(* A list without repetitions numbers its jobs 1..n.                       *)
LEMMA PlacesAreDense ==
  ASSUME NEW l \in Seq(Jobs), OnceEach(l)
  PROVE  {Place(l, j) : j \in ToSet(l)} = 1..Cardinality(ToSet(l))
<1> DEFINE T == ToSet(l)
           D == 1..Len(l)
<1>1. Len(l) \in Nat /\ DOMAIN l = D
  OBVIOUS
<1>2. IsFiniteSet(D) /\ Cardinality(D) = Len(l)
  BY <1>1, FS_Interval
<1>3. l \in Bijection(D, T)
  BY <1>1 DEF OnceEach, ToSet, Bijection, Injection, IsInjective, Surjection
<1>4. Cardinality(T) = Len(l)
  <2>1. ExistsBijection(D, T)
    BY <1>3 DEF ExistsBijection
  <2> HIDE DEF D, T
  <2> QED BY <1>2, <2>1, FS_Bijection
<1>5. \A j \in T : Place(l, j) \in D /\ l[Place(l, j)] = j
  BY PlaceHolds
<1>6. \A i \in D : l[i] \in T /\ Place(l, l[i]) = i
  <2> TAKE i \in D
  <2>1. l[i] \in T
    BY <1>1 DEF ToSet
  <2>2. Place(l, l[i]) \in D /\ l[Place(l, l[i])] = l[i]
    BY <1>5, <2>1
  <2> QED BY <1>1, <2>1, <2>2 DEF OnceEach
<1>7. {Place(l, j) : j \in T} = D
  <2> HIDE DEF T, D
  <2> QED BY <1>5, <1>6
<1> QED BY <1>4, <1>7

(* The next position lies behind every position in use.                    *)
LEMMA NextPositionIsBehind ==
  ASSUME NEW r \in [Jobs -> Row], NEW j \in Jobs
  PROVE  r[j].position < NextPosition(r)
<1> DEFINE P == {r[k].position : k \in Jobs}
           S == {NoPosition} \cup P
<1>1. S \subseteq Nat /\ S # {} /\ r[j].position \in S
  BY DEF Row, NoPosition
<1>2. IsFiniteSet(P)
  <2> DEFINE f == [k \in Jobs |-> r[k].position]
  <2>1. f \in Surjection(Jobs, P)
    BY DEF Surjection
  <2> HIDE DEF f, P
  <2> QED BY <2>1, JobsAssumption, FS_Surjection
<1>3. IsFiniteSet(S)
  <2>1. S = P \cup {NoPosition}
    OBVIOUS
  <2> HIDE DEF P, S
  <2> QED BY <1>2, <2>1, FS_AddElement
<1>4. NextPosition(r) = 1 + Max(S)
  BY DEF NextPosition
<1> DEFINE p == r[j].position
<1>5. Max(S) \in Nat /\ p \in Nat /\ p <= Max(S)
  <2> HIDE DEF S, p
  <2> QED BY <1>1, <1>3, MaxOfFinite DEF p
<1> HIDE DEF S
<1> QED BY <1>4, <1>5

-----------------------------------------------------------------------------
(* What a commit does when nobody else wrote since the load.               *)

(* A commit leaves exactly what the handler assigned.                      *)
LEMMA CommitIsExact ==
  ASSUME TypeOK, NEW w \in Workers, Serial(w), NEW assigned, Commit(w, assigned),
         \A j \in Jobs : session[w][j] # NotLoaded => assigned[j] \in Row
  PROVE  \A j \in Jobs : rows'[j] = IF session[w][j] = NotLoaded THEN rows[j]
                                                                 ELSE assigned[j]
<1> SUFFICES ASSUME NEW j \in Jobs, session[w][j] # NotLoaded
             PROVE  rows'[j] = assigned[j]
  BY DEF Commit
<1>1. session[w][j] = rows[j] /\ rows[j] \in Row /\ assigned[j] \in Row
  BY DEF TypeOK, Serial
<1>2. rows'[j] = Written(rows[j], session[w][j], assigned[j])
  BY DEF Commit
<1> DEFINE a == assigned[j]
           r == rows[j]
<1>3. Written(r, r, a) = a
  <2>1. r \in Row /\ a \in Row
    BY <1>1
  <2> HIDE DEF a, r
  <2> QED BY <2>1 DEF Written, Row
<1> QED BY <1>1, <1>2, <1>3

(* Writing back the subject changes its row alone.                         *)
LEMMA AssignIsExact ==
  ASSUME TypeOK, NEW w \in Workers, Serial(w), NEW row \in Row,
         subject[w] \in Jobs, session[w][subject[w]] # NotLoaded,
         Commit(w, Assign(w, row))
  PROVE  rows' = [rows EXCEPT ![subject[w]] = row]
<1> DEFINE assigned == Assign(w, row)
<1>1. \A j \in Jobs : assigned[j] = IF j = subject[w] THEN row ELSE session[w][j]
  BY DEF Assign, TypeOK
<1> HIDE DEF assigned
<1>2. Commit(w, assigned)
  BY DEF assigned
<1>3. \A j \in Jobs : session[w][j] # NotLoaded => /\ assigned[j] \in Row
                                                   /\ session[w][j] = rows[j]
  BY <1>1 DEF TypeOK, Serial
<1>4. \A j \in Jobs : rows'[j] = IF session[w][j] = NotLoaded THEN rows[j] ELSE assigned[j]
  BY <1>2, <1>3, CommitIsExact
<1>5. \A j \in Jobs : rows'[j] = IF j = subject[w] THEN row ELSE rows[j]
  BY <1>1, <1>3, <1>4
<1>6. rows' = [j \in Jobs |-> rows'[j]] /\ rows \in [Jobs -> Row]
  BY DEF Commit, TypeOK
<1> QED BY <1>5, <1>6

(* A row rewritten keeps the table sound if it takes no position in use    *)
(* and a started job stays away.                                           *)
LEMMA OneRowKeepsTable ==
  ASSUME TypeOK, TableInv, NEW s \in Jobs, NEW row \in Row,
         rows' = [rows EXCEPT ![s] = row],
         \/ row.position = NoPosition
         \/ row.position = rows[s].position
         \/ \A j \in Jobs : rows[j].position # row.position,
         row.started => /\ row.position = NoPosition
                        /\ row.status \in {"PRINTING", "FINISHED", "FAILED"}
  PROVE  TableInv'
<1>1. \A j \in Jobs : rows'[j] = IF j = s THEN row ELSE rows[j]
  BY DEF TypeOK
<1>2. PositionsAreDistinct'
  BY <1>1 DEF TableInv, PositionsAreDistinct, Positioned
<1>3. StartedJobsStayAway'
  BY <1>1 DEF TableInv, StartedJobsStayAway
<1> QED BY <1>2, <1>3 DEF TableInv

(* A numbering writes the places of its list and nothing else.             *)
LEMMA NumberingIsExact ==
  ASSUME TypeOK, NEW w \in Workers, Serial(w), Commit(w, Numbered(w)),
         pc[w] \in {"renumberCommit", "reorderCommit"}
  PROVE  \A j \in Jobs :
           rows'[j] = IF j \in Positioned(rows)
                      THEN [rows[j] EXCEPT !.position = Place(order[w], j)]
                      ELSE rows[j]
<1> DEFINE assigned == Numbered(w)
<1>1. \A j \in Jobs : session[w][j] # NotLoaded => assigned[j] \in Row
  BY NumberedType
<1>2. \A j \in Jobs : assigned[j] = IF j \in Positioned(rows)
                      THEN [session[w][j] EXCEPT !.position = Place(order[w], j)]
                      ELSE session[w][j]
  BY DEF Numbered, Serial
<1>3. Commit(w, assigned)
  OBVIOUS
<1> HIDE DEF assigned
<1>4. \A j \in Jobs : rows'[j] = IF session[w][j] = NotLoaded THEN rows[j] ELSE assigned[j]
  BY <1>1, <1>3, CommitIsExact
<1> TAKE j \in Jobs
<1>5. CASE j \in Positioned(rows)
  BY <1>2, <1>4, <1>5 DEF Serial
<1>6. CASE j \notin Positioned(rows)
  BY <1>2, <1>4, <1>6 DEF Serial
<1> QED BY <1>5, <1>6

(* The jobs in the queue are the same after a numbering.                   *)
LEMMA NumberingKeepsQueue ==
  ASSUME TypeOK, NEW w \in Workers, Serial(w), Commit(w, Numbered(w)),
         pc[w] \in {"renumberCommit", "reorderCommit"}
  PROVE  /\ Positioned(rows)' = Positioned(rows)
         /\ \A j \in Positioned(rows) : rows'[j].position = Place(order[w], j)
<1>1. order[w] \in Seq(Jobs) /\ ToSet(order[w]) = Positioned(rows)
  BY DEF TypeOK, Serial
<1>2. \A j \in Positioned(rows) : Place(order[w], j) # NoPosition
  BY <1>1, PlaceType
<1>3. \A j \in Positioned(rows) : j \in Jobs /\ rows[j] \in Row
  BY DEF Positioned, TypeOK
<1>4. \A j \in Positioned(rows) : rows'[j].position = Place(order[w], j)
  BY <1>3, NumberingIsExact DEF Row
<1>5. \A j \in Jobs : rows'[j].position # NoPosition <=> j \in Positioned(rows)
  BY <1>2, <1>4, NumberingIsExact DEF Positioned
<1> QED BY <1>4, <1>5 DEF Positioned

(* A numbering gives no two jobs one place, and touches no started job.    *)
LEMMA NumberingKeepsTable ==
  ASSUME TypeOK, TableInv, NEW w \in Workers, Serial(w), Commit(w, Numbered(w)),
         pc[w] \in {"renumberCommit", "reorderCommit"}
  PROVE  TableInv' /\ Follows
<1>1. order[w] \in Seq(Jobs) /\ ToSet(order[w]) = Positioned(rows)
  BY DEF TypeOK, Serial
<1>2. \A j \in Positioned(rows) : order[w][Place(order[w], j)] = j
  BY <1>1, PlaceHolds
<1>3. PositionsAreDistinct'
  BY <1>2, NumberingKeepsQueue DEF PositionsAreDistinct
<1>4. \A j \in Jobs : /\ rows'[j].status = rows[j].status
                      /\ rows'[j].started = rows[j].started
  BY NumberingIsExact DEF TypeOK, Row
<1>5. \A j \in Jobs : rows[j].started => rows'[j].position = NoPosition
  BY NumberingKeepsQueue DEF TableInv, StartedJobsStayAway, Positioned
<1>6. StartedJobsStayAway'
  BY <1>4, <1>5 DEF TableInv, StartedJobsStayAway
<1> QED BY <1>3, <1>4, <1>6 DEF TableInv, Follows

-----------------------------------------------------------------------------
(* One step of the worker.                                                 *)

(* A step that leaves the table alone.                                     *)
LEMMA UnchangedTable ==
  ASSUME TableInv, UNCHANGED rows
  PROVE  TableInv' /\ Follows
BY DEF TableInv, PositionsAreDistinct, StartedJobsStayAway, Positioned, Follows

(* Objects just loaded are the rows.                                       *)
LEMMA ReadingIsFresh ==
  ASSUME TypeOK, NEW w \in Workers, Serial(w), UNCHANGED rows, NEW S \in SUBSET Jobs,
         session' = [session EXCEPT ![w] = Reading(w, S)]
  PROVE  /\ \A j \in Jobs : session'[w][j] # NotLoaded => session'[w][j] = rows'[j]
         /\ \A j \in S : session'[w][j] # NotLoaded
<1>1. \A j \in Jobs : session'[w][j] = IF j \in S /\ session[w][j] = NotLoaded
                                       THEN rows[j] ELSE session[w][j]
  BY DEF TypeOK, Reading
<1>2. \A j \in Jobs : rows[j] # NotLoaded
  BY NotLoadedIsNoRow DEF TypeOK
<1> QED BY <1>1, <1>2 DEF Serial

(* A worker that is done, or goes on to renumber, has checked nothing.     *)
LEMMA ExpireIsSerial ==
  ASSUME TypeOK, NEW w \in Workers, NEW label \in {"idle", "renumber"}, Expire(w, label)
  PROVE  Serial(w)'
<1>1. pc'[w] = label /\ \A j \in Jobs : session'[w][j] = NotLoaded
  BY DEF TypeOK, Expire
<1> QED BY <1>1 DEF Serial, RowAllows, Writing, Target

(* A request that opens on a row for which its check holds.                *)
LEMMA OpenIsSerial ==
  ASSUME SInv, NEW w \in Workers, NEW j \in Jobs, NEW kind, NEW label,
         Open(w, j, kind, label),
         label \notin {"runSlicer", "enqueueCommit", "renumberCommit", "reorderCommit"},
         label \in DOMAIN Target => Allowed(rows[j].status, Target[label]),
         label = "slice" => Allowed(rows[j].status, "SLICING"),
         label = "enqueue" => Allowed(rows[j].status, "QUEUED") /\ rows[j].position = NoPosition,
         label = "remove" => Allowed(rows[j].status, "APPROVED"),
         label = "start" => Allowed(rows[j].status, "READY_TO_PRINT")
  PROVE  Serial(w)'
<1>1. TypeOK /\ Serial(w)
  BY DEF SInv, IInv
<1>2. pc'[w] = label /\ subject'[w] = j /\ rows' = rows
  BY <1>1 DEF Open, TypeOK
<1>3. session' = [session EXCEPT ![w] = Reading(w, {j})]
  BY DEF Open
<1>4. /\ \A k \in Jobs : session'[w][k] # NotLoaded => session'[w][k] = rows'[k]
      /\ session'[w][j] # NotLoaded
  <2> DEFINE S == {j}
  <2>1. S \in SUBSET Jobs /\ session' = [session EXCEPT ![w] = Reading(w, S)] /\ j \in S
    BY <1>3
  <2> HIDE DEF S
  <2> QED BY <1>1, <1>2, <2>1, ReadingIsFresh
<1> QED BY <1>2, <1>4 DEF Serial, RowAllows

(* Requests arrive on rows that allow them.                                *)
LEMMA ArriveIsSerial ==
  ASSUME SInv, NEW w \in Workers, Arrive(w)
  PROVE  Serial(w)' /\ TableInv' /\ Follows
<1>1. rows' = rows
  BY DEF Arrive, Approve, Reject, Unapprove, Sync, Slice, Enqueue, RemoveFromQueue,
         StartPrint, Move, Open, Reorder
<1>2. ASSUME NEW l \in ReorderLists, Reorder(w, l)
      PROVE  Serial(w)'
  <2>1. pc'[w] = "reorder" /\ session' = session
    BY <1>2 DEF Reorder, SInv, IInv, TypeOK
  <2>2. \A j \in Jobs : session[w][j] # NotLoaded => session[w][j] = rows[j]
    BY DEF SInv, Serial
  <2> QED BY <1>1, <2>1, <2>2 DEF Serial, RowAllows, Writing, Target
<1>3. ASSUME NEW j \in Jobs, Approve(w, j) \/ Reject(w, j) \/ Unapprove(w, j)
      PROVE  Serial(w)'
  BY <1>3, OpenIsSerial DEF Approve, Reject, Unapprove, Target
<1>4. ASSUME NEW j \in Jobs, Sync(w, j)
      PROVE  Serial(w)'
  <2>1. PICK answer \in {"finished", "error"} : Open(w, j, "sync", answer)
    BY <1>4 DEF Sync
  <2>2. Allowed(rows[j].status, Target[answer])
    BY <1>4, <2>1 DEF Sync, Target, Allowed, AllowedTransitions
  <2> QED BY <2>1, <2>2, OpenIsSerial
<1>5. ASSUME NEW j \in Jobs,
             Slice(w, j) \/ Enqueue(w, j) \/ RemoveFromQueue(w, j) \/ StartPrint(w, j)
      PROVE  Serial(w)'
  BY <1>5, OpenIsSerial DEF Slice, Enqueue, RemoveFromQueue, StartPrint, Target
<1>6. ASSUME NEW j \in Jobs, Move(w, j)
      PROVE  Serial(w)'
  BY <1>6, OpenIsSerial DEF Move, Target
<1>7. Serial(w)'
  BY <1>2, <1>3, <1>4, <1>5, <1>6 DEF Arrive
<1> QED BY <1>1, <1>7, UnchangedTable DEF SInv

(* A write of the loaded row that follows the table.                       *)
LEMMA WriteFollows ==
  ASSUME SInv, NEW w \in Workers, NEW row \in Row, pc[w] \in Writing,
         Commit(w, Assign(w, row)),
         LET old == rows[subject[w]] IN
         /\ \/ row.position = NoPosition
            \/ row.position = old.position
            \/ \A j \in Jobs : rows[j].position # row.position
         /\ row.started => /\ row.position = NoPosition
                           /\ row.status \in {"PRINTING", "FINISHED", "FAILED"}
         /\ \/ row.status = old.status
            \/ Allowed(old.status, row.status)
            \/ old.status = "QUEUED" /\ row.status = "PRINTING"
  PROVE  /\ TableInv' /\ Follows
         /\ rows' = [rows EXCEPT ![subject[w]] = row]
<1>1. TypeOK /\ TableInv /\ Serial(w)
  BY DEF SInv, IInv
<1>2. subject[w] \in Jobs /\ session[w][subject[w]] # NotLoaded
  BY <1>1 DEF Serial
<1>3. rows' = [rows EXCEPT ![subject[w]] = row]
  BY <1>1, <1>2, AssignIsExact
<1>4. TableInv'
  BY <1>1, <1>2, <1>3, OneRowKeepsTable
<1>5. \A j \in Jobs : rows'[j] = IF j = subject[w] THEN row ELSE rows[j]
  BY <1>1, <1>3 DEF TypeOK
<1>6. Follows
  BY <1>5 DEF Follows
<1> QED BY <1>3, <1>4, <1>6

(* What a handler is about to write is the row as it is.                   *)
LEMMA HeldIsRow ==
  ASSUME SInv, NEW w \in Workers, pc[w] \in Writing
  PROVE  /\ subject[w] \in Jobs
         /\ session[w][subject[w]] = rows[subject[w]]
         /\ rows[subject[w]] \in Row
         /\ rows[subject[w]].started =>
              /\ rows[subject[w]].position = NoPosition
              /\ rows[subject[w]].status \in {"PRINTING", "FINISHED", "FAILED"}
BY DEF SInv, IInv, TypeOK, Serial, TableInv, StartedJobsStayAway

(* Statements of a handler keep what the next one relies on, and each      *)
(* commit follows the table.                                               *)
LEMMA ProceedIsSerial ==
  ASSUME SInv, NEW w \in Workers, Proceed(w)
  PROVE  Serial(w)' /\ TableInv' /\ Follows
<1> DEFINE old == rows[subject[w]]
<1>1. TypeOK /\ TableInv /\ Serial(w)
  BY DEF SInv, IInv
<1>2. ASSUME UNCHANGED rows
      PROVE  TableInv' /\ Follows
  BY <1>1, <1>2, UnchangedTable
<1>3. ASSUME NEW label \in {"idle", "renumber"}, Expire(w, label)
      PROVE  Serial(w)'
  BY <1>1, <1>3, ExpireIsSerial
<1>4. ASSUME Finish(w)
      PROVE  Serial(w)'
  BY <1>3, <1>4 DEF Finish
<1>5. CASE SetStatus(w)
  <2> DEFINE row == [old EXCEPT !.status = Target[pc[w]]]
  <2>1. pc[w] \in DOMAIN Target /\ pc[w] \in Writing
    BY <1>5 DEF SetStatus, Writing
  <2>2. session[w][subject[w]] = old /\ old \in Row
    BY <2>1, HeldIsRow
  <2>3. Target[pc[w]] \in Statuses /\ Allowed(old.status, Target[pc[w]])
    BY <1>1, <2>1 DEF Serial, RowAllows, Target, Statuses
  <2>4. row \in Row /\ row.status = Target[pc[w]] /\ row.position = old.position
        /\ row.started = old.started
    BY <2>2, <2>3 DEF Row
  <2>5. old.status \in {"PRINTING", "FINISHED", "FAILED"} =>
          Target[pc[w]] \in {"PRINTING", "FINISHED", "FAILED"}
    BY <2>1, <2>3 DEF Allowed, AllowedTransitions, Target
  <2>6. Commit(w, Assign(w, row)) /\ Finish(w)
    BY <1>5, <2>2 DEF SetStatus
  <2> HIDE DEF row
  <2>7. row.started => /\ row.position = NoPosition
                       /\ row.status \in {"PRINTING", "FINISHED", "FAILED"}
    BY <2>1, <2>4, <2>5, HeldIsRow
  <2>8. TableInv' /\ Follows
    BY <2>1, <2>3, <2>4, <2>6, <2>7, WriteFollows
  <2> QED BY <1>4, <2>6, <2>8
<1>6. CASE SliceBegin(w)
  <2> DEFINE row == [old EXCEPT !.status = "SLICING"]
  <2>1. pc[w] = "slice" /\ pc[w] \in Writing
    BY <1>6 DEF SliceBegin, Writing
  <2>2. session[w][subject[w]] = old /\ old \in Row /\ subject[w] \in Jobs
    BY <2>1, HeldIsRow
  <2>3. Allowed(old.status, "SLICING")
    BY <1>1, <2>1 DEF Serial, RowAllows
  <2>4. row \in Row /\ row.status = "SLICING" /\ row.position = old.position
        /\ row.started = old.started
    BY <2>2 DEF Row, Statuses
  <2>5. ~ old.started
    BY <2>1, <2>3, HeldIsRow DEF Allowed, AllowedTransitions
  <2>6. Commit(w, Assign(w, row))
    BY <1>6, <2>2 DEF SliceBegin
  <2> HIDE DEF row
  <2>7. TableInv' /\ Follows /\ rows' = [rows EXCEPT ![subject[w]] = row]
    BY <2>1, <2>3, <2>4, <2>5, <2>6, WriteFollows
  <2>8. /\ pc'[w] = "runSlicer" /\ subject'[w] = subject[w]
        /\ \A j \in Jobs : session'[w][j] = NotLoaded
    BY <1>1, <1>6 DEF SliceBegin, TypeOK
  <2>9. rows'[subject[w]].status = "SLICING"
    BY <1>1, <2>2, <2>4, <2>7 DEF TypeOK
  <2>10. Serial(w)'
    BY <2>2, <2>8, <2>9 DEF Serial, RowAllows, Writing, Target
  <2> QED BY <2>7, <2>10
<1>7. CASE RunSlicer(w)
  <2> DEFINE S == {subject[w]}
  <2>1. pc[w] = "runSlicer" /\ subject[w] \in Jobs /\ old.status = "SLICING"
    BY <1>1, <1>7 DEF RunSlicer, Serial, RowAllows
  <2>2. PICK result \in {"sliced", "sliceFailed"} : pc'[w] = result
    BY <1>1, <1>7 DEF RunSlicer, TypeOK
  <2>3. /\ rows' = rows /\ subject'[w] = subject[w]
        /\ session' = [session EXCEPT ![w] = Reading(w, S)]
        /\ S \in SUBSET Jobs /\ subject[w] \in S
    BY <1>7, <2>1 DEF RunSlicer
  <2> HIDE DEF S
  <2>4. /\ \A j \in Jobs : session'[w][j] # NotLoaded => session'[w][j] = rows'[j]
        /\ session'[w][subject[w]] # NotLoaded
    BY <1>1, <2>3, ReadingIsFresh
  <2>5. Allowed("SLICING", Target[result])
    BY <2>2 DEF Allowed, AllowedTransitions, Target
  <2>6. Serial(w)'
    BY <2>1, <2>2, <2>3, <2>4, <2>5 DEF Serial, RowAllows
  <2> QED BY <1>2, <2>3, <2>6
<1>8. CASE EnqueueMax(w)
  <2>1. pc[w] = "enqueue" /\ pc[w] \in Writing
    BY <1>8 DEF EnqueueMax, Writing
  <2>2. /\ pc'[w] = "enqueueCommit" /\ next'[w] = NextPosition(rows)
        /\ UNCHANGED <<rows, subject, session>>
    BY <1>1, <1>8 DEF EnqueueMax, TypeOK
  <2>3. \A j \in Jobs : rows'[j].position < next'[w]
    BY <1>1, <2>2, NextPositionIsBehind DEF TypeOK
  <2>4. Allowed(old.status, "QUEUED") /\ old.position = NoPosition
    BY <1>1, <2>1 DEF Serial, RowAllows
  <2>5. subject[w] \in Jobs /\ session[w][subject[w]] # NotLoaded
    BY <1>1, <2>1 DEF Serial
  <2>6. \A j \in Jobs : session[w][j] # NotLoaded => session[w][j] = rows[j]
    BY <1>1 DEF Serial
  <2>7. Serial(w)'
    BY <2>2, <2>3, <2>4, <2>5, <2>6 DEF Serial, RowAllows, Target
  <2> QED BY <1>2, <2>2, <2>7
<1>9. CASE EnqueueCommit(w)
  <2> DEFINE row == [old EXCEPT !.status = "QUEUED", !.position = next[w]]
  <2>1. pc[w] = "enqueueCommit" /\ pc[w] \in Writing
    BY <1>9 DEF EnqueueCommit, Writing
  <2>2. session[w][subject[w]] = old /\ old \in Row
    BY <2>1, HeldIsRow
  <2>3. Allowed(old.status, "QUEUED") /\ \A j \in Jobs : rows[j].position < next[w]
    BY <1>1, <2>1 DEF Serial, RowAllows
  <2>4. next[w] \in Nat /\ \A j \in Jobs : rows[j].position \in Nat
    BY <1>1 DEF TypeOK, Row
  <2>5. row \in Row /\ row.status = "QUEUED" /\ row.position = next[w]
        /\ row.started = old.started
    BY <2>2, <2>4 DEF Row, Statuses
  <2>6. ~ old.started
    BY <2>1, <2>3, HeldIsRow DEF Allowed, AllowedTransitions
  <2>7. Commit(w, Assign(w, row)) /\ Finish(w)
    BY <1>9, <2>2 DEF EnqueueCommit
  <2> HIDE DEF row
  <2>8. \A j \in Jobs : rows[j].position # row.position
    BY <2>3, <2>4, <2>5
  <2>9. TableInv' /\ Follows
    BY <2>1, <2>3, <2>5, <2>6, <2>7, <2>8, WriteFollows
  <2> QED BY <1>4, <2>7, <2>9
<1>10. CASE RemoveCommit(w)
  <2> DEFINE row == [old EXCEPT !.status = "APPROVED", !.position = NoPosition]
  <2>1. pc[w] = "remove" /\ pc[w] \in Writing
    BY <1>10 DEF RemoveCommit, Writing
  <2>2. session[w][subject[w]] = old /\ old \in Row
    BY <2>1, HeldIsRow
  <2>3. Allowed(old.status, "APPROVED")
    BY <1>1, <2>1 DEF Serial, RowAllows
  <2>4. row \in Row /\ row.status = "APPROVED" /\ row.position = NoPosition
        /\ row.started = old.started
    BY <2>2 DEF Row, Statuses, NoPosition
  <2>5. ~ old.started
    BY <2>1, <2>3, HeldIsRow DEF Allowed, AllowedTransitions
  <2>6. Commit(w, Assign(w, row)) /\ Expire(w, "renumber")
    BY <1>10, <2>2 DEF RemoveCommit
  <2> HIDE DEF row
  <2>7. TableInv' /\ Follows
    BY <2>1, <2>3, <2>4, <2>5, <2>6, WriteFollows
  <2> QED BY <1>3, <2>6, <2>7
<1>11. CASE StartCommit(w)
  <2> DEFINE row == [old EXCEPT !.status = "PRINTING", !.position = NoPosition,
                                !.started = TRUE]
  <2>1. pc[w] = "start" /\ pc[w] \in Writing
    BY <1>11 DEF StartCommit, Writing
  <2>2. session[w][subject[w]] = old /\ old \in Row
    BY <2>1, HeldIsRow
  <2>3. old.status = "QUEUED"
    BY <1>1, <2>1, <2>2 DEF Serial, RowAllows, Allowed, AllowedTransitions, Row, Statuses
  <2>4. row \in Row /\ row.status = "PRINTING" /\ row.position = NoPosition
    BY <2>2 DEF Row, Statuses, NoPosition
  <2>5. Commit(w, Assign(w, row))
    BY <1>11, <2>2 DEF StartCommit
  <2>6. PICK label \in {"renumber", "idle"} : Expire(w, label)
    BY <1>11 DEF StartCommit
  <2> HIDE DEF row
  <2>7. TableInv' /\ Follows
    BY <2>1, <2>3, <2>4, <2>5, WriteFollows
  <2> QED BY <1>3, <2>6, <2>7
<1>12. CASE RenumberRead(w)
  <2>1. PICK q \in QueueOrders(rows) : order' = [order EXCEPT ![w] = q]
    BY <1>12 DEF RenumberRead
  <2>2. ToSet(q) = Positioned(rows)
    BY <1>1, QueueOrdersList DEF TypeOK
  <2>3. pc'[w] = "renumberCommit" /\ order'[w] = q /\ rows' = rows
    BY <1>1, <1>12, <2>1 DEF RenumberRead, TypeOK
  <2>4. session' = [session EXCEPT ![w] = Reading(w, Positioned(rows))]
    BY <1>12 DEF RenumberRead
  <2>5. /\ \A j \in Jobs : session'[w][j] # NotLoaded => session'[w][j] = rows'[j]
        /\ \A j \in Positioned(rows) : session'[w][j] # NotLoaded
    BY <1>1, <2>3, <2>4, Positioned(rows) \in SUBSET Jobs, ReadingIsFresh DEF Positioned
  <2>6. Positioned(rows)' = Positioned(rows)
    BY <2>3 DEF Positioned
  <2>7. Serial(w)'
    BY <2>2, <2>3, <2>5, <2>6 DEF Serial, RowAllows, Writing, Target
  <2> QED BY <1>2, <2>3, <2>7
<1>13. CASE RenumberCommit(w) \/ ReorderCommit(w)
  <2>1. /\ pc[w] \in {"renumberCommit", "reorderCommit"}
        /\ Commit(w, Numbered(w)) /\ Finish(w)
    BY <1>13 DEF RenumberCommit, ReorderCommit
  <2> QED BY <1>1, <1>4, <2>1, NumberingKeepsTable
<1>14. CASE MoveRead(w)
  <2>1. /\ pc'[w] = "reorder" /\ rows' = rows
        /\ session' = [session EXCEPT ![w] = Reading(w, Positioned(rows))]
    BY <1>1, <1>14 DEF MoveRead, TypeOK
  <2>2. \A j \in Jobs : session'[w][j] # NotLoaded => session'[w][j] = rows'[j]
    BY <1>1, <2>1, Positioned(rows) \in SUBSET Jobs, ReadingIsFresh DEF Positioned
  <2>3. Serial(w)'
    BY <2>1, <2>2 DEF Serial, RowAllows, Writing, Target
  <2> QED BY <1>2, <2>1, <2>3
<1>15. CASE MoveNowhere(w) \/ ReorderRefused(w)
  BY <1>2, <1>4, <1>15 DEF MoveNowhere, ReorderRefused
<1>16. CASE ReorderRead(w)
  <2>1. /\ pc'[w] = "reorderCommit" /\ rows' = rows /\ order'[w] = order[w]
        /\ ToSet(order[w]) = Positioned(rows)
        /\ session' = [session EXCEPT ![w] = Reading(w, Positioned(rows))]
    BY <1>1, <1>16 DEF ReorderRead, TypeOK
  <2>2. /\ \A j \in Jobs : session'[w][j] # NotLoaded => session'[w][j] = rows'[j]
        /\ \A j \in Positioned(rows) : session'[w][j] # NotLoaded
    BY <1>1, <2>1, Positioned(rows) \in SUBSET Jobs, ReadingIsFresh DEF Positioned
  <2>3. Positioned(rows)' = Positioned(rows)
    BY <2>1 DEF Positioned
  <2>4. Serial(w)'
    BY <2>1, <2>2, <2>3 DEF Serial, RowAllows, Writing, Target
  <2> QED BY <1>2, <2>1, <2>4
<1> QED BY <1>5, <1>6, <1>7, <1>8, <1>9, <1>10, <1>11, <1>12, <1>13, <1>14, <1>15,
           <1>16 DEF Proceed

-----------------------------------------------------------------------------
(* The invariant and what follows from it.                                 *)

(* The table starts empty and the workers idle.                            *)
LEMMA SerialInit == Init => SInv
<1> SUFFICES ASSUME Init
             PROVE  SInv
  OBVIOUS
<1>1. IInv
  BY InitInv
<1>2. TableInv
  BY DEF Init, TableInv, PositionsAreDistinct, StartedJobsStayAway, Positioned
<1>3. \A w \in Workers : Serial(w)
  BY DEF Init, Serial, RowAllows, Writing, Target
<1> QED BY <1>1, <1>2, <1>3 DEF SInv

(* With one worker the step of the one is the step of all.                 *)
LEMMA SerialStep ==
  ASSUME OneWorker, SInv, [Next]_vars
  PROVE  SInv' /\ Follows
<1>1. IInv'
  BY NextInv DEF SInv
<1>2. CASE UNCHANGED vars
  <2>1. \A w \in Workers : Serial(w)'
    BY <1>2 DEF SInv, Serial, RowAllows, Positioned, vars
  <2> QED BY <1>1, <1>2, <2>1, UnchangedTable DEF SInv, vars
<1>3. ASSUME NEW w \in Workers, Arrive(w) \/ Proceed(w) \/ Abort(w)
      PROVE  SInv' /\ Follows
  <2>1. CASE Abort(w)
    <3>1. Serial(w)'
      BY <2>1, ExpireIsSerial DEF Abort, Finish, SInv, IInv
    <3>2. TableInv' /\ Follows
      BY <2>1, UnchangedTable DEF Abort, SInv
    <3> QED BY <1>1, <3>1, <3>2 DEF OneWorker, SInv
  <2>2. CASE Arrive(w) \/ Proceed(w)
    <3>1. Serial(w)' /\ TableInv' /\ Follows
      BY <2>2, ArriveIsSerial, ProceedIsSerial
    <3> QED BY <1>1, <3>1 DEF OneWorker, SInv
  <2> QED BY <1>3, <2>1, <2>2
<1> QED BY <1>2, <1>3 DEF Next

(* Served one at a time, and cut off anywhere, requests give no two jobs   *)
(* the same place in the queue, whatever lists a reorder request carries.  *)
THEOREM SerialPositionsAreDistinct ==
  ASSUME OneWorker
  PROVE  Spec => []PositionsAreDistinct
<1>1. SInv /\ [Next]_vars => SInv'
  BY SerialStep
<1>2. SInv => PositionsAreDistinct
  BY DEF SInv, TableInv
<1> QED BY SerialInit, <1>1, <1>2, PTL DEF Spec

(* Served one at a time, every commit moves a job along the table or not   *)
(* at all: the check and the commit see the same status.                   *)
THEOREM SerialStatusFollowsTheTable ==
  ASSUME OneWorker
  PROVE  Spec => StatusFollowsTheTable
<1>1. SInv /\ [Next]_vars => SInv'
  BY SerialStep
<1>2. SInv /\ [Next]_vars => [\A j \in Jobs :
           \/ rows'[j].status = rows[j].status
           \/ Allowed(rows[j].status, rows'[j].status)
           \/ rows[j].status = "QUEUED" /\ rows'[j].status = "PRINTING"]_vars
  BY SerialStep DEF Follows
<1> QED BY SerialInit, <1>1, <1>2, PTL DEF Spec, StatusFollowsTheTable

-----------------------------------------------------------------------------
(* A numbering leaves 1..n.                                                *)

(* The list a worker has read to renumber the queue.                       *)
OrdersAreOnce == \A w \in Workers : pc[w] = "renumberCommit" => OnceEach(order[w])

(* It does not repeat a job.                                               *)
LEMMA OrdersStep ==
  ASSUME TypeOK, OrdersAreOnce, [Next]_vars
  PROVE  OrdersAreOnce'
<1> SUFFICES ASSUME NEW v \in Workers, pc'[v] = "renumberCommit"
             PROVE  OnceEach(order'[v])
  BY DEF OrdersAreOnce
<1>1. CASE pc[v] = "renumberCommit" /\ order'[v] = order[v]
  BY <1>1 DEF OrdersAreOnce
<1>2. CASE ~(pc[v] = "renumberCommit" /\ order'[v] = order[v])
  <2>1. PICK w \in Workers : Arrive(w) \/ Proceed(w) \/ Abort(w)
    BY <1>2 DEF Next, vars
  <2>2. ASSUME NEW label, Expire(w, label), label # "renumberCommit"
        PROVE  FALSE
    BY <1>2, <2>2 DEF Expire, TypeOK
  <2>3. ASSUME NEW label, pc' = [pc EXCEPT ![w] = label], label # "renumberCommit",
               \A u \in Workers : u # w => order'[u] = order[u]
        PROVE  FALSE
    BY <1>2, <2>3 DEF TypeOK
  <2>4. CASE Arrive(w)
    <3>1. ASSUME NEW j, NEW kind, NEW label, Open(w, j, kind, label), label # "renumberCommit"
          PROVE  FALSE
      BY <2>3, <3>1 DEF Open
    <3>2. ASSUME NEW l, Reorder(w, l) PROVE FALSE
      BY <2>3, <3>2 DEF Reorder, TypeOK
    <3> QED BY <2>4, <3>1, <3>2
      DEF Arrive, Approve, Reject, Unapprove, Sync, Slice, Enqueue, RemoveFromQueue,
          StartPrint, Move
  <2>5. CASE RenumberRead(w)
    <3>1. PICK q \in QueueOrders(rows) : order' = [order EXCEPT ![w] = q]
      BY <2>5 DEF RenumberRead
    <3>2. OnceEach(q)
      BY QueueOrdersList DEF TypeOK
    <3>3. v = w
      BY <1>2, <2>5 DEF RenumberRead, TypeOK
    <3> QED BY <3>1, <3>2, <3>3 DEF TypeOK
  <2>6. CASE MoveRead(w)
    BY <2>3, <2>6 DEF MoveRead, TypeOK
  <2>7. CASE Abort(w) \/ SetStatus(w) \/ EnqueueCommit(w) \/ RenumberCommit(w)
             \/ MoveNowhere(w) \/ ReorderRefused(w) \/ ReorderCommit(w) \/ RemoveCommit(w)
    BY <2>2, <2>7
    DEF Abort, SetStatus, EnqueueCommit, RenumberCommit, MoveNowhere, ReorderRefused,
        ReorderCommit, RemoveCommit, Finish
  <2>8. CASE StartCommit(w)
    BY <2>2, <2>8 DEF StartCommit
  <2>9. CASE SliceBegin(w) \/ RunSlicer(w) \/ EnqueueMax(w) \/ ReorderRead(w)
    BY <2>3, <2>9 DEF SliceBegin, RunSlicer, EnqueueMax, ReorderRead
  <2> QED BY <2>1, <2>2, <2>4, <2>5, <2>6, <2>7, <2>8, <2>9, <1>2 DEF Proceed, Abort, Finish
<1> QED BY <1>1, <1>2

(* Served one at a time, every numbering leaves the positions 1..n,        *)
(* whatever gap a removal, a start, a crash or a list that names a job     *)
(* twice has left before it, unless its own list names a job twice.        *)
THEOREM SerialNumberingIsDense ==
  ASSUME OneWorker
  PROVE  Spec => NumberingIsDense
<1> DEFINE Dense == \A w \in Workers :
                      Numbers(w) => \/ {rows'[j].position : j \in Positioned(rows)'}
                                         = 1..Cardinality(Positioned(rows)')
                                    \/ pc[w] = "reorderCommit" /\ ~IsInjective(order[w])
<1>1. SInv /\ [Next]_vars => SInv'
  BY SerialStep
<1>2. SInv /\ OrdersAreOnce /\ [Next]_vars => OrdersAreOnce'
  BY OrdersStep DEF SInv, IInv
<1>3. Init => OrdersAreOnce
  BY DEF Init, OrdersAreOnce
<1>4. SInv /\ OrdersAreOnce /\ [Next]_vars => [Dense]_vars
  <2> SUFFICES ASSUME SInv, OrdersAreOnce, NEW w \in Workers, Numbers(w),
                      pc[w] = "reorderCommit" => IsInjective(order[w])
               PROVE  {rows'[j].position : j \in Positioned(rows)'}
                        = 1..Cardinality(Positioned(rows)')
    OBVIOUS
  <2>1. /\ pc[w] \in {"renumberCommit", "reorderCommit"}
        /\ Commit(w, Numbered(w))
    BY DEF Numbers, RenumberCommit, ReorderCommit
  <2>2. TypeOK /\ Serial(w)
    BY DEF SInv, IInv
  <2>3. /\ order[w] \in Seq(Jobs) /\ OnceEach(order[w])
        /\ ToSet(order[w]) = Positioned(rows)
    BY <2>1, <2>2 DEF TypeOK, Serial, OrdersAreOnce, OnceEach, IsInjective
  <2>4. /\ Positioned(rows)' = Positioned(rows)
        /\ \A j \in Positioned(rows) : rows'[j].position = Place(order[w], j)
    BY <2>1, <2>2, NumberingKeepsQueue
  <2>5. {Place(order[w], j) : j \in Positioned(rows)} = 1..Cardinality(Positioned(rows))
    BY <2>3, PlacesAreDense
  <2> QED BY <2>4, <2>5
<1> QED BY SerialInit, <1>1, <1>2, <1>3, <1>4, PTL DEF Spec, NumberingIsDense
=============================================================================
