------------------------------ MODULE QueueProofs ------------------------------
(***************************************************************************)
(* Theorems about QueueService, for any number of jobs and workers.        *)
(***************************************************************************)
EXTENDS QueueService, SetLemmas

(* What the guard of a handler saw is still so in the object it will write *)
(* back, whatever has happened to the row since.                           *)
HoldsWhatItChecked(w) ==
  /\ pc[w] = "idle" => \A j \in Jobs : session[w][j] = NotLoaded
  /\ pc[w] \in {"enqueue", "enqueueCommit"} =>
       session[w][subject[w]].position = NoPosition
  /\ pc[w] = "enqueueCommit" => next[w] # NoPosition
  /\ pc[w] = "remove" => session[w][subject[w]].status # "APPROVED"
  /\ pc[w] = "start" => session[w][subject[w]].status # "PRINTING"

HandlersHoldWhatTheyChecked == \A w \in Workers : HoldsWhatItChecked(w)

IInv == TypeOK /\ QueuedJobsArePositioned /\ HandlersHoldWhatTheyChecked

-----------------------------------------------------------------------------
(* The helpers return what their names say.                                *)

(* The object that stands for a row not loaded is not a row.               *)
LEMMA NotLoadedIsNoRow == NotLoaded \notin Row
BY DEF NotLoaded, Row, Statuses

(* The next free position is a natural number other than 0.                *)
LEMMA NextPositionType ==
  ASSUME NEW r \in [Jobs -> Row]
  PROVE  NextPosition(r) \in Nat /\ NextPosition(r) # NoPosition
<1> DEFINE P == {r[j].position : j \in Jobs}
           S == {NoPosition} \cup P
<1>1. S \subseteq Nat /\ S # {}
  BY DEF Row, NoPosition
<1>2. IsFiniteSet(P)
  <2> DEFINE f == [j \in Jobs |-> r[j].position]
  <2>1. f \in Surjection(Jobs, P)
    BY DEF Surjection
  <2> HIDE DEF f, P
  <2> QED BY <2>1, JobsAssumption, FS_Surjection
<1>3. IsFiniteSet(S)
  <2>1. S = P \cup {NoPosition}
    OBVIOUS
  <2> HIDE DEF P, S
  <2> QED BY <1>2, <2>1, FS_AddElement
<1>4. Max(S) \in Nat
  <2> HIDE DEF S
  <2> QED BY <1>1, <1>3, MaxOfFinite
<1>5. NextPosition(r) = 1 + Max(S)
  BY DEF NextPosition
<1> HIDE DEF S
<1> QED BY <1>4, <1>5 DEF NoPosition

(* A list the queue query returns is a sequence of jobs.                   *)
LEMMA QueueOrdersType ==
  ASSUME NEW r \in [Jobs -> Row], NEW q \in QueueOrders(r)
  PROVE  q \in Seq(Jobs)
<1> DEFINE P == Positioned(r)
<1>1. P \subseteq Jobs /\ IsFiniteSet(P)
  BY JobsAssumption, FS_Subset DEF Positioned
<1>2. Cardinality(P) \in Nat
  BY <1>1, FS_CardinalityType
<1>3. q \in [1..Cardinality(P) -> P]
  BY DEF QueueOrders, SetToSeqs
<1> HIDE DEF P
<1> QED BY <1>1, <1>2, <1>3

(* The number a job of the list gets is a natural number other than 0.     *)
LEMMA PlaceType ==
  ASSUME NEW l \in Seq(Jobs), NEW j \in ToSet(l)
  PROVE  Place(l, j) \in DOMAIN l /\ Place(l, j) \in Nat /\ Place(l, j) # NoPosition
<1> DEFINE S == {i \in DOMAIN l : l[i] = j}
<1>1. S \subseteq Nat /\ S # {} /\ Len(l) \in Nat /\ \A x \in S : x <= Len(l)
  BY DEF ToSet
<1>2. Max(S) \in S
  <2> HIDE DEF S
  <2> QED BY <1>1, MaxOfBounded
<1>3. Place(l, j) = Max(S)
  BY DEF Place
<1> QED BY <1>2, <1>3 DEF NoPosition

(* An UPDATE of a well-formed row is a well-formed row.                    *)
LEMMA CommitType ==
  ASSUME TypeOK, NEW w \in Workers, NEW assigned,
         \A j \in Jobs : session[w][j] # NotLoaded => assigned[j] \in Row,
         Commit(w, assigned)
  PROVE  rows' \in [Jobs -> Row]
BY DEF TypeOK, Commit, Written, Row

(* A commit leaves queued jobs positioned if each loaded object that it    *)
(* writes does: it sets no status to QUEUED without a position, and        *)
(* clears no position without a change of the status.                      *)
LEMMA CommitKeepsPositions ==
  ASSUME TypeOK, QueuedJobsArePositioned, NEW w \in Workers, NEW assigned,
         Commit(w, assigned),
         \A j \in Jobs : session[w][j] # NotLoaded =>
           LET new == assigned[j]
               old == session[w][j] IN
           /\ new.status = "QUEUED" /\ new.status # old.status =>
                new.position # NoPosition /\ new.position # old.position
           /\ new.position = NoPosition /\ new.position # old.position =>
                new.status # "QUEUED" /\ new.status # old.status
  PROVE  QueuedJobsArePositioned'
<1> SUFFICES ASSUME NEW j \in Jobs, rows'[j].status = "QUEUED"
             PROVE  rows'[j].position # NoPosition
  BY DEF QueuedJobsArePositioned
<1>1. CASE session[w][j] = NotLoaded
  BY <1>1 DEF Commit, QueuedJobsArePositioned, TypeOK
<1>2. CASE session[w][j] # NotLoaded
  <2>1. rows'[j] = Written(rows[j], session[w][j], assigned[j])
    BY <1>2 DEF Commit
  <2> QED BY <1>2, <2>1 DEF Written, QueuedJobsArePositioned
<1> QED BY <1>1, <1>2

-----------------------------------------------------------------------------
(* Type correctness.                                                       *)

(* The variables of the worker, all but the table.                         *)
WorkersTypeOK == /\ pc \in [Workers -> Labels]
                 /\ subject \in [Workers -> Jobs \cup {NoJob}]
                 /\ session \in [Workers -> [Jobs -> Row \cup {NotLoaded}]]
                 /\ order \in [Workers -> Seq(Jobs)]
                 /\ next \in [Workers -> Nat]

(* A worker whose transaction ends holds nothing.                          *)
LEMMA ExpireType ==
  ASSUME TypeOK, NEW w \in Workers, NEW label \in Labels, Expire(w, label)
  PROVE  WorkersTypeOK'
BY DEF TypeOK, WorkersTypeOK, Expire, NoPosition

(* A worker whose request ends holds nothing.                              *)
LEMMA FinishType ==
  ASSUME TypeOK, NEW w \in Workers, Finish(w)
  PROVE  WorkersTypeOK'
BY ExpireType, "idle" \in Labels DEF Finish, Labels

(* A SELECT makes whole rows of the rows it returns.                       *)
LEMMA ReadingType ==
  ASSUME TypeOK, NEW w \in Workers, NEW S
  PROVE  Reading(w, S) \in [Jobs -> Row \cup {NotLoaded}]
BY DEF TypeOK, Reading

(* A request that opens loads its job.                                     *)
LEMMA OpenType ==
  ASSUME TypeOK, NEW w \in Workers, NEW j \in Jobs, NEW kind, NEW label \in Labels,
         Open(w, j, kind, label)
  PROVE  TypeOK'
<1>1. Reading(w, {j}) \in [Jobs -> Row \cup {NotLoaded}]
  BY ReadingType
<1> QED BY <1>1 DEF TypeOK, Open

(* What a handler assigns to the job it loaded is a row again.             *)
LEMMA AssignType ==
  ASSUME TypeOK, NEW w \in Workers, NEW row,
         subject[w] \in Jobs /\ session[w][subject[w]] # NotLoaded => row \in Row
  PROVE  \A j \in Jobs : session[w][j] # NotLoaded => Assign(w, row)[j] \in Row
BY DEF TypeOK, Assign

(* A numbered object is a row again.                                       *)
LEMMA NumberedType ==
  ASSUME TypeOK, NEW w \in Workers
  PROVE  \A j \in Jobs : session[w][j] # NotLoaded => Numbered(w)[j] \in Row
<1> SUFFICES ASSUME NEW j \in Jobs, session[w][j] # NotLoaded
             PROVE  Numbered(w)[j] \in Row
  OBVIOUS
<1>1. session[w][j] \in Row
  BY DEF TypeOK
<1>2. CASE j \in ToSet(order[w])
  <2>1. Place(order[w], j) \in Nat
    BY <1>2, PlaceType DEF TypeOK
  <2> QED BY <1>1, <1>2, <2>1 DEF Numbered, Row
<1>3. CASE j \notin ToSet(order[w])
  BY <1>1, <1>3 DEF Numbered
<1> QED BY <1>2, <1>3

(* Requests arrive with jobs and lists of jobs.                            *)
LEMMA ArriveType ==
  ASSUME TypeOK, NEW w \in Workers, Arrive(w)
  PROVE  TypeOK'
<1>1. ASSUME NEW l \in ReorderLists, Reorder(w, l)
      PROVE  TypeOK'
  <2>1. l \in Seq(Jobs)
    BY ListsAssumption
  <2> QED BY <1>1, <2>1 DEF TypeOK, Reorder, Labels
<1>2. ASSUME NEW j \in Jobs, NEW kind, NEW label \in Labels, Open(w, j, kind, label)
      PROVE  TypeOK'
  BY <1>2, OpenType
<1>3. {"approve", "reject", "unapprove", "finished", "error", "slice", "enqueue",
       "remove", "start", "moveUp", "moveDown"} \subseteq Labels
  BY DEF Labels, Target
<1>4. ASSUME NEW j \in Jobs,
             \/ Approve(w, j) \/ Reject(w, j) \/ Unapprove(w, j) \/ Sync(w, j)
             \/ Slice(w, j) \/ Enqueue(w, j) \/ RemoveFromQueue(w, j)
             \/ StartPrint(w, j) \/ Move(w, j)
      PROVE  TypeOK'
  BY <1>2, <1>3, <1>4
     DEF Approve, Reject, Unapprove, Sync, Slice, Enqueue, RemoveFromQueue, StartPrint, Move
<1> QED BY <1>1, <1>4 DEF Arrive

(* Every statement of a handler keeps the types.                           *)
LEMMA ProceedType ==
  ASSUME TypeOK, NEW w \in Workers, Proceed(w)
  PROVE  TypeOK'
<1> DEFINE held == session[w][subject[w]]
<1>1. subject[w] \in Jobs /\ held # NotLoaded => held \in Row
  BY DEF TypeOK
<1>2. ASSUME NEW assigned, Commit(w, assigned), WorkersTypeOK',
             \A j \in Jobs : session[w][j] # NotLoaded => assigned[j] \in Row
      PROVE  TypeOK'
  BY <1>2, CommitType DEF TypeOK, WorkersTypeOK
<1>3. ASSUME NEW row, Commit(w, Assign(w, row)), WorkersTypeOK',
             subject[w] \in Jobs /\ held # NotLoaded => row \in Row
      PROVE  TypeOK'
  BY <1>2, <1>3, AssignType
<1>4. CASE SetStatus(w)
  <2> DEFINE row == [held EXCEPT !.status = Target[pc[w]]]
  <2>1. held \in Row => row \in Row
    BY <1>4 DEF SetStatus, Target, Row, Statuses
  <2>2. Commit(w, Assign(w, row)) /\ Finish(w)
    BY <1>4 DEF SetStatus
  <2> HIDE DEF row
  <2> QED BY <1>1, <1>3, <2>1, <2>2, FinishType
<1>5. CASE SliceBegin(w)
  <2> DEFINE row == [held EXCEPT !.status = "SLICING"]
  <2>1. held \in Row => row \in Row
    BY DEF Row, Statuses
  <2>2. Commit(w, Assign(w, row))
    BY <1>5 DEF SliceBegin
  <2>3. WorkersTypeOK'
    BY <1>5 DEF SliceBegin, TypeOK, WorkersTypeOK, Labels
  <2> HIDE DEF row
  <2> QED BY <1>1, <1>3, <2>1, <2>2, <2>3
<1>6. CASE RunSlicer(w)
  BY <1>6, ReadingType DEF RunSlicer, TypeOK, Labels, Target
<1>7. CASE EnqueueMax(w)
  BY <1>7, NextPositionType DEF EnqueueMax, TypeOK, Labels
<1>8. CASE EnqueueCommit(w)
  <2> DEFINE row == [held EXCEPT !.status = "QUEUED", !.position = next[w]]
  <2>1. held \in Row => row \in Row
    BY DEF Row, Statuses, TypeOK
  <2>2. Commit(w, Assign(w, row)) /\ Finish(w)
    BY <1>8 DEF EnqueueCommit
  <2> HIDE DEF row
  <2> QED BY <1>1, <1>3, <2>1, <2>2, FinishType
<1>9. CASE RemoveCommit(w)
  <2> DEFINE row == [held EXCEPT !.status = "APPROVED", !.position = NoPosition]
  <2>1. held \in Row => row \in Row
    BY DEF Row, Statuses, NoPosition
  <2>2. Commit(w, Assign(w, row)) /\ Expire(w, "renumber")
    BY <1>9 DEF RemoveCommit
  <2>3. WorkersTypeOK'
    BY <2>2, ExpireType, "renumber" \in Labels DEF Labels
  <2> HIDE DEF row
  <2> QED BY <1>1, <1>3, <2>1, <2>2, <2>3
<1>10. CASE StartCommit(w)
  <2> DEFINE row == [held EXCEPT !.status = "PRINTING", !.position = NoPosition,
                                 !.started = TRUE]
  <2>1. held \in Row => row \in Row
    BY DEF Row, Statuses, NoPosition
  <2>2. Commit(w, Assign(w, row))
    BY <1>10 DEF StartCommit
  <2>3. PICK label \in {"renumber", "idle"} : Expire(w, label)
    BY <1>10 DEF StartCommit
  <2>4. WorkersTypeOK'
    BY <2>3, ExpireType, {"renumber", "idle"} \subseteq Labels DEF Labels
  <2> HIDE DEF row
  <2> QED BY <1>1, <1>3, <2>1, <2>2, <2>4
<1>11. CASE RenumberRead(w)
  BY <1>11, ReadingType, QueueOrdersType DEF RenumberRead, TypeOK, Labels
<1>12. CASE RenumberCommit(w) \/ ReorderCommit(w)
  BY <1>2, <1>12, NumberedType, FinishType DEF RenumberCommit, ReorderCommit
<1>13. CASE MoveRead(w)
  <2>1. PICK q \in QueueOrders(rows) :
          /\ subject[w] \in ToSet(q)
          /\ SwapIndex(w, q) \in DOMAIN q
          /\ order' = [order EXCEPT ![w] =
                         [q EXCEPT ![SwapIndex(w, q)] = subject[w],
                                   ![Place(q, subject[w])] = q[SwapIndex(w, q)]]]
    BY <1>13 DEF MoveRead
  <2>2. q \in Seq(Jobs)
    BY QueueOrdersType DEF TypeOK
  <2>3. subject[w] \in Jobs /\ q[SwapIndex(w, q)] \in Jobs
    BY <2>1, <2>2 DEF ToSet
  <2> DEFINE a == SwapIndex(w, q)
             b == Place(q, subject[w])
             m == [q EXCEPT ![a] = subject[w], ![b] = q[a]]
  <2>4. m \in Seq(Jobs)
    <3>1. q \in [1..Len(q) -> Jobs] /\ Len(q) \in Nat
      BY <2>2
    <3>2. subject[w] \in Jobs /\ q[a] \in Jobs
      BY <2>3
    <3> HIDE DEF a, b
    <3>3. m \in [1..Len(q) -> Jobs]
      BY <3>1, <3>2
    <3> HIDE DEF m
    <3> QED BY <3>1, <3>3
  <2>5. order' \in [Workers -> Seq(Jobs)]
    BY <2>1, <2>4 DEF TypeOK
  <2> QED BY <1>13, <2>5, ReadingType DEF MoveRead, TypeOK, Labels
<1>14. CASE MoveNowhere(w)
  BY <1>14, FinishType DEF MoveNowhere, TypeOK, WorkersTypeOK
<1>15. CASE ReorderRead(w)
  BY <1>15, ReadingType DEF ReorderRead, TypeOK, Labels
<1>16. CASE ReorderRefused(w)
  BY <1>16, FinishType DEF ReorderRefused, TypeOK, WorkersTypeOK
<1> QED BY <1>4, <1>5, <1>6, <1>7, <1>8, <1>9, <1>10, <1>11, <1>12, <1>13, <1>14,
           <1>15, <1>16 DEF Proceed

(* Every step keeps the types.                                             *)
LEMMA NextType ==
  ASSUME TypeOK, [Next]_vars
  PROVE  TypeOK'
<1>1. ASSUME NEW w \in Workers, Abort(w)
      PROVE  TypeOK'
  BY <1>1, FinishType DEF Abort, TypeOK, WorkersTypeOK
<1>2. CASE UNCHANGED vars
  BY <1>2 DEF TypeOK, vars
<1> QED BY <1>1, <1>2, ArriveType, ProceedType DEF Next

(* The table starts with well-formed rows.                                 *)
LEMMA InitType == Init => TypeOK
BY DEF Init, TypeOK, Row, Statuses, Labels, NoPosition

(* Every variable has its type in every reachable state: no interleaving   *)
(* of the services leaves a malformed row or a half-loaded object behind.  *)
THEOREM TypeCorrectness == Spec => []TypeOK
BY InitType, NextType, PTL DEF Spec

-----------------------------------------------------------------------------
(* A queued job keeps a position.                                          *)

(* No job is queued and no handler at work at the start.                   *)
LEMMA InitInv == Init => IInv
BY InitType
   DEF Init, IInv, QueuedJobsArePositioned, HandlersHoldWhatTheyChecked, HoldsWhatItChecked

(* A step of one worker leaves what the others hold alone.                 *)
LEMMA OthersHold ==
  ASSUME HandlersHoldWhatTheyChecked, NEW w \in Workers, HoldsWhatItChecked(w)',
         \A v \in Workers \ {w} : /\ pc'[v] = pc[v]
                                 /\ subject'[v] = subject[v]
                                 /\ session'[v] = session[v]
                                 /\ next'[v] = next[v]
  PROVE  HandlersHoldWhatTheyChecked'
<1> SUFFICES ASSUME NEW v \in Workers, v # w
             PROVE  HoldsWhatItChecked(v)'
  BY DEF HandlersHoldWhatTheyChecked
<1> QED BY DEF HandlersHoldWhatTheyChecked, HoldsWhatItChecked

(* A request that opens holds the row as it is, which its guard checked.   *)
LEMMA OpenKeepsInv ==
  ASSUME IInv, NEW w \in Workers, NEW j \in Jobs, NEW kind, NEW label,
         Open(w, j, kind, label),
         label \notin {"idle", "enqueueCommit"},
         label = "enqueue" => rows[j].position = NoPosition,
         label = "remove" => rows[j].status # "APPROVED",
         label = "start" => rows[j].status # "PRINTING"
  PROVE  QueuedJobsArePositioned' /\ HandlersHoldWhatTheyChecked'
<1>1. QueuedJobsArePositioned'
  BY DEF IInv, Open, QueuedJobsArePositioned
<1>2. pc'[w] = label /\ subject'[w] = j /\ session'[w] = Reading(w, {j})
  BY DEF IInv, TypeOK, Open
<1>3. session'[w][j] = rows[j]
  BY <1>2 DEF IInv, HandlersHoldWhatTheyChecked, HoldsWhatItChecked, Open, Reading
<1>4. HoldsWhatItChecked(w)'
  BY <1>2, <1>3 DEF HoldsWhatItChecked
<1>5. \A v \in Workers \ {w} : /\ pc'[v] = pc[v]
                               /\ subject'[v] = subject[v]
                               /\ session'[v] = session[v]
                               /\ next'[v] = next[v]
  BY DEF IInv, TypeOK, Open
<1> QED BY <1>1, <1>4, <1>5, OthersHold DEF IInv

(* A worker that holds nothing has checked nothing.                        *)
LEMMA ExpireKeepsHolding ==
  ASSUME IInv, NEW w \in Workers, NEW label \in {"idle", "renumber"}, Expire(w, label)
  PROVE  HandlersHoldWhatTheyChecked'
<1>1. pc'[w] = label /\ session'[w] = [j \in Jobs |-> NotLoaded]
  BY DEF IInv, TypeOK, Expire
<1>2. HoldsWhatItChecked(w)'
  BY <1>1 DEF HoldsWhatItChecked
<1>3. \A v \in Workers \ {w} : /\ pc'[v] = pc[v]
                               /\ subject'[v] = subject[v]
                               /\ session'[v] = session[v]
                               /\ next'[v] = next[v]
  BY DEF IInv, TypeOK, Expire
<1> QED BY <1>2, <1>3, OthersHold DEF IInv

(* A request that arrives holds what its guard checked.                    *)
LEMMA ArriveKeepsInv ==
  ASSUME IInv, NEW w \in Workers, Arrive(w)
  PROVE  QueuedJobsArePositioned' /\ HandlersHoldWhatTheyChecked'
<1>1. ASSUME NEW l \in ReorderLists, Reorder(w, l)
      PROVE  QueuedJobsArePositioned' /\ HandlersHoldWhatTheyChecked'
  <2>1. QueuedJobsArePositioned'
    BY <1>1 DEF IInv, Reorder, QueuedJobsArePositioned
  <2>2. pc'[w] = "reorder" /\ \A v \in Workers \ {w} : pc'[v] = pc[v]
    BY <1>1 DEF IInv, TypeOK, Reorder
  <2>3. HoldsWhatItChecked(w)'
    BY <2>2 DEF HoldsWhatItChecked
  <2> QED BY <1>1, <2>1, <2>2, <2>3, OthersHold DEF IInv, Reorder
<1> SUFFICES ASSUME NEW j \in Jobs,
                    \/ Approve(w, j) \/ Reject(w, j) \/ Unapprove(w, j) \/ Sync(w, j)
                    \/ Slice(w, j) \/ Enqueue(w, j) \/ RemoveFromQueue(w, j)
                    \/ StartPrint(w, j) \/ Move(w, j)
             PROVE  QueuedJobsArePositioned' /\ HandlersHoldWhatTheyChecked'
  BY <1>1 DEF Arrive
<1>2. CASE Approve(w, j) \/ Reject(w, j) \/ Unapprove(w, j) \/ Slice(w, j)
  BY <1>2, OpenKeepsInv DEF Approve, Reject, Unapprove, Slice
<1>3. CASE Sync(w, j) \/ Move(w, j)
  BY <1>3, OpenKeepsInv DEF Sync, Move
<1>4. CASE Enqueue(w, j)
  BY <1>4, OpenKeepsInv DEF Enqueue
<1>5. CASE RemoveFromQueue(w, j)
  <2>1. rows[j].status # "APPROVED"
    BY <1>5 DEF RemoveFromQueue, Allowed, AllowedTransitions
  <2> QED BY <1>5, <2>1, OpenKeepsInv DEF RemoveFromQueue
<1>6. CASE StartPrint(w, j)
  <2>1. rows[j].status # "PRINTING"
    BY <1>6 DEF StartPrint, Allowed, AllowedTransitions
  <2> QED BY <1>6, <2>1, OpenKeepsInv DEF StartPrint
<1> QED BY <1>2, <1>3, <1>4, <1>5, <1>6

(* Writing back one object keeps queued jobs positioned under the same     *)
(* condition as CommitKeepsPositions, for that object alone.               *)
LEMMA AssignKeepsPositions ==
  ASSUME IInv, NEW w \in Workers, NEW row, Commit(w, Assign(w, row)),
         LET held == session[w][subject[w]] IN
           subject[w] \in Jobs /\ held # NotLoaded =>
             /\ row.status = "QUEUED" /\ row.status # held.status =>
                  row.position # NoPosition /\ row.position # held.position
             /\ row.position = NoPosition /\ row.position # held.position =>
                  row.status # "QUEUED" /\ row.status # held.status
  PROVE  QueuedJobsArePositioned'
<1> DEFINE assigned == Assign(w, row)
<1>1. \A j \in Jobs : assigned[j] = IF j = subject[w] THEN row ELSE session[w][j]
  BY DEF Assign, IInv, TypeOK
<1> HIDE DEF assigned
<1>2. \A j \in Jobs : session[w][j] # NotLoaded =>
        LET new == assigned[j]
            old == session[w][j] IN
        /\ new.status = "QUEUED" /\ new.status # old.status =>
             new.position # NoPosition /\ new.position # old.position
        /\ new.position = NoPosition /\ new.position # old.position =>
             new.status # "QUEUED" /\ new.status # old.status
  BY <1>1
<1>3. Commit(w, assigned)
  BY DEF assigned
<1> QED BY <1>2, <1>3, CommitKeepsPositions DEF IInv

(* Numbering writes positions only, and none of them is NULL.              *)
LEMMA NumberedKeepsPositions ==
  ASSUME IInv, NEW w \in Workers, Commit(w, Numbered(w))
  PROVE  QueuedJobsArePositioned'
<1> DEFINE assigned == Numbered(w)
<1>1. ASSUME NEW j \in Jobs, session[w][j] # NotLoaded
      PROVE  /\ assigned[j].status = session[w][j].status
             /\ assigned[j].position # session[w][j].position =>
                  assigned[j].position # NoPosition
  <2>1. session[w][j] \in Row /\ order[w] \in Seq(Jobs)
    BY <1>1 DEF IInv, TypeOK
  <2>2. CASE j \in ToSet(order[w])
    <3>1. Place(order[w], j) # NoPosition
      BY <2>1, <2>2, PlaceType
    <3>2. assigned[j] = [session[w][j] EXCEPT !.position = Place(order[w], j)]
      BY <2>2 DEF Numbered
    <3> QED BY <2>1, <3>1, <3>2 DEF Row
  <2>3. CASE j \notin ToSet(order[w])
    BY <2>3 DEF Numbered
  <2> QED BY <2>2, <2>3
<1> HIDE DEF assigned
<1>2. \A j \in Jobs : session[w][j] # NotLoaded =>
        LET new == assigned[j]
            old == session[w][j] IN
        /\ new.status = "QUEUED" /\ new.status # old.status =>
             new.position # NoPosition /\ new.position # old.position
        /\ new.position = NoPosition /\ new.position # old.position =>
             new.status # "QUEUED" /\ new.status # old.status
  BY <1>1
<1>3. Commit(w, assigned)
  BY DEF assigned
<1> QED BY <1>2, <1>3, CommitKeepsPositions DEF IInv

(* A step that only moves the worker on, to a label without obligations.   *)
LEMMA StepKeepsHolding ==
  ASSUME IInv, NEW w \in Workers,
         pc'[w] \notin {"idle", "enqueue", "enqueueCommit", "remove", "start"},
         \A v \in Workers \ {w} : /\ pc'[v] = pc[v]
                                 /\ subject'[v] = subject[v]
                                 /\ session'[v] = session[v]
                                 /\ next'[v] = next[v]
  PROVE  HandlersHoldWhatTheyChecked'
<1>1. HoldsWhatItChecked(w)'
  BY DEF HoldsWhatItChecked
<1> QED BY <1>1, OthersHold DEF IInv

(* Every statement of a handler keeps queued jobs positioned, and what it  *)
(* checked in the object it will write.                                    *)
LEMMA ProceedKeepsInv ==
  ASSUME IInv, NEW w \in Workers, Proceed(w)
  PROVE  QueuedJobsArePositioned' /\ HandlersHoldWhatTheyChecked'
<1> DEFINE held == session[w][subject[w]]
           Inv == QueuedJobsArePositioned /\ HandlersHoldWhatTheyChecked
<1>1. subject[w] \in Jobs /\ held # NotLoaded => held \in Row
  BY DEF IInv, TypeOK
<1>2. HoldsWhatItChecked(w)
  BY DEF IInv, HandlersHoldWhatTheyChecked
<1>3. ASSUME UNCHANGED rows
      PROVE  QueuedJobsArePositioned'
  BY <1>3 DEF IInv, QueuedJobsArePositioned
<1>4. ASSUME Finish(w)
      PROVE  HandlersHoldWhatTheyChecked'
  BY <1>4, ExpireKeepsHolding DEF Finish
<1>5. CASE SetStatus(w)
  <2> DEFINE row == [held EXCEPT !.status = Target[pc[w]]]
  <2>1. held \in Row => /\ row.status # "QUEUED"
                        /\ row.position = held.position
    BY <1>5 DEF SetStatus, Target, Row
  <2>2. Commit(w, Assign(w, row)) /\ Finish(w)
    BY <1>5 DEF SetStatus
  <2> HIDE DEF row
  <2> QED BY <1>1, <1>4, <2>1, <2>2, AssignKeepsPositions
<1>6. CASE SliceBegin(w)
  <2> DEFINE row == [held EXCEPT !.status = "SLICING"]
  <2>1. held \in Row => /\ row.status # "QUEUED"
                        /\ row.position = held.position
    BY DEF Row
  <2>2. Commit(w, Assign(w, row))
    BY <1>6 DEF SliceBegin
  <2>3. HandlersHoldWhatTheyChecked'
    BY <1>6, StepKeepsHolding DEF SliceBegin, IInv, TypeOK
  <2> HIDE DEF row
  <2> QED BY <1>1, <2>1, <2>2, <2>3, AssignKeepsPositions
<1>7. CASE RunSlicer(w)
  BY <1>7, <1>3, StepKeepsHolding DEF RunSlicer, IInv, TypeOK
<1>8. CASE EnqueueMax(w)
  <2>1. NextPosition(rows) # NoPosition
    BY NextPositionType DEF IInv, TypeOK
  <2>2. HoldsWhatItChecked(w)'
    BY <1>2, <1>8, <2>1 DEF EnqueueMax, HoldsWhatItChecked, IInv, TypeOK
  <2> QED BY <1>3, <1>8, <2>2, OthersHold DEF EnqueueMax, IInv, TypeOK
<1>9. CASE EnqueueCommit(w)
  <2> DEFINE row == [held EXCEPT !.status = "QUEUED", !.position = next[w]]
  <2>1. held.position = NoPosition /\ next[w] # NoPosition
    BY <1>2, <1>9 DEF EnqueueCommit, HoldsWhatItChecked
  <2>2. held \in Row => row.position = next[w]
    BY DEF Row
  <2>3. Commit(w, Assign(w, row)) /\ Finish(w)
    BY <1>9 DEF EnqueueCommit
  <2> HIDE DEF row
  <2> QED BY <1>1, <1>4, <2>1, <2>2, <2>3, AssignKeepsPositions
<1>10. CASE RemoveCommit(w)
  <2> DEFINE row == [held EXCEPT !.status = "APPROVED", !.position = NoPosition]
  <2>1. held.status # "APPROVED"
    BY <1>2, <1>10 DEF RemoveCommit, HoldsWhatItChecked
  <2>2. held \in Row => row.status = "APPROVED"
    BY DEF Row
  <2>3. Commit(w, Assign(w, row)) /\ Expire(w, "renumber")
    BY <1>10 DEF RemoveCommit
  <2> HIDE DEF row
  <2> QED BY <1>1, <2>1, <2>2, <2>3, AssignKeepsPositions, ExpireKeepsHolding
<1>11. CASE StartCommit(w)
  <2> DEFINE row == [held EXCEPT !.status = "PRINTING", !.position = NoPosition,
                                 !.started = TRUE]
  <2>1. held.status # "PRINTING"
    BY <1>2, <1>11 DEF StartCommit, HoldsWhatItChecked
  <2>2. held \in Row => row.status = "PRINTING"
    BY DEF Row
  <2>3. Commit(w, Assign(w, row))
    BY <1>11 DEF StartCommit
  <2>4. PICK label \in {"renumber", "idle"} : Expire(w, label)
    BY <1>11 DEF StartCommit
  <2> HIDE DEF row
  <2> QED BY <1>1, <2>1, <2>2, <2>3, <2>4, AssignKeepsPositions, ExpireKeepsHolding
<1>12. CASE RenumberRead(w)
  BY <1>12, <1>3, StepKeepsHolding DEF RenumberRead, IInv, TypeOK
<1>13. CASE RenumberCommit(w) \/ ReorderCommit(w)
  BY <1>13, <1>4, NumberedKeepsPositions DEF RenumberCommit, ReorderCommit
<1>14. CASE MoveRead(w)
  BY <1>14, <1>3, StepKeepsHolding DEF MoveRead, IInv, TypeOK
<1>15. CASE MoveNowhere(w)
  BY <1>15, <1>3, <1>4 DEF MoveNowhere
<1>16. CASE ReorderRead(w)
  BY <1>16, <1>3, StepKeepsHolding DEF ReorderRead, IInv, TypeOK
<1>17. CASE ReorderRefused(w)
  BY <1>17, <1>3, <1>4 DEF ReorderRefused
<1> QED BY <1>5, <1>6, <1>7, <1>8, <1>9, <1>10, <1>11, <1>12, <1>13, <1>14, <1>15,
           <1>16, <1>17 DEF Proceed

(* Every step keeps the invariant.                                         *)
LEMMA NextInv ==
  ASSUME IInv, [Next]_vars
  PROVE  IInv'
<1>1. TypeOK'
  BY NextType DEF IInv
<1>2. ASSUME NEW w \in Workers, Abort(w)
      PROVE  QueuedJobsArePositioned' /\ HandlersHoldWhatTheyChecked'
  BY <1>2, ExpireKeepsHolding DEF Abort, Finish, IInv, QueuedJobsArePositioned
<1>3. ASSUME NEW w \in Workers, Arrive(w) \/ Proceed(w)
      PROVE  QueuedJobsArePositioned' /\ HandlersHoldWhatTheyChecked'
  BY <1>3, ArriveKeepsInv, ProceedKeepsInv
<1>4. ASSUME UNCHANGED vars
      PROVE  QueuedJobsArePositioned' /\ HandlersHoldWhatTheyChecked'
  BY <1>4 DEF IInv, QueuedJobsArePositioned, HandlersHoldWhatTheyChecked,
              HoldsWhatItChecked, vars
<1>5. QueuedJobsArePositioned' /\ HandlersHoldWhatTheyChecked'
  BY <1>2, <1>3, <1>4 DEF Next
<1> QED BY <1>1, <1>5 DEF IInv

(* However many requests interleave, and wherever they are cut off, a job  *)
(* whose status is QUEUED has a position and is listed by get_queue.       *)
THEOREM QueuedJobsStayPositioned == Spec => []QueuedJobsArePositioned
<1>1. IInv => QueuedJobsArePositioned
  BY DEF IInv
<1> QED BY InitInv, NextInv, <1>1, PTL DEF Spec
=============================================================================
