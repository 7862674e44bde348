---------------------------- MODULE QueueRefinement ----------------------------
(***************************************************************************)
(* QueueService implements PrintQueue when requests are served one at a    *)
(* time: under the mapping of Promise every step of the table is a step of *)
(* the abstract list of jobs, or leaves the list as it is.                 *)
(***************************************************************************)
EXTENDS SerialQueueProofs

Sorted(q, r) == \A i, k \in DOMAIN q : i < k => r[q[i]].position <= r[q[k]].position

\* What Promise takes for the queue when the table is r.
Listed(r) == CHOOSE q \in QueueOrders(r) : TRUE

DistinctIn(r) == \A j, k \in Positioned(r) : r[j].position = r[k].position => j = k

-----------------------------------------------------------------------------
(* Lists of jobs.                                                          *)

(* A list without repetitions is as long as its set of jobs is large.      *)
LEMMA LengthOfList ==
  ASSUME NEW q \in Seq(Jobs), OnceEach(q)
  PROVE  IsFiniteSet(ToSet(q)) /\ Cardinality(ToSet(q)) = Len(q)
<1> DEFINE T == ToSet(q)
           D == 1..Len(q)
<1>1. Len(q) \in Nat /\ DOMAIN q = D
  OBVIOUS
<1>2. IsFiniteSet(D) /\ Cardinality(D) = Len(q)
  BY <1>1, FS_Interval
<1>3. q \in Bijection(D, T)
  BY <1>1 DEF OnceEach, ToSet, Bijection, Injection, IsInjective, Surjection
<1>4. ExistsBijection(D, T)
  BY <1>3 DEF ExistsBijection
<1> HIDE DEF D, T
<1> QED BY <1>2, <1>4, FS_Bijection DEF T

(* Such a list is one of the orders of its set.                            *)
LEMMA ListIsOrder ==
  ASSUME NEW q \in Seq(Jobs), OnceEach(q)
  PROVE  q \in SetToSeqs(ToSet(q))
<1>1. Cardinality(ToSet(q)) = Len(q)
  BY LengthOfList
<1>2. q \in [1..Len(q) -> ToSet(q)] /\ DOMAIN q = 1..Len(q)
  BY DEF ToSet
<1> QED BY <1>1, <1>2 DEF SetToSeqs, OnceEach

(* The queue query returns the sorted lists of the positioned jobs.        *)
LEMMA QueueOrdersAre ==
  ASSUME NEW r \in [Jobs -> Row], NEW q \in Seq(Jobs)
  PROVE  q \in QueueOrders(r) <=> OnceEach(q) /\ ToSet(q) = Positioned(r) /\ Sorted(q, r)
<1>1. q \in QueueOrders(r) => OnceEach(q) /\ ToSet(q) = Positioned(r) /\ Sorted(q, r)
  BY QueueOrdersList DEF QueueOrders, Sorted
<1>2. OnceEach(q) /\ ToSet(q) = Positioned(r) /\ Sorted(q, r) => q \in QueueOrders(r)
  BY ListIsOrder DEF QueueOrders, Sorted
<1> QED BY <1>1, <1>2

(* A job that comes last in a sorted list may be appended.                 *)
LEMMA AppendSorted ==
  ASSUME NEW r \in [Jobs -> Row], NEW q \in Seq(Jobs), OnceEach(q), Sorted(q, r),
         NEW j \in Jobs, j \notin ToSet(q),
         \A k \in ToSet(q) : r[k].position <= r[j].position
  PROVE  /\ Append(q, j) \in Seq(Jobs) /\ OnceEach(Append(q, j))
         /\ ToSet(Append(q, j)) = ToSet(q) \cup {j} /\ Sorted(Append(q, j), r)
<1> DEFINE m == Append(q, j)
           n == Len(q)
<1>1. /\ m \in Seq(Jobs) /\ n \in Nat
      /\ DOMAIN q = 1..n /\ DOMAIN m = 1..(n + 1)
      /\ m[n + 1] = j /\ \A i \in 1..n : m[i] = q[i]
  OBVIOUS
<1>2. \A i \in DOMAIN m : i = n + 1 \/ i \in DOMAIN q
  BY <1>1
<1>3. \A i \in DOMAIN q : q[i] \in ToSet(q) /\ q[i] \in Jobs /\ i < n + 1
  BY <1>1 DEF ToSet
<1> HIDE DEF m, n
<1>4. OnceEach(m)
  BY <1>1, <1>2, <1>3 DEF OnceEach
<1>5. ToSet(m) = ToSet(q) \cup {j}
  <2>1. \A i \in DOMAIN m : m[i] \in ToSet(q) \cup {j}
    BY <1>1, <1>2, <1>3
  <2>2. \A i \in DOMAIN q : i \in DOMAIN m /\ m[i] = q[i]
    BY <1>1
  <2>3. n + 1 \in DOMAIN m /\ m[n + 1] = j
    BY <1>1
  <2> QED BY <2>1, <2>2, <2>3 DEF ToSet
<1>6. Sorted(m, r)
  <2> SUFFICES ASSUME NEW i \in DOMAIN m, NEW k \in DOMAIN m, i < k
               PROVE  r[m[i]].position <= r[m[k]].position
    BY DEF Sorted
  <2>1. i \in DOMAIN q /\ m[i] = q[i]
    BY <1>1, <1>2
  <2>2. CASE k = n + 1
    BY <1>1, <1>3, <2>1, <2>2
  <2>3. CASE k \in DOMAIN q
    BY <1>1, <2>1, <2>3 DEF Sorted
  <2> QED BY <1>2, <2>2, <2>3
<1> QED BY <1>1, <1>4, <1>5, <1>6 DEF m

(* Every set of jobs can be sorted: a smallest one that could not would    *)
(* have a job of greatest position, and the others could be sorted.        *)
LEMMA SortedListExists ==
  ASSUME NEW r \in [Jobs -> Row], NEW S \in SUBSET Jobs
  PROVE  \E q \in Seq(Jobs) : OnceEach(q) /\ ToSet(q) = S /\ Sorted(q, r)
<1> DEFINE Sortable(P) == \E q \in Seq(Jobs) : OnceEach(q) /\ ToSet(q) = P /\ Sorted(q, r)
           Bad == {n \in Nat : \E P \in SUBSET Jobs : Cardinality(P) = n /\ ~Sortable(P)}
<1>1. SUFFICES ASSUME ~Sortable(S)
               PROVE  FALSE
  OBVIOUS
<1>2. \A P \in SUBSET Jobs : IsFiniteSet(P) /\ Cardinality(P) \in Nat
  BY JobsAssumption, FS_Subset, FS_CardinalityType
<1>3. Bad \subseteq Nat /\ Bad # {}
  <2> HIDE DEF Sortable
  <2> QED BY <1>1, <1>2
<1>4. PICK n \in Bad : \A m \in Bad : n <= m
  <2> HIDE DEF Bad
  <2> QED BY <1>3, LeastElement
<1>5. PICK P \in SUBSET Jobs : Cardinality(P) = n /\ ~Sortable(P)
  BY <1>4
<1>6. P # {}
  <2>1. <<>> \in Seq(Jobs) /\ OnceEach(<<>>) /\ ToSet(<<>>) = {} /\ Sorted(<<>>, r)
    BY DEF OnceEach, ToSet, Sorted
  <2> QED BY <1>5, <2>1
<1> DEFINE Z == {r[j].position : j \in P}
<1>7. PICK j \in P : \A k \in P : r[k].position <= r[j].position
  <2>1. Z \subseteq Nat /\ Z # {}
    BY <1>6 DEF Row
  <2>2. IsFiniteSet(Z)
    <3> DEFINE f == [k \in P |-> r[k].position]
    <3>1. f \in Surjection(P, Z)
      BY DEF Surjection
    <3>2. IsFiniteSet(P)
      BY <1>2
    <3> HIDE DEF f, Z
    <3> QED BY <3>1, <3>2, FS_Surjection
  <2>3. Max(Z) \in Z /\ \A x \in Z : x <= Max(Z)
    <3> HIDE DEF Z
    <3> QED BY <2>1, <2>2, MaxOfFinite
  <2> QED BY <2>3
<1> DEFINE O == P \ {j}
<1>8. O \in SUBSET Jobs /\ Cardinality(O) = n - 1 /\ n - 1 \in Nat /\ ~(n <= n - 1)
  <2>1. IsFiniteSet(P) /\ n \in Nat
    BY <1>2, <1>5
  <2>2. Cardinality(O) = n - 1
    BY <1>5, <1>7, <2>1, FS_RemoveElement
  <2>3. Cardinality(O) \in Nat
    BY <1>2
  <2> QED BY <2>1, <2>2, <2>3
<1>9. Sortable(O)
  <2>1. n - 1 \notin Bad
    <3> HIDE DEF Bad
    <3> QED BY <1>4, <1>8
  <2> HIDE DEF Sortable, O
  <2> QED BY <1>8, <2>1
<1>10. PICK q \in Seq(Jobs) : OnceEach(q) /\ ToSet(q) = O /\ Sorted(q, r)
  BY <1>9
<1>11. j \in Jobs /\ j \notin ToSet(q) /\ \A k \in ToSet(q) : r[k].position <= r[j].position
  BY <1>7, <1>10
<1>12. /\ Append(q, j) \in Seq(Jobs) /\ OnceEach(Append(q, j))
       /\ ToSet(Append(q, j)) = ToSet(q) \cup {j} /\ Sorted(Append(q, j), r)
  BY <1>10, <1>11, AppendSorted
<1>13. ToSet(Append(q, j)) = P
  BY <1>7, <1>10, <1>12
<1> QED BY <1>5, <1>12, <1>13

(* In a sorted list of jobs at distinct places, ahead is at a lower place. *)
LEMMA SortedStrictly ==
  ASSUME NEW r \in [Jobs -> Row], DistinctIn(r), NEW q \in Seq(Jobs), OnceEach(q),
         ToSet(q) \subseteq Positioned(r), Sorted(q, r),
         NEW i \in DOMAIN q, NEW k \in DOMAIN q
  PROVE  i < k <=> r[q[i]].position < r[q[k]].position
<1>1. q[i] \in Positioned(r) /\ q[k] \in Positioned(r) /\ i \in Nat /\ k \in Nat
  BY DEF ToSet
<1>2. r[q[i]].position \in Nat /\ r[q[k]].position \in Nat
  BY <1>1 DEF Positioned, Row
<1>3. r[q[i]].position = r[q[k]].position => i = k
  BY <1>1 DEF DistinctIn, OnceEach
<1>4. i < k => r[q[i]].position <= r[q[k]].position
  BY DEF Sorted
<1>5. k < i => r[q[k]].position <= r[q[i]].position
  BY DEF Sorted
<1> QED BY <1>1, <1>2, <1>3, <1>4, <1>5

(* There is only one such list.                                            *)
LEMMA SortedListIsUnique ==
  ASSUME NEW r \in [Jobs -> Row], DistinctIn(r),
         NEW p \in Seq(Jobs), OnceEach(p), ToSet(p) = Positioned(r), Sorted(p, r),
         NEW q \in Seq(Jobs), OnceEach(q), ToSet(q) = Positioned(r), Sorted(q, r)
  PROVE  p = q
<1>1. Len(p) = Len(q)
  BY LengthOfList
<1> DEFINE n == Len(p)
           Diff == {i \in 1..n : p[i] # q[i]}
<1>2. n \in Nat /\ DOMAIN p = 1..n /\ DOMAIN q = 1..n
  BY <1>1
<1>3. SUFFICES ASSUME Diff # {}
               PROVE  FALSE
  BY <1>1, <1>2
<1>4. PICK i \in Diff : \A k \in Diff : i <= k
  <2>1. Diff \subseteq Nat
    BY <1>2
  <2> HIDE DEF Diff
  <2> QED BY <1>3, <2>1, LeastElement
<1>5. i \in 1..n /\ p[i] # q[i] /\ \A k \in 1..n : k < i => p[k] = q[k]
  BY <1>2, <1>4
<1>6. PICK a \in 1..n : q[a] = p[i]
  BY <1>2, <1>5 DEF ToSet
<1>7. PICK b \in 1..n : p[b] = q[i]
  BY <1>2, <1>5 DEF ToSet
<1> HIDE DEF n, Diff
<1>8. i < a
  <2>1. a # i
    BY <1>5, <1>6
  <2>2. ~(a < i)
    BY <1>2, <1>5, <1>6 DEF OnceEach
  <2> QED BY <1>2, <1>5, <1>6, <2>1, <2>2
<1>9. i < b
  <2>1. b # i
    BY <1>5, <1>7
  <2>2. ~(b < i)
    BY <1>2, <1>5, <1>7 DEF OnceEach
  <2> QED BY <1>2, <1>5, <1>7, <2>1, <2>2
<1>10. r[q[i]].position < r[p[i]].position
  BY <1>2, <1>5, <1>6, <1>8, SortedStrictly
<1>11. r[p[i]].position < r[q[i]].position
  BY <1>2, <1>5, <1>7, <1>9, SortedStrictly
<1>12. r[q[i]].position \in Nat /\ r[p[i]].position \in Nat
  BY <1>2, <1>5 DEF Row
<1> QED BY <1>10, <1>11, <1>12

(* The queue of a table is its sorted list.                                *)
LEMMA ListedIs ==
  ASSUME NEW r \in [Jobs -> Row]
  PROVE  /\ Listed(r) \in Seq(Jobs) /\ OnceEach(Listed(r))
         /\ ToSet(Listed(r)) = Positioned(r) /\ Sorted(Listed(r), r)
<1>1. PICK q \in Seq(Jobs) : OnceEach(q) /\ ToSet(q) = Positioned(r) /\ Sorted(q, r)
  BY SortedListExists DEF Positioned
<1>2. q \in QueueOrders(r)
  BY <1>1, QueueOrdersAre
<1>3. Listed(r) \in QueueOrders(r)
  BY <1>2 DEF Listed
<1>4. Listed(r) \in Seq(Jobs)
  BY <1>3, QueueOrdersType
<1> QED BY <1>3, <1>4, QueueOrdersAre

-----------------------------------------------------------------------------
(* What becomes of the list when the table r becomes the table s.          *)

AheadIn(q, a, b) == \E i, k \in DOMAIN q : i < k /\ q[i] = a /\ q[k] = b

(* Ahead in the queue is at a lower position.                              *)
LEMMA AheadIsLower ==
  ASSUME NEW r \in [Jobs -> Row], DistinctIn(r),
         NEW a \in Positioned(r), NEW b \in Positioned(r)
  PROVE  AheadIn(Listed(r), a, b) <=> r[a].position < r[b].position
<1> DEFINE q == Listed(r)
<1>1. q \in Seq(Jobs) /\ OnceEach(q) /\ ToSet(q) = Positioned(r) /\ Sorted(q, r)
  BY ListedIs
<1> HIDE DEF q
<1>2. PICK i \in DOMAIN q : q[i] = a
  BY <1>1 DEF ToSet
<1>3. PICK k \in DOMAIN q : q[k] = b
  BY <1>1 DEF ToSet
<1>4. i < k <=> r[a].position < r[b].position
  BY <1>1, <1>2, <1>3, SortedStrictly
<1>5. AheadIn(q, a, b) <=> i < k
  BY <1>1, <1>2, <1>3 DEF AheadIn, OnceEach
<1> QED BY <1>4, <1>5 DEF q

(* Equal positions, equal queues.                                          *)
LEMMA SameList ==
  ASSUME NEW r \in [Jobs -> Row], NEW s \in [Jobs -> Row],
         \A j \in Jobs : s[j].position = r[j].position
  PROVE  Listed(s) = Listed(r)
<1>1. Positioned(s) = Positioned(r)
  BY DEF Positioned
<1>2. \A q \in SetToSeqs(Positioned(r)) : \A i \in DOMAIN q : q[i] \in Jobs
  <2>1. Positioned(r) \subseteq Jobs
    BY DEF Positioned
  <2> QED BY <2>1 DEF SetToSeqs
<1>3. QueueOrders(s) = QueueOrders(r)
  BY <1>1, <1>2 DEF QueueOrders
<1> QED BY <1>3 DEF Listed

(* A job put behind all others is appended.                                *)
LEMMA JoinedList ==
  ASSUME NEW r \in [Jobs -> Row], NEW s \in [Jobs -> Row], DistinctIn(s),
         NEW j \in Jobs, NEW row \in Row, s = [r EXCEPT ![j] = row],
         r[j].position = NoPosition, row.position # NoPosition,
         \A k \in Jobs : r[k].position < row.position
  PROVE  Listed(s) = Append(Listed(r), j)
<1> DEFINE q == Listed(r)
           m == Append(q, j)
           l == Listed(s)
<1>1. q \in Seq(Jobs) /\ OnceEach(q) /\ ToSet(q) = Positioned(r) /\ Sorted(q, r)
  BY ListedIs
<1>2. l \in Seq(Jobs) /\ OnceEach(l) /\ ToSet(l) = Positioned(s) /\ Sorted(l, s)
  BY ListedIs
<1>3. \A k \in Jobs : s[k] = IF k = j THEN row ELSE r[k]
  OBVIOUS
<1>4. Positioned(s) = Positioned(r) \cup {j} /\ j \notin Positioned(r)
  BY <1>3 DEF Positioned
<1> HIDE DEF q, l
<1>5. \A k \in ToSet(q) : k \in Jobs /\ s[k] = r[k]
  BY <1>1, <1>3, <1>4 DEF Positioned
<1>6. Sorted(q, s)
  BY <1>1, <1>5 DEF Sorted, ToSet
<1>7. \A k \in ToSet(q) : s[k].position <= s[j].position
  BY <1>3, <1>5 DEF Row
<1>8. /\ m \in Seq(Jobs) /\ OnceEach(m)
      /\ ToSet(m) = ToSet(q) \cup {j} /\ Sorted(m, s)
  BY <1>1, <1>4, <1>6, <1>7, AppendSorted
<1>9. l = m
  <2> HIDE DEF m
  <2> QED BY <1>1, <1>2, <1>4, <1>8, SortedListIsUnique
<1> QED BY <1>9 DEF q, l

(* A job that loses its position leaves the others in their order.         *)
LEMMA DroppedList ==
  ASSUME NEW r \in [Jobs -> Row], NEW s \in [Jobs -> Row], DistinctIn(r), DistinctIn(s),
         NEW j \in Positioned(r), NEW row \in Row, s = [r EXCEPT ![j] = row],
         row.position = NoPosition
  PROVE  /\ Listed(s) \in SetToSeqs(Positioned(r) \ {j})
         /\ \A a, b \in Positioned(r) \ {j} :
              AheadIn(Listed(s), a, b) <=> AheadIn(Listed(r), a, b)
<1>1. \A k \in Jobs : s[k] = IF k = j THEN row ELSE r[k]
  BY DEF Positioned
<1>2. Positioned(s) = Positioned(r) \ {j}
  BY <1>1 DEF Positioned
<1>3. Listed(s) \in SetToSeqs(Positioned(s))
  BY ListedIs, ListIsOrder
<1>4. ASSUME NEW a \in Positioned(s), NEW b \in Positioned(s)
      PROVE  AheadIn(Listed(s), a, b) <=> AheadIn(Listed(r), a, b)
  <2>1. a \in Positioned(r) /\ b \in Positioned(r) /\ s[a] = r[a] /\ s[b] = r[b]
    BY <1>1, <1>2 DEF Positioned
  <2> QED BY <2>1, AheadIsLower
<1> QED BY <1>2, <1>3, <1>4

-----------------------------------------------------------------------------
(* What a step does to positions and starts.                               *)

Keeps == \A j \in Jobs : /\ rows'[j].position = rows[j].position
                         /\ rows'[j].started = rows[j].started

Joins == \E j \in Jobs, row \in Row :
           /\ rows' = [rows EXCEPT ![j] = row]
           /\ rows[j].position = NoPosition /\ row.position # NoPosition
           /\ \A k \in Jobs : rows[k].position < row.position
           /\ ~rows[j].started /\ ~row.started

Leaves == \E j \in Positioned(rows), row \in Row :
            /\ rows' = [rows EXCEPT ![j] = row]
            /\ row.position = NoPosition
            /\ row.started = rows[j].started

Starts == \E j \in Positioned(rows), row \in Row :
            /\ rows' = [rows EXCEPT ![j] = row]
            /\ row.position = NoPosition
            /\ ~rows[j].started /\ row.started

Numbering == /\ Positioned(rows)' = Positioned(rows)
             /\ \A j \in Jobs : rows'[j].started = rows[j].started

(* The write of the loaded job, as it is committed.                        *)
LEMMA WriteIsExact ==
  ASSUME SInv, NEW w \in Workers, pc[w] \in Writing, NEW row \in Row,
         Commit(w, Assign(w, row))
  PROVE  rows' = [rows EXCEPT ![subject[w]] = row]
<1>1. TypeOK /\ Serial(w)
  BY DEF SInv, IInv
<1>2. subject[w] \in Jobs /\ session[w][subject[w]] # NotLoaded
  BY <1>1 DEF Serial
<1> QED BY <1>1, <1>2, AssignIsExact

(* A status that is written alone.                                         *)
LEMMA StatusWriteKeeps ==
  ASSUME SInv, NEW w \in Workers, pc[w] \in Writing, NEW status \in Statuses,
         Commit(w, Assign(w, [rows[subject[w]] EXCEPT !.status = status]))
  PROVE  Keeps
<1> DEFINE old == rows[subject[w]]
           row == [old EXCEPT !.status = status]
<1>1. subject[w] \in Jobs /\ old \in Row
  BY HeldIsRow
<1>2. row \in Row /\ row.position = old.position /\ row.started = old.started
  BY <1>1 DEF Row
<1>3. Commit(w, Assign(w, row))
  OBVIOUS
<1> HIDE DEF row
<1>4. rows' = [rows EXCEPT ![subject[w]] = row]
  BY <1>2, <1>3, WriteIsExact
<1> QED BY <1>1, <1>2, <1>4 DEF Keeps, SInv, IInv, TypeOK

(* Every step of the worker is one of these.                               *)
LEMMA StepsOfTable ==
  ASSUME SInv, [Next]_vars
  PROVE  Keeps \/ Joins \/ Leaves \/ Starts \/ Numbering
<1>1. ASSUME UNCHANGED rows
      PROVE  Keeps
  BY <1>1 DEF Keeps
<1>2. CASE UNCHANGED vars
  BY <1>1, <1>2 DEF vars
<1>3. ASSUME NEW w \in Workers, Arrive(w) \/ Abort(w)
      PROVE  Keeps
  <2>1. UNCHANGED rows
    BY <1>3
    DEF Abort, Arrive, Approve, Reject, Unapprove, Sync, Slice, Enqueue,
        RemoveFromQueue, StartPrint, Move, Open, Reorder
  <2> QED BY <1>1, <2>1
<1> SUFFICES ASSUME NEW w \in Workers, Proceed(w)
             PROVE  Keeps \/ Joins \/ Leaves \/ Starts \/ Numbering
  BY <1>2, <1>3 DEF Next
<1> DEFINE old == rows[subject[w]]
<1>4. TypeOK /\ TableInv /\ Serial(w) /\ QueuedJobsArePositioned
  BY DEF SInv, IInv
<1>5. CASE SetStatus(w)
  <2>1. pc[w] \in Writing /\ Target[pc[w]] \in Statuses
    BY <1>5 DEF SetStatus, Writing, Target, Statuses
  <2>2. Commit(w, Assign(w, [old EXCEPT !.status = Target[pc[w]]]))
    BY <1>5, <2>1, HeldIsRow DEF SetStatus
  <2> QED BY <2>1, <2>2, StatusWriteKeeps
<1>6. CASE SliceBegin(w)
  <2>1. pc[w] \in Writing /\ "SLICING" \in Statuses
    BY <1>6 DEF SliceBegin, Writing, Statuses
  <2>2. Commit(w, Assign(w, [old EXCEPT !.status = "SLICING"]))
    BY <1>6, <2>1, HeldIsRow DEF SliceBegin
  <2> QED BY <2>1, <2>2, StatusWriteKeeps
<1>7. CASE EnqueueCommit(w)
  <2> DEFINE row == [old EXCEPT !.status = "QUEUED", !.position = next[w]]
  <2>1. pc[w] = "enqueueCommit" /\ pc[w] \in Writing
    BY <1>7 DEF EnqueueCommit, Writing
  <2>2. /\ subject[w] \in Jobs /\ session[w][subject[w]] = old /\ old \in Row
        /\ old.started => old.status \in {"PRINTING", "FINISHED", "FAILED"}
    BY <2>1, HeldIsRow
  <2>3. /\ Allowed(old.status, "QUEUED") /\ old.position = NoPosition
        /\ \A j \in Jobs : rows[j].position < next[w]
    BY <1>4, <2>1 DEF Serial, RowAllows
  <2>4. ~old.started
    BY <2>2, <2>3 DEF Allowed, AllowedTransitions
  <2>5. next[w] \in Nat /\ next[w] # NoPosition
    BY <1>4, <2>2, <2>3 DEF TypeOK, NoPosition
  <2>6. row \in Row /\ row.position = next[w] /\ row.started = old.started
    BY <2>2, <2>5 DEF Row, Statuses
  <2>7. Commit(w, Assign(w, row))
    BY <1>7, <2>2 DEF EnqueueCommit
  <2> HIDE DEF row
  <2>8. rows' = [rows EXCEPT ![subject[w]] = row]
    BY <2>1, <2>6, <2>7, WriteIsExact
  <2>9. Joins
    BY <2>2, <2>3, <2>4, <2>5, <2>6, <2>8 DEF Joins
  <2> QED BY <2>9
<1>8. CASE RemoveCommit(w)
  <2> DEFINE row == [old EXCEPT !.status = "APPROVED", !.position = NoPosition]
  <2>1. pc[w] \in Writing
    BY <1>8 DEF RemoveCommit, Writing
  <2>2. subject[w] \in Jobs /\ session[w][subject[w]] = old /\ old \in Row
    BY <2>1, HeldIsRow
  <2>3. row \in Row /\ row.position = NoPosition /\ row.started = old.started
    BY <2>2 DEF Row, Statuses, NoPosition
  <2>4. Commit(w, Assign(w, row))
    BY <1>8, <2>2 DEF RemoveCommit
  <2> HIDE DEF row
  <2>5. rows' = [rows EXCEPT ![subject[w]] = row]
    BY <2>1, <2>3, <2>4, WriteIsExact
  <2>6. CASE old.position = NoPosition
    <3>1. Keeps
      BY <1>4, <2>2, <2>3, <2>5, <2>6 DEF Keeps, TypeOK
    <3> QED BY <3>1
  <2>7. CASE old.position # NoPosition
    <3>1. Leaves
      BY <2>2, <2>3, <2>5, <2>7 DEF Leaves, Positioned
    <3> QED BY <3>1
  <2> QED BY <2>6, <2>7
<1>9. CASE StartCommit(w)
  <2> DEFINE row == [old EXCEPT !.status = "PRINTING", !.position = NoPosition,
                                !.started = TRUE]
  <2>1. pc[w] = "start" /\ pc[w] \in Writing
    BY <1>9 DEF StartCommit, Writing
  <2>2. /\ subject[w] \in Jobs /\ session[w][subject[w]] = old /\ old \in Row
        /\ old.started => old.status \in {"PRINTING", "FINISHED", "FAILED"}
    BY <2>1, HeldIsRow
  <2>3. old.status = "QUEUED"
    BY <1>4, <2>1, <2>2 DEF Serial, RowAllows, Allowed, AllowedTransitions, Row, Statuses
  <2>4. ~old.started /\ old.position # NoPosition
    BY <1>4, <2>2, <2>3 DEF QueuedJobsArePositioned
  <2>5. row \in Row /\ row.position = NoPosition /\ row.started
    BY <2>2 DEF Row, Statuses, NoPosition
  <2>6. Commit(w, Assign(w, row))
    BY <1>9, <2>2 DEF StartCommit
  <2> HIDE DEF row
  <2>7. rows' = [rows EXCEPT ![subject[w]] = row]
    BY <2>1, <2>5, <2>6, WriteIsExact
  <2>8. Starts
    BY <2>2, <2>4, <2>5, <2>7 DEF Starts, Positioned
  <2> QED BY <2>8
<1>10. CASE RenumberCommit(w) \/ ReorderCommit(w)
  <2>1. /\ pc[w] \in {"renumberCommit", "reorderCommit"}
        /\ Commit(w, Numbered(w))
    BY <1>10 DEF RenumberCommit, ReorderCommit
  <2>2. Positioned(rows)' = Positioned(rows)
    BY <1>4, <2>1, NumberingKeepsQueue
  <2>3. \A j \in Jobs : rows'[j].started = rows[j].started
    BY <1>4, <2>1, NumberingIsExact DEF TypeOK, Row
  <2> QED BY <2>2, <2>3 DEF Numbering
<1> QED BY <1>1, <1>5, <1>6, <1>7, <1>8, <1>9, <1>10
        DEF Proceed, RunSlicer, EnqueueMax, RenumberRead, MoveRead, MoveNowhere,
            ReorderRead, ReorderRefused

-----------------------------------------------------------------------------
(* The refinement.                                                         *)

StartedIn(r) == {j \in Jobs : r[j].started}

(* The abstract list uses the same sets and lists.                         *)
LEMMA PromiseLists ==
  /\ \A q : Promise!ToSet(q) = ToSet(q)
  /\ \A S : Promise!SetToSeqs(S) = SetToSeqs(S)
<1>1. \A q : Promise!ToSet(q) = ToSet(q)
  BY DEF Promise!ToSet, ToSet
<1>2. \A S : Promise!Cardinality(S) = Cardinality(S)
  BY DEF Promise!Cardinality, Cardinality, Promise!IsFiniteSet, IsFiniteSet
<1>3. \A S : Promise!SetToSeqs(S) = SetToSeqs(S)
  BY <1>2 DEF Promise!SetToSeqs, SetToSeqs, Promise!IsInjective, IsInjective
<1> QED BY <1>1, <1>3

(* A table without positions is an empty list.                             *)
LEMMA PromiseInit == Init => Promise!Init
<1> SUFFICES ASSUME Init
             PROVE  Promise!Init
  OBVIOUS
<1>1. rows \in [Jobs -> Row] /\ Positioned(rows) = {} /\ StartedIn(rows) = {}
  BY InitType DEF Init, TypeOK, Positioned, StartedIn
<1> DEFINE q == Listed(rows)
<1>2. q \in Seq(Jobs) /\ ToSet(q) = {}
  BY <1>1, ListedIs
<1> HIDE DEF q
<1>3. q = <<>>
  BY <1>2 DEF ToSet
<1> QED BY <1>1, <1>3 DEF Promise!Init, q, Listed, StartedIn

(* A step of the table is a step of the list, or none.                     *)
LEMMA PromiseStep ==
  ASSUME OneWorker, SInv, [Next]_vars
  PROVE  [Promise!Next]_(Promise!vars)
<1> DEFINE r == rows
           s == rows'
           q == Listed(rows)
           l == Listed(rows')
<1>1. SInv'
  BY SerialStep
<1>2. r \in [Jobs -> Row] /\ s \in [Jobs -> Row] /\ DistinctIn(r) /\ DistinctIn(s)
  BY <1>1 DEF SInv, IInv, TypeOK, TableInv, PositionsAreDistinct, DistinctIn, Positioned
<1>3. ToSet(q) = Positioned(r) /\ \A j \in Positioned(r) : ~ r[j].started
  BY <1>2, ListedIs DEF SInv, TableInv, StartedJobsStayAway, Positioned
<1>4. CASE Keeps
  <2>1. l = q
    BY <1>2, <1>4, SameList DEF Keeps
  <2>2. StartedIn(s) = StartedIn(r)
    BY <1>4 DEF Keeps, StartedIn
  <2> QED BY <2>1, <2>2 DEF Promise!vars, Listed, StartedIn
<1>5. CASE Joins
  <2>1. PICK j \in Jobs, row \in Row :
          /\ rows' = [rows EXCEPT ![j] = row]
          /\ rows[j].position = NoPosition /\ row.position # NoPosition
          /\ \A k \in Jobs : rows[k].position < row.position
          /\ ~rows[j].started /\ ~row.started
    BY <1>5 DEF Joins
  <2>2. l = Append(q, j)
    BY <1>2, <2>1, JoinedList
  <2>3. StartedIn(s) = StartedIn(r) /\ j \notin StartedIn(r)
    BY <1>2, <2>1 DEF StartedIn
  <2>4. j \notin ToSet(q)
    BY <1>3, <2>1 DEF Positioned
  <2>5. Promise!Join(j)
    BY <2>2, <2>3, <2>4, PromiseLists DEF Promise!Join, Promise!Waiting, Listed, StartedIn
  <2> QED BY <2>5 DEF Promise!Next
<1>6. CASE Leaves
  <2>1. PICK j \in Positioned(rows), row \in Row :
          /\ rows' = [rows EXCEPT ![j] = row]
          /\ row.position = NoPosition
          /\ row.started = rows[j].started
    BY <1>6 DEF Leaves
  <2>2. /\ l \in SetToSeqs(ToSet(q) \ {j})
        /\ \A a, b \in ToSet(q) \ {j} : AheadIn(l, a, b) <=> AheadIn(q, a, b)
    BY <1>2, <1>3, <2>1, DroppedList
  <2>3. StartedIn(s) = StartedIn(r) /\ j \in ToSet(q) /\ j \in Jobs
    BY <1>2, <1>3, <2>1 DEF StartedIn, Positioned
  <2>4. Promise!Leave(j)
    BY <2>2, <2>3, PromiseLists
    DEF Promise!Leave, Promise!Drop, Promise!Ahead, Promise!Waiting, AheadIn, Listed, StartedIn
  <2> QED BY <2>3, <2>4 DEF Promise!Next
<1>7. CASE Starts
  <2>1. PICK j \in Positioned(rows), row \in Row :
          /\ rows' = [rows EXCEPT ![j] = row]
          /\ row.position = NoPosition
          /\ ~rows[j].started /\ row.started
    BY <1>7 DEF Starts
  <2>2. /\ l \in SetToSeqs(ToSet(q) \ {j})
        /\ \A a, b \in ToSet(q) \ {j} : AheadIn(l, a, b) <=> AheadIn(q, a, b)
    BY <1>2, <1>3, <2>1, DroppedList
  <2>3. /\ StartedIn(s) = StartedIn(r) \cup {j} /\ j \notin StartedIn(r)
        /\ j \in ToSet(q) /\ j \in Jobs
    BY <1>2, <1>3, <2>1 DEF StartedIn, Positioned
  <2>4. Promise!Start(j)
    BY <2>2, <2>3, PromiseLists
    DEF Promise!Start, Promise!Drop, Promise!Ahead, Promise!Waiting, AheadIn, Listed, StartedIn
  <2> QED BY <2>3, <2>4 DEF Promise!Next
<1>8. CASE Numbering
  <2>1. l \in SetToSeqs(ToSet(q))
    <3>1. ToSet(l) = ToSet(q)
      BY <1>2, <1>3, <1>8, ListedIs DEF Numbering, Positioned
    <3>2. l \in SetToSeqs(ToSet(l))
      BY <1>2, ListedIs, ListIsOrder
    <3> QED BY <3>1, <3>2
  <2>2. StartedIn(s) = StartedIn(r)
    BY <1>8 DEF Numbering, StartedIn
  <2>3. Promise!Rearrange
    BY <2>1, <2>2, PromiseLists DEF Promise!Rearrange, Promise!Waiting, Listed, StartedIn
  <2> QED BY <2>3 DEF Promise!Next
<1> QED BY <1>4, <1>5, <1>6, <1>7, <1>8, StepsOfTable

(* Served one at a time, and cut off anywhere, the requests implement the  *)
(* list of jobs that PrintQueue promises: positions, gaps, transactions    *)
(* and renumberings cannot be seen in it.                                  *)
THEOREM SerialImplementsPrintQueue ==
  ASSUME OneWorker
  PROVE  Spec => ImplementsPrintQueue
<1>1. SInv /\ [Next]_vars => SInv'
  BY SerialStep
<1>2. SInv /\ [Next]_vars => [Promise!Next]_(Promise!vars)
  BY PromiseStep
<1> QED BY SerialInit, PromiseInit, <1>1, <1>2, PTL
        DEF Spec, ImplementsPrintQueue, Promise!Spec
=============================================================================
