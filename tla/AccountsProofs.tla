---------------------------- MODULE AccountsProofs ----------------------------
(***************************************************************************)
(* Theorems about Accounts, for any number of workers, users, names and    *)
(* edits, and any limit and window.                                        *)
(***************************************************************************)
EXTENDS Accounts, SetLemmas

(* The attempts that were let in and are going to be put on record.        *)
Counted == {w \in Workers : attempt[w].at = "append" /\ ~attempt[w].orphan}

LimitType == hits \in Seq(Ages) /\ attempt \in [Workers -> Attempt]

(* On record and on the way together, the attempts stay within the limit   *)
(* and the other threads.                                                  *)
LimitInv == /\ LimitType
            /\ Len(hits) + Cardinality(Counted) <= MaxAttempts - 1 + Cardinality(Workers)

-----------------------------------------------------------------------------
(* Zero is an age, and growing older ends beyond the window.               *)
LEMMA AgesType == 0 \in Ages /\ \A age \in Ages : Older(age) \in Ages
BY LimitAssumption DEF Ages, Older

(* A statement of check leaves an attempt an attempt.                      *)
LEMMA AtType ==
  ASSUME LimitType, NEW w \in Workers, NEW label,
         NEW next \in Checking \cup {"append"}, At(w, label, next)
  PROVE  /\ attempt' \in [Workers -> Attempt]
         /\ attempt'[w].at = next /\ \A x \in Workers : x # w => attempt'[x] = attempt[x]
<1>1. attempt \in [Workers -> Attempt] /\ attempt' = [attempt EXCEPT ![w].at = next]
  BY DEF At, LimitType
<1>2. /\ attempt[w] \in Attempt
      /\ [attempt[w] EXCEPT !.at = next] \in Attempt
      /\ [attempt[w] EXCEPT !.at = next].at = next
  BY <1>1 DEF Attempt
<1> QED
  BY <1>1, <1>2

(* There are no more counted attempts than workers.                        *)
LEMMA CountedFinite ==
  /\ IsFiniteSet(Counted) /\ Cardinality(Counted) \in Nat
  /\ Cardinality(Workers) \in Nat /\ Cardinality(Workers) > 0
  /\ Cardinality(Counted) <= Cardinality(Workers)
BY WorkersAssumption, FS_Subset, FS_CardinalityType, FS_EmptySet DEF Counted

(* Fewer counted attempts, or the same, and no new one on record.          *)
LEMMA CountedShrinks ==
  ASSUME LimitInv, LimitType', Counted' \subseteq Counted, Len(hits') <= Len(hits)
  PROVE  LimitInv'
<1>1. Cardinality(Counted') \in Nat /\ Cardinality(Counted') <= Cardinality(Counted)
  BY CountedFinite, FS_Subset, FS_CardinalityType
<1>2. Len(hits) \in Nat /\ Len(hits') \in Nat
  BY DEF LimitInv, LimitType
<1> QED
  BY <1>1, <1>2, CountedFinite, LimitAssumption DEF LimitInv

(* A step leaves the limiter with its type.                                *)
LEMMA LimitTypeStep ==
  ASSUME LimitType, [Next]_vars
  PROVE  LimitType'
<1> USE DEF LimitType
<1>1. ASSUME NEW w \in Workers, NEW name \in Names, Attempts(w, name) PROVE LimitType'
  <2>1. [at |-> "loop", name |-> name, age |-> 0, orphan |-> FALSE] \in Attempt
    BY AgesType DEF Attempt, Checking
  <2> QED
    BY <1>1, <2>1 DEF Attempts
<1>2. ASSUME NEW w \in Workers, Loop(w) \/ LookAtOldest(w) \/ PopLeft(w) \/ Admit(w)
      PROVE  LimitType'
  <2>1. PICK label, next \in Checking \cup {"append"} : At(w, label, next)
    BY <1>2 DEF Loop, LookAtOldest, PopLeft, Admit, Checking
  <2>2. hits' = hits \/ (hits # <<>> /\ hits' = Tail(hits))
    BY <1>2 DEF Loop, LookAtOldest, PopLeft, Admit
  <2>3. hits' \in Seq(Ages)
    BY <2>2
  <2> QED
    BY <2>1, <2>3, AtType
<1>3. ASSUME NEW w \in Workers, Record(w) PROVE LimitType'
  <2>1. attempt[w].age \in Ages /\ [attempt[w] EXCEPT !.at = "authenticate"] \in Attempt
    BY DEF Attempt
  <2>2. hits' \in Seq(Ages)
    BY <1>3, <2>1 DEF Record
  <2> QED
    BY <1>3, <2>1, <2>2 DEF Record
<1>4. ASSUME NEW w \in Workers, Authenticate(w) PROVE LimitType'
  <2>1. [attempt[w] EXCEPT !.at = "signIn"] \in Attempt
    BY DEF Attempt
  <2> QED
    BY <1>4, <2>1 DEF Authenticate
<1>5. NoAttempt \in Attempt
  BY NamesAssumption, AgesType DEF NoAttempt, Attempt
<1>6. ASSUME NEW w \in Workers, Unauthorized(w) PROVE LimitType'
  BY <1>5, <1>6 DEF Unauthorized
<1>7. ASSUME NEW w \in Workers, SignIn(w) PROVE LimitType'
  <2>1. \A x \in Workers : [attempt[x] EXCEPT !.orphan = TRUE] \in Attempt
    BY DEF Attempt
  <2> QED
    BY <1>5, <1>7, <2>1 DEF SignIn
<1>8. ASSUME Tick PROVE LimitType'
  <2>1. \A w \in Workers : [attempt[w] EXCEPT !.age = Older(@)] \in Attempt
    BY AgesType DEF Attempt
  <2>2. hits' \in Seq(Ages)
    BY <1>8, AgesType DEF Tick
  <2> QED
    BY <1>8, <2>1, <2>2 DEF Tick
<1>9. ASSUME Crash PROVE LimitType'
  BY <1>5, <1>9 DEF Crash
<1>10. ASSUME NEW w \in Workers, Abort(w) PROVE LimitType'
  BY <1>5, <1>10 DEF Abort
<1>11. CASE UNCHANGED <<hits, attempt>>
  BY <1>11
<1>12. ASSUME NEW w \in Workers, IndexError(w) \/ Refuse(w) PROVE LimitType'
  BY <1>5, <1>12 DEF IndexError, Refuse
<1>13. ASSUME NEW w \in Workers, Detached(w) PROVE LimitType'
  <2>1. [attempt[w] EXCEPT !.at = "append"] \in Attempt
    BY DEF Attempt
  <2> QED
    BY <1>5, <1>13, <2>1 DEF Detached
<1> QED
  BY <1>1, <1>2, <1>3, <1>4, <1>6, <1>7, <1>8, <1>9, <1>10, <1>11, <1>12, <1>13
  DEF Next, Serve, CreateUser, EditUser, Insert, InsertFails, EditCommit, Boot, vars

(* A step keeps the count.                                                 *)
LEMMA LimitStep ==
  ASSUME LimitInv, [Next]_vars
  PROVE  LimitInv'
<1>1. LimitType'
  BY LimitTypeStep DEF LimitInv
<1>2. Len(hits) \in Nat /\ Len(hits') \in Nat
  BY <1>1 DEF LimitInv, LimitType
<1>3. ASSUME NEW w \in Workers, Admit(w) PROVE LimitInv'
  <2>1. Len(hits') <= MaxAttempts - 1
    BY <1>2, <1>3, LimitAssumption DEF Admit, Full
  <2>2. Cardinality(Counted') \in Nat /\ Cardinality(Counted') <= Cardinality(Workers)
    BY WorkersAssumption, FS_Subset, FS_CardinalityType DEF Counted
  <2> QED
    BY <1>1, <1>2, <2>1, <2>2, CountedFinite, LimitAssumption DEF LimitInv
<1>4. ASSUME NEW w \in Workers, NEW label, NEW next \in Checking, At(w, label, next),
             hits' = hits \/ (hits # <<>> /\ hits' = Tail(hits))
      PROVE  LimitInv'
  <2>1. /\ attempt'[w].at = next /\ next # "append"
        /\ \A x \in Workers : x # w => attempt'[x] = attempt[x]
    BY <1>4, AtType DEF LimitInv, Checking
  <2>2. Counted' \subseteq Counted
    BY <2>1 DEF Counted
  <2>3. Len(hits') <= Len(hits)
    BY <1>2, <1>4 DEF LimitInv, LimitType
  <2> QED
    BY <1>1, <2>2, <2>3, CountedShrinks
<1>11. ASSUME NEW w \in Workers, Loop(w) \/ LookAtOldest(w) \/ PopLeft(w) PROVE LimitInv'
  <2>1. \E label : \E next \in Checking : At(w, label, next)
    BY <1>11 DEF Loop, LookAtOldest, PopLeft, Checking
  <2>2. hits' = hits \/ (hits # <<>> /\ hits' = Tail(hits))
    BY <1>11 DEF Loop, LookAtOldest, PopLeft
  <2> QED
    BY <1>4, <2>1, <2>2
<1>12. ASSUME NEW w \in Workers, hits' = hits,
              \A x \in Workers : x # w => attempt'[x] = attempt[x],
              attempt'[w].at # "append" \/ attempt'[w].orphan
       PROVE  LimitInv'
  <2>1. Counted' \subseteq Counted
    BY <1>12 DEF Counted
  <2> QED
    BY <1>1, <1>2, <1>12, <2>1, CountedShrinks
<1>13. ASSUME NEW w \in Workers, NEW name \in Names, Attempts(w, name) PROVE LimitInv'
  BY <1>12, <1>13 DEF Attempts, LimitInv, LimitType
<1>14. ASSUME NEW w \in Workers, IndexError(w) \/ Refuse(w) PROVE LimitInv'
  BY <1>12, <1>14 DEF IndexError, Refuse, NoAttempt, LimitInv, LimitType
<1>15. ASSUME NEW w \in Workers, Detached(w) PROVE LimitInv'
  <2>1. /\ attempt[w] \in Attempt /\ attempt[w].orphan /\ hits' = hits
        /\ attempt \in [Workers -> Attempt]
    BY <1>15 DEF Detached, LimitInv, LimitType
  <2>2. PICK outcome \in {NoAttempt, [attempt[w] EXCEPT !.at = "append"]} :
          attempt' = [attempt EXCEPT ![w] = outcome]
    BY <1>15 DEF Detached
  <2>3. outcome.at # "append" \/ outcome.orphan
    BY <2>1, <2>2 DEF NoAttempt, Attempt
  <2>4. attempt'[w] = outcome /\ \A x \in Workers : x # w => attempt'[x] = attempt[x]
    BY <2>1, <2>2
  <2> QED
    BY <1>12, <2>1, <2>3, <2>4
<1>5. ASSUME NEW w \in Workers, Record(w) PROVE LimitInv'
  <2>1. \A x \in Workers : x # w => attempt'[x] = attempt[x]
    BY <1>5 DEF Record, LimitInv, LimitType
  <2>2. attempt[w].at = "append" /\ attempt'[w].at = "authenticate"
    <3>1. attempt[w] \in Attempt /\ attempt'[w] = [attempt[w] EXCEPT !.at = "authenticate"]
      BY <1>5 DEF Record, LimitInv, LimitType
    <3> QED
      BY <1>5, <3>1 DEF Attempt, Record
  <2>3. Counted' = Counted \ {w}
    BY <2>1, <2>2 DEF Counted
  <2>4. CASE attempt[w].orphan
    <3>1. hits' = hits
      BY <1>5, <2>4 DEF Record
    <3> QED
      BY <1>1, <1>2, <2>3, <3>1, CountedShrinks
  <2>5. CASE ~attempt[w].orphan
    <3>1. w \in Counted
      BY <2>2, <2>5 DEF Counted
    <3>2. Cardinality(Counted') = Cardinality(Counted) - 1
      BY <2>3, <3>1, CountedFinite, FS_RemoveElement
    <3>3. Len(hits') = Len(hits) + 1
      BY <1>5, <2>5 DEF Record, LimitInv, LimitType, Attempt
    <3> QED
      BY <1>1, <1>2, <3>2, <3>3, CountedFinite, LimitAssumption DEF LimitInv
  <2> QED
    BY <2>4, <2>5
<1>6. ASSUME NEW w \in Workers, SignIn(w) PROVE LimitInv'
  <2>1. Cardinality(Counted') \in Nat /\ Cardinality(Counted') <= Cardinality(Workers)
    BY WorkersAssumption, FS_Subset, FS_CardinalityType DEF Counted
  <2>2. Len(hits') = 0
    BY <1>6 DEF SignIn
  <2> QED
    BY <1>1, <2>1, <2>2, CountedFinite, LimitAssumption DEF LimitInv
<1>7. ASSUME Tick PROVE LimitInv'
  <2>1. ASSUME NEW w \in Workers, w \in Counted' PROVE w \in Counted
    <3>1. attempt[w] \in Attempt
      BY DEF LimitInv, LimitType
    <3>2. attempt'[w] = IF InCheck(w) THEN [attempt[w] EXCEPT !.age = Older(@)]
                        ELSE attempt[w]
      BY <1>7 DEF Tick
    <3>3. attempt'[w].at = attempt[w].at /\ attempt'[w].orphan = attempt[w].orphan
      BY <3>1, <3>2 DEF Attempt
    <3> QED
      BY <2>1, <3>3 DEF Counted
  <2>2. Counted' \subseteq Counted
    BY <2>1 DEF Counted
  <2>3. Len(hits') = Len(hits)
    BY <1>7 DEF Tick, LimitInv, LimitType
  <2> QED
    BY <1>1, <1>2, <2>2, <2>3, CountedShrinks
<1>8. ASSUME NEW w \in Workers, Authenticate(w) \/ Unauthorized(w) \/ Abort(w)
      PROVE  LimitInv'
  <2>1. \A x \in Workers : x # w => attempt'[x] = attempt[x]
    BY <1>8 DEF Authenticate, Unauthorized, Abort, LimitInv, LimitType
  <2>2. attempt'[w].at \in {"signIn", "none"}
    <3>1. attempt[w] \in Attempt
      BY DEF LimitInv, LimitType
    <3>2. \/ attempt'[w] = [attempt[w] EXCEPT !.at = "signIn"]
          \/ attempt'[w] = NoAttempt
      BY <1>8 DEF Authenticate, Unauthorized, Abort, LimitInv, LimitType
    <3> QED
      BY <3>1, <3>2 DEF Attempt, NoAttempt
  <2>3. Counted' \subseteq Counted
    BY <2>1, <2>2 DEF Counted
  <2>4. hits' = hits
    BY <1>8 DEF Authenticate, Unauthorized, Abort
  <2> QED
    BY <1>1, <1>2, <2>3, <2>4, CountedShrinks
<1>9. ASSUME Crash PROVE LimitInv'
  <2>1. Counted' = {} /\ Len(hits') = 0
    BY <1>9 DEF Crash, Counted, NoAttempt
  <2> QED
    BY <1>1, <1>2, <2>1, CountedShrinks
<1>10. CASE UNCHANGED <<hits, attempt>>
  <2>1. Counted' = Counted /\ hits' = hits
    BY <1>10 DEF Counted
  <2> QED
    BY <1>1, <1>2, <2>1, CountedShrinks
<1> QED
  BY <1>3, <1>5, <1>6, <1>7, <1>8, <1>9, <1>10, <1>11, <1>13, <1>14, <1>15
  DEF Next, Serve, CreateUser, EditUser, Insert, InsertFails, EditCommit, Boot, vars

(* Whatever threads interleave, sign in, die or are restarted, no more     *)
(* attempts are on record than the limit and the other threads allow.      *)
THEOREM LimitHolds == Spec => []AttemptsAreBounded
<1>1. Init => LimitInv
  <2> SUFFICES ASSUME Init PROVE LimitInv
    OBVIOUS
  <2>1. LimitType
    BY NamesAssumption, AgesType DEF Init, LimitType, NoAttempt, Attempt
  <2>2. Counted = {} /\ Len(hits) = 0
    BY DEF Init, Counted, NoAttempt
  <2> QED
    BY <2>1, <2>2, CountedFinite, FS_EmptySet, LimitAssumption DEF LimitInv
<1>2. LimitInv /\ [Next]_vars => LimitInv'
  BY LimitStep
<1>3. LimitInv => AttemptsAreBounded
  <2> SUFFICES ASSUME LimitInv PROVE AttemptsAreBounded
    OBVIOUS
  <2>1. Len(hits) \in Nat
    BY DEF LimitInv, LimitType
  <2> QED
    BY <2>1, CountedFinite, LimitAssumption DEF LimitInv, AttemptsAreBounded
<1> QED
  BY <1>1, <1>2, <1>3, PTL DEF Spec

-----------------------------------------------------------------------------
(* The table.  An edit on its way is one of a row that is there: no route  *)
(* deletes a user.                                                         *)
TableType == /\ up \in BOOLEAN
             /\ users \in [Ids -> Row \cup {NoRow}]
             /\ request \in [Workers -> Inserting \cup Editing \cup {NoRequest}]

EditsHaveTheirRow ==
  \A w \in Workers : request[w].at = "commit" => request[w].user \in Present

TableInv == TableType /\ EditsHaveTheirRow

(* What a request is told by its phase.                                    *)
LEMMA RequestType ==
  ASSUME TableType, NEW w \in Workers
  PROVE  /\ request[w].at = "insert" => request[w].row \in Row
         /\ request[w].at = "commit" =>
              /\ request[w].user \in Ids
              /\ request[w].loaded \in Row /\ request[w].change \in Change
BY DEF TableType, Inserting, Editing, NoRequest

(* An UPDATE keeps the row a row, and its name.                            *)
LEMMA WrittenType ==
  ASSUME NEW row \in Row, NEW loaded \in Row, NEW change \in Change
  PROVE  Written(row, loaded, change) \in Row /\ Written(row, loaded, change).name = row.name
<1>1. Assigned(loaded, change) \in Row
  BY DEF Assigned, Row, Change
<1> QED
  BY <1>1 DEF Written, Row

(* A user added leaves those that are there.                               *)
LEMMA AddUser ==
  ASSUME TableInv, NEW u \in Ids \ Present, NEW row \in Row,
         users' = [users EXCEPT ![u] = row]
  PROVE  /\ users' \in [Ids -> Row \cup {NoRow}]
         /\ Present \subseteq Present'
<1>1. users' \in [Ids -> Row \cup {NoRow}]
  BY DEF TableInv, TableType
<1>2. users'[u] = row /\ \A v \in Ids : v # u => users'[v] = users[v]
  BY DEF TableInv, TableType
<1>3. Present \subseteq Present'
  BY <1>2 DEF Present
<1> QED
  BY <1>1, <1>3

(* A step keeps the table.                                                 *)
LEMMA TableStep ==
  ASSUME TableInv, [Next]_vars
  PROVE  TableInv'
<1> USE DEF TableInv
<1>1. ASSUME NEW w \in Workers, NEW name \in Names, NEW role \in {"ADMIN", "USER"},
             CreateUser(w, name, role)
      PROVE  TableInv'
  <2> DEFINE r == [at |-> "insert", row |-> [name |-> name, role |-> role, active |-> "on"]]
  <2>1. r \in Inserting /\ r.at = "insert"
    BY DEF Inserting, Row
  <2>2. request' = [request EXCEPT ![w] = r] /\ UNCHANGED <<up, users>>
    BY <1>1 DEF CreateUser
  <2> HIDE DEF r
  <2>3. TableType'
    BY <2>1, <2>2 DEF TableType
  <2>4. EditsHaveTheirRow'
    BY <2>1, <2>2 DEF EditsHaveTheirRow, Present, TableType
  <2> QED
    BY <2>3, <2>4
<1>2. ASSUME NEW w \in Workers, NEW u \in Ids, NEW change \in Changes, EditUser(w, u, change)
      PROVE  TableInv'
  <2> DEFINE r == [at |-> "commit", user |-> u, loaded |-> users[u], change |-> change]
  <2>1. users[u] \in Row /\ u \in Present
    BY <1>2 DEF EditUser, Present, TableType
  <2>2. r \in Editing /\ r.user = u
    BY <2>1, ChangesAssumption DEF Editing
  <2>3. request' = [request EXCEPT ![w] = r] /\ UNCHANGED <<up, users>>
    BY <1>2 DEF EditUser
  <2> HIDE DEF r
  <2>4. TableType'
    BY <2>2, <2>3 DEF TableType
  <2>5. EditsHaveTheirRow'
    BY <2>1, <2>2, <2>3 DEF EditsHaveTheirRow, Present, TableType
  <2> QED
    BY <2>4, <2>5
<1>3. ASSUME NEW w \in Workers, Insert(w) PROVE TableInv'
  <2>1. request[w].row \in Row
    BY <1>3, RequestType DEF Insert
  <2>2. PICK u \in Ids \ Present : users' = [users EXCEPT ![u] = request[w].row]
    BY <1>3 DEF Insert
  <2>3. /\ users' \in [Ids -> Row \cup {NoRow}]
        /\ Present \subseteq Present'
    BY <2>1, <2>2, AddUser
  <2>4. request' = [request EXCEPT ![w] = NoRequest] /\ up' = up
    BY <1>3 DEF Insert, Rests
  <2>5. TableType'
    BY <2>3, <2>4 DEF TableType
  <2>6. EditsHaveTheirRow'
    BY <2>3, <2>4 DEF EditsHaveTheirRow, TableType, NoRequest
  <2> QED
    BY <2>3, <2>5, <2>6
<1>4. ASSUME NEW w \in Workers, EditCommit(w) PROVE TableInv'
  <2> DEFINE u == request[w].user
             row == Written(users[u], request[w].loaded, request[w].change)
  <2>1. u \in Present /\ u \in Ids /\ users[u] \in Row
    BY <1>4, RequestType DEF EditCommit, EditsHaveTheirRow, TableType, Present
  <2>2. row \in Row /\ row.name = users[u].name
    BY <1>4, <2>1, RequestType, WrittenType DEF EditCommit
  <2>3. /\ users' = [users EXCEPT ![u] = row] /\ up' = up
        /\ request' = [request EXCEPT ![w] = NoRequest]
    BY <1>4 DEF EditCommit, Rests
  <2> HIDE DEF row, u
  <2>4. TableType'
    BY <2>1, <2>2, <2>3 DEF TableType
  <2>5. users'[u] = row /\ \A v \in Ids : v # u => users'[v] = users[v]
    BY <2>1, <2>3 DEF TableType
  <2>6. Present' = Present
    BY <2>1, <2>2, <2>5, NoRowAssumption DEF Present
  <2>7. EditsHaveTheirRow'
    BY <2>3, <2>6 DEF EditsHaveTheirRow, TableType, NoRequest
  <2> QED
    BY <2>4, <2>7
<1>5. ASSUME NEW w \in Workers, InsertFails(w) \/ Abort(w) PROVE TableInv'
  <2>1. request' = [request EXCEPT ![w] = NoRequest] /\ UNCHANGED <<up, users>>
    BY <1>5 DEF InsertFails, Abort, Rests
  <2> QED
    BY <2>1 DEF TableType, EditsHaveTheirRow, Present, NoRequest
<1>6. ASSUME Crash PROVE TableInv'
  BY <1>6 DEF Crash, TableType, EditsHaveTheirRow, Present, NoRequest
<1>7. ASSUME Boot PROVE TableInv'
  <2> DEFINE admin == [name |-> AdminName, role |-> "ADMIN", active |-> "on"]
  <2>1. admin \in Row
    BY NamesAssumption DEF Row
  <2>2. CASE Present = {}
    <3>1. PICK u \in Ids : users' = [users EXCEPT ![u] = admin]
      BY <1>7, <2>2 DEF Boot
    <3>2. u \in Ids \ Present
      BY <2>2
    <3> HIDE DEF admin
    <3>3. users' \in [Ids -> Row \cup {NoRow}] /\ Present \subseteq Present'
      BY <2>1, <3>1, <3>2, AddUser
    <3> QED
      BY <1>7, <3>3 DEF Boot, TableType, EditsHaveTheirRow
  <2>3. CASE Present # {}
    <3>1. UNCHANGED <<users, request>> /\ up' = TRUE
      BY <1>7, <2>3 DEF Boot
    <3> QED
      BY <3>1 DEF TableType, EditsHaveTheirRow, Present
  <2> QED
    BY <2>2, <2>3
<1>8. CASE UNCHANGED <<up, users, request>>
  BY <1>8 DEF TableType, EditsHaveTheirRow, Present
<1> QED
  BY <1>1, <1>2, <1>3, <1>4, <1>5, <1>6, <1>7, <1>8
  DEF Next, Serve, Attempts, At, Loop, LookAtOldest, PopLeft, IndexError, Admit, Refuse, Detached,
      Record, Authenticate, Unauthorized, SignIn, Tick, vars

(* The table starts empty.                                                 *)
LEMMA TableInit == Init => TableInv
<1> SUFFICES ASSUME Init PROVE TableInv
  OBVIOUS
<1>2. TableType
  BY DEF Init, TableType
<1>3. EditsHaveTheirRow
  <2>1. \A w \in Workers : request[w].at = "none"
    BY DEF Init, NoRequest
  <2> QED
    BY <2>1 DEF EditsHaveTheirRow
<1> QED
  BY <1>2, <1>3 DEF TableInv

(* Every variable has its type, for any number of workers and users.       *)
THEOREM TypeCorrectness == Spec => []TypeOK
<1>1. Init => TableInv /\ LimitType
  <2>1. Init => LimitType
    BY NamesAssumption, AgesType DEF Init, LimitType, NoAttempt, Attempt
  <2> QED
    BY <2>1, TableInit
<1>2. TableInv /\ LimitType /\ [Next]_vars => TableInv' /\ LimitType'
  BY TableStep, LimitTypeStep
<1>3. TableInv /\ LimitType => TypeOK
  BY DEF TableInv, TableType, LimitType, TypeOK
<1> QED
  BY <1>1, <1>2, <1>3, PTL DEF Spec

(* A field that an UPDATE changes is one that the request names, and gets  *)
(* the value it asks for.                                                  *)
LEMMA WrittenAsAsked ==
  ASSUME NEW row \in Row, NEW loaded \in Row, NEW change \in Change,
         NEW f \in {"role", "active"}, Written(row, loaded, change)[f] # row[f]
  PROVE  Written(row, loaded, change)[f] = change[f]
<1>1. CASE f = "role"
  BY <1>1 DEF Written, Assigned, Row, Change
<1>2. CASE f = "active"
  BY <1>2 DEF Written, Assigned, Row, Change
<1> QED
  BY <1>1, <1>2

(* However long ago a request loaded its user, what it commits changes     *)
(* only the fields it asks for.                                            *)
THEOREM EditsKeepToTheRequest == Spec => EditsChangeWhatTheyAskFor
<1> DEFINE Asked == \A u \in Present : \A f \in {"role", "active"} :
                      users'[u][f] # users[u][f] =>
                        \E w \in Workers : /\ request[w].at = "commit"
                                           /\ request[w].user = u
                                           /\ request[w].change[f] = users'[u][f]
<1>1. TableInv /\ [Next]_vars => [Asked]_vars
  <2> SUFFICES ASSUME TableInv, [Next]_vars,
                      NEW u \in Present, NEW f \in {"role", "active"},
                      users'[u][f] # users[u][f]
               PROVE  \E w \in Workers : /\ request[w].at = "commit"
                                         /\ request[w].user = u
                                         /\ request[w].change[f] = users'[u][f]
    OBVIOUS
  <2>1. u \in Ids /\ users[u] \in Row /\ users \in [Ids -> Row \cup {NoRow}]
    BY DEF TableInv, TableType, Present
  <2>2. ~ UNCHANGED users
    OBVIOUS
  <2>3. ASSUME NEW w \in Workers, Insert(w) PROVE FALSE
    BY <2>1, <2>3 DEF Insert
  <2>4. ASSUME Boot PROVE FALSE
    BY <2>2, <2>4 DEF Boot
  <2>5. PICK w \in Workers : EditCommit(w)
    BY <2>2, <2>3, <2>4
    DEF Next, Serve, CreateUser, EditUser, Insert, InsertFails, Attempts, At, Loop,
        LookAtOldest, PopLeft, IndexError, Admit, Refuse, Detached, Record,
        Authenticate, Unauthorized, SignIn, Abort, Tick, Crash, vars
  <2> DEFINE v == request[w].user
             row == Written(users[v], request[w].loaded, request[w].change)
  <2>6. request[w].at = "commit" /\ users' = [users EXCEPT ![v] = row]
    BY <2>5 DEF EditCommit
  <2>7. v \in Ids /\ request[w].loaded \in Row /\ request[w].change \in Change
    BY <2>6, RequestType DEF TableInv
  <2>8. v = u /\ users'[u] = row
    BY <2>1, <2>6, <2>7
  <2>9. row[f] = request[w].change[f]
    BY <2>1, <2>7, <2>8, WrittenAsAsked
  <2> QED
    BY <2>6, <2>8, <2>9
<1>2. TableInv /\ [Next]_vars => TableInv'
  BY TableStep
<1> QED
  BY TableInit, <1>1, <1>2, PTL DEF Spec, EditsChangeWhatTheyAskFor
=============================================================================
