------------------------------- MODULE Accounts -------------------------------
(***************************************************************************)
(* The table of users, edited by administrators, and the limiter of login  *)
(* attempts, which lives in the memory of the backend.  A request loads    *)
(* what it checks and writes later; no lock guards a row or the limiter.   *)
(*                                                                         *)
(* The limiter is modelled for one client key.  Time passes in ticks: an   *)
(* attempt is known by its age, and ages beyond the window are alike.      *)
(***************************************************************************)
EXTENDS Naturals, Sequences, FiniteSets

CONSTANTS Workers,      \* the threads that serve requests
          Ids,          \* bound: primary keys of users
          Names,        \* the usernames that are tried
          AdminName,    \* "admin"
          NoRow,        \* a primary key not in use
          Changes,      \* what an edit may ask for
          MaxAttempts,  \* max_attempts of the limiter
          Window        \* window_seconds, in ticks

ASSUME WorkersAssumption == IsFiniteSet(Workers) /\ Workers # {}
ASSUME NamesAssumption == AdminName \in Names
ASSUME LimitAssumption == MaxAttempts \in Nat \ {0} /\ Window \in Nat

VARIABLES up,       \* whether the backend serves
          users,    \* the committed table users
          request,  \* per worker, the administrator's request it serves
          hits,     \* the deque of the limiter, as ages
          attempt   \* per worker, the login it serves

vars == <<up, users, request, hits, attempt>>

-----------------------------------------------------------------------------

Row == [name: Names, role: {"ADMIN", "USER"}, active: {"on", "off"}]

\* A field that the payload leaves out is kept.
Change == [role: {"ADMIN", "USER", "keep"}, active: {"on", "off", "keep"}]

ASSUME ChangesAssumption == Changes \subseteq Change
ASSUME NoRowAssumption == NoRow \notin Row

Inserting == [at: {"insert"}, row: Row]

Editing == [at: {"commit"}, user: Ids, loaded: Row, change: Change]

NoRequest == [at |-> "none"]

Ages == 0..(Window + 1)

\* The statements of check that read or pop the deque.
Checking == {"loop", "oldest", "popleft", "count"}

\* age: since check read the clock.  orphan: its deque has been dropped.
Attempt == [at: Checking \cup {"none", "append", "authenticate", "signIn"}, name: Names,
            age: Ages, orphan: BOOLEAN]

NoAttempt == [at |-> "none", name |-> AdminName, age |-> 0, orphan |-> FALSE]

Rests(w) == request' = [request EXCEPT ![w] = NoRequest]

Init == /\ up = FALSE
        /\ users = [u \in Ids |-> NoRow]
        /\ request = [w \in Workers |-> NoRequest]
        /\ hits = <<>>
        /\ attempt = [w \in Workers |-> NoAttempt]

Idle(w) == up /\ request[w] = NoRequest /\ attempt[w].at = "none"

-----------------------------------------------------------------------------
(* The table of users.                                                     *)

Present == {u \in Ids : users[u] # NoRow}

Taken(name) == \E u \in Present : users[u].name = name

\* require_admin: the row is read for every request.
IsAdmin(a) == a \in Present /\ users[a].active = "on" /\ users[a].role = "ADMIN"

CreateUser(w, name, role) ==
  /\ Idle(w)
  /\ \E a \in Ids : IsAdmin(a)
  /\ ~Taken(name)
  /\ request' = [request EXCEPT ![w] =
       [at |-> "insert", row |-> [name |-> name, role |-> role, active |-> "on"]]]
  /\ UNCHANGED <<up, users, hits, attempt>>

\* The unique index on username lets the flush through, whoever looked first ...
Insert(w) ==
  /\ request[w].at = "insert"
  /\ ~Taken(request[w].row.name)
  /\ \E u \in Ids \ Present : users' = [users EXCEPT ![u] = request[w].row]
  /\ Rests(w)
  /\ UNCHANGED <<up, hits, attempt>>

\* ... or raises, when another request was faster.
InsertFails(w) ==
  /\ request[w].at = "insert"
  /\ Taken(request[w].row.name)
  /\ Rests(w)
  /\ UNCHANGED <<up, users, hits, attempt>>

\* update_user, set_user_active.
EditUser(w, u, change) ==
  /\ Idle(w)
  /\ \E a \in Ids : IsAdmin(a)
  /\ u \in Present
  /\ request' = [request EXCEPT ![w] =
       [at |-> "commit", user |-> u, loaded |-> users[u], change |-> change]]
  /\ UNCHANGED <<up, users, hits, attempt>>

Assigned(loaded, change) ==
  [loaded EXCEPT !.role   = IF change.role = "keep" THEN @ ELSE change.role,
                 !.active = IF change.active = "keep" THEN @ ELSE change.active]

\* Mutant: fields that were left out are assigned too.
WrittenUnset(row, loaded, change) ==
  [row EXCEPT !.role = change.role, !.active = change.active]

\* Mutant: the object is written as a whole.
WrittenWhole(row, loaded, change) == Assigned(loaded, change)

\* An UPDATE names the columns that differ from what was loaded.
Written(row, loaded, change) ==
  LET new == Assigned(loaded, change) IN
  [row EXCEPT !.role   = IF new.role = loaded.role THEN @ ELSE new.role,
              !.active = IF new.active = loaded.active THEN @ ELSE new.active]

EditCommit(w) ==
  /\ request[w].at = "commit"
  /\ users' = [users EXCEPT ![request[w].user] =
                 Written(@, request[w].loaded, request[w].change)]
  /\ Rests(w)
  /\ UNCHANGED <<up, hits, attempt>>

-----------------------------------------------------------------------------
(* The login.                                                              *)

\* check has read the clock and has the deque in hand.
Attempts(w, name) ==
  /\ Idle(w)
  /\ attempt' = [attempt EXCEPT ![w] =
       [at |-> "loop", name |-> name, age |-> 0, orphan |-> FALSE]]
  /\ UNCHANGED <<up, users, request, hits>>

\* The next statement of an attempt whose deque is still that of the key.
At(w, label, next) ==
  /\ attempt[w].at = label /\ ~attempt[w].orphan
  /\ attempt' = [attempt EXCEPT ![w].at = next]
  /\ UNCHANGED <<up, users, request>>

\* "while hits" ...
Loop(w) == /\ At(w, "loop", IF hits = <<>> THEN "count" ELSE "oldest")
           /\ UNCHANGED hits

\* What now - hits[0] > window_seconds may say: by its own clock an attempt sees
\* a hit as younger than it is, and ages beyond the window are not told apart.
Outdated(hit, age) ==
  IF hit <= Window THEN {FALSE} ELSE IF age = 0 THEN {TRUE} ELSE BOOLEAN

\* ... "and now - hits[0] > window_seconds":
LookAtOldest(w) ==
  /\ hits # <<>>
  /\ \E old \in Outdated(hits[1], attempt[w].age) :
       At(w, "oldest", IF old THEN "popleft" ELSE "count")
  /\ UNCHANGED hits

\* the oldest is dropped, which need not be the one that was looked at.
PopLeft(w) == /\ hits # <<>>
              /\ At(w, "popleft", "loop")
              /\ hits' = Tail(hits)

\* Another thread has dropped the last one meanwhile.
IndexError(w) == /\ attempt[w].at \in {"oldest", "popleft"} /\ ~attempt[w].orphan
                 /\ hits = <<>>
                 /\ attempt' = [attempt EXCEPT ![w] = NoAttempt]
                 /\ UNCHANGED <<up, users, request, hits>>

\* Mutant: one attempt too many.
FullLate(h) == Len(h) > MaxAttempts

Full(h) == Len(h) >= MaxAttempts

\* The attempt is let in, but not yet on record.
Admit(w) == /\ ~Full(hits)
            /\ At(w, "count", "append")
            /\ UNCHANGED hits

\* Mutant: attempts that were refused count as well.
RefuseAndCount(w) ==
  /\ attempt[w].at = "count" /\ ~attempt[w].orphan
  /\ Full(hits)
  /\ hits' = Append(Tail(hits), attempt[w].age)
  /\ attempt' = [attempt EXCEPT ![w] = NoAttempt]
  /\ UNCHANGED <<up, users, request>>

\* 429.
Refuse(w) ==
  /\ attempt[w].at = "count" /\ ~attempt[w].orphan
  /\ Full(hits)
  /\ attempt' = [attempt EXCEPT ![w] = NoAttempt]
  /\ UNCHANGED <<up, users, request, hits>>

\* A deque that was dropped is not followed any further: the attempts that have
\* it in hand may find it full, or not, or empty under their hands.
Detached(w) ==
  /\ attempt[w].at \in Checking /\ attempt[w].orphan
  /\ \E outcome \in {NoAttempt, [attempt[w] EXCEPT !.at = "append"]} :
       attempt' = [attempt EXCEPT ![w] = outcome]
  /\ UNCHANGED <<up, users, request, hits>>

\* If the deque was dropped by a reset, nobody counts this one.
Record(w) ==
  /\ attempt[w].at = "append"
  /\ hits' = IF attempt[w].orphan THEN hits ELSE Append(hits, attempt[w].age)
  /\ attempt' = [attempt EXCEPT ![w].at = "authenticate"]
  /\ UNCHANGED <<up, users, request>>

CanSignIn(name) == \E u \in Present : users[u].name = name /\ users[u].active = "on"

\* authenticate_user: the password may be right ...
Authenticate(w) ==
  /\ attempt[w].at = "authenticate"
  /\ CanSignIn(attempt[w].name)
  /\ attempt' = [attempt EXCEPT ![w].at = "signIn"]
  /\ UNCHANGED <<up, users, request, hits>>

\* ... or not.
Unauthorized(w) ==
  /\ attempt[w].at = "authenticate"
  /\ attempt' = [attempt EXCEPT ![w] = NoAttempt]
  /\ UNCHANGED <<up, users, request, hits>>

\* An attempt inside check.
InCheck(x) == attempt[x].at \in Checking \cup {"append"}

\* The commit of last_login_at, then reset, which drops the deque of the key.
SignIn(w) ==
  /\ attempt[w].at = "signIn"
  /\ hits' = <<>>
  /\ attempt' = [x \in Workers |->
       IF x = w THEN NoAttempt
       ELSE IF InCheck(x) THEN [attempt[x] EXCEPT !.orphan = TRUE]
       ELSE attempt[x]]
  /\ UNCHANGED <<up, users, request>>

Older(age) == IF age > Window THEN age ELSE age + 1

Tick == /\ hits' = [k \in DOMAIN hits |-> Older(hits[k])]
        /\ attempt' = [w \in Workers |->
             IF InCheck(w) THEN [attempt[w] EXCEPT !.age = Older(@)]
             ELSE attempt[w]]
        /\ UNCHANGED <<up, users, request>>

-----------------------------------------------------------------------------

\* lifespan: the first administrator, if there is no user at all.
Boot == /\ ~up
        /\ up' = TRUE
        /\ IF Present = {}
           THEN \E u \in Ids : users' = [users EXCEPT ![u] =
                  [name |-> AdminName, role |-> "ADMIN", active |-> "on"]]
           ELSE UNCHANGED users
        /\ UNCHANGED <<request, hits, attempt>>

\* The process ends; what it had not committed and what it had counted is gone.
Crash == /\ up
         /\ up' = FALSE
         /\ request' = [w \in Workers |-> NoRequest]
         /\ hits' = <<>>
         /\ attempt' = [w \in Workers |-> NoAttempt]
         /\ UNCHANGED users

\* An exception on the way; what the limiter has counted stays.
Abort(w) == /\ request[w] # NoRequest \/ attempt[w].at # "none"
            /\ Rests(w)
            /\ attempt' = [attempt EXCEPT ![w] = NoAttempt]
            /\ UNCHANGED <<up, users, hits>>

Serve(w) == \/ \E name \in Names : \/ Attempts(w, name)
                                   \/ \E role \in {"ADMIN", "USER"} : CreateUser(w, name, role)
            \/ \E u \in Ids, change \in Changes : EditUser(w, u, change)
            \/ Loop(w) \/ LookAtOldest(w) \/ PopLeft(w) \/ IndexError(w)
            \/ Admit(w) \/ Refuse(w) \/ Detached(w)
            \/ Insert(w) \/ InsertFails(w) \/ EditCommit(w)
            \/ Record(w) \/ Authenticate(w) \/ Unauthorized(w) \/ SignIn(w)

Next == \/ \E w \in Workers : Serve(w) \/ Abort(w)
        \/ Tick \/ Boot \/ Crash

Spec == Init /\ [][Next]_vars

\* Time passes.
FairSpec == Spec /\ WF_vars(Tick)

-----------------------------------------------------------------------------
(* Properties.                                                             *)

\* Every variable has its type.
TypeOK == /\ up \in BOOLEAN
          /\ users \in [Ids -> Row \cup {NoRow}]
          /\ request \in [Workers -> Inserting \cup Editing \cup {NoRequest}]
          /\ hits \in Seq(Ages)
          /\ attempt \in [Workers -> Attempt]

\* An edit changes nothing it does not ask for: one that renames a user does not
\* enable an account that another administrator has disabled meanwhile.
EditsChangeWhatTheyAskFor ==
  [][\A u \in Present : \A f \in {"role", "active"} : users'[u][f] # users[u][f] =>
       \E w \in Workers : /\ request[w].at = "commit"
                          /\ request[w].user = u
                          /\ request[w].change[f] = users'[u][f]]_vars

\* Threads that are let in before either is on record may exceed max_attempts,
\* but only by as many as there are other threads: neither resets that drop the
\* deque under an attempt on its way nor purges that run into each other put
\* more on record.  (The attempts on record are counted: those that a purge
\* has dropped too early have been made all the same.)
AttemptsAreBounded == Len(hits) <= MaxAttempts + Cardinality(Workers) - 1

\* The attempts that a purge leaves on record.
Fresh(h) == {k \in DOMAIN h : h[k] <= Window}

Purged(h) == IF Fresh(h) = {} THEN <<>>
             ELSE SubSeq(h, CHOOSE k \in Fresh(h) : \A m \in Fresh(h) : k <= m, Len(h))

\* A client that was told to wait is let in again, however often it retries.
LockoutEnds == Full(Purged(hits)) ~> ~Full(Purged(hits))
=============================================================================
