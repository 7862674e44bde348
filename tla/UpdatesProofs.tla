----------------------------- MODULE UpdatesProofs -----------------------------
(***************************************************************************)
(* Theorems about Updates, for any number of browsers, releases, installs  *)
(* and crashes.                                                            *)
(***************************************************************************)
EXTENDS Updates, SetLemmas

(* A handler on its way has a row that is RUNNING, and one that has not    *)
(* posted yet has no script; an install not asked for has neither.  Exit   *)
(* code zero is that of a script that has run all its commands.            *)
Phases ==
  \A i \in Installs :
    /\ InFlight(i) => row[i].status = "RUNNING"
    /\ handler[i] = "posting" => script[i] = [at |-> "none", reply |-> "none"]
    /\ row[i].status = "NONE" => /\ script[i] = [at |-> "none", reply |-> "none"]
                                 /\ handler[i] = "none"
    /\ handler[i] = "restarted" => script[i].at = "ended"
    /\ row[i].status = "SUCCEEDED" => script[i].reply = "zero"
    /\ script[i].reply = "zero" => script[i].at = "ended"

(* The install has succeeded, whether or not anybody was told.             *)
Settled(i) == script[i].reply = "zero" \/ handler[i] = "restarted"

(* Versions only go up: what runs was built, and what was built when an    *)
(* install was asked for is still there; if it succeeded, it runs.         *)
Kept ==
  /\ backend.version <= image /\ image <= released
  /\ \A i \in Installs : /\ row[i].built <= image
                         /\ Settled(i) => row[i].built <= backend.version

IInv == TypeOK /\ Phases /\ Kept

-----------------------------------------------------------------------------
(* The releases are numbered.                                              *)
LEMMA VersionsType == Len(Tags) \in Nat /\ Versions = 1..Len(Tags) /\ 1 \in Versions
BY TagsAssumption DEF Versions

(* What a step makes of a script: a command that has done its work is      *)
(* followed by the next, unless the shell was killed.                      *)
LEMMA ScriptSteps ==
  ASSUME TypeOK, NEW i \in Installs, NEW next \in {"up", "ended"}
  PROVE  /\ script[i] \in Script
         /\ GoesOn(i, next) \in Script
         /\ Exits(i) \in Script /\ Exits(i).at = "ended"
         /\ GoesOn(i, next).at = IF Killed(i) THEN "ended" ELSE next
         /\ GoesOn(i, next).reply = IF ~Killed(i) /\ next = "ended" THEN "zero" ELSE script[i].reply
         /\ Exits(i).reply = IF Killed(i) THEN script[i].reply ELSE "error"
<1>1. script[i] \in Script
  BY DEF TypeOK
<1> QED
  BY <1>1 DEF GoesOn, Exits, Script

(* A step leaves every variable with its type.                             *)
LEMMA TypeStep ==
  ASSUME TypeOK, [Next]_vars
  PROVE  TypeOK'
<1>1. ASSUME NEW i \in Installs, Post(i) PROVE TypeOK'
  <2>1. [script[i] EXCEPT !.at = "pull"] \in Script
    BY DEF TypeOK, Script
  <2> QED
    BY <1>1, <2>1 DEF TypeOK, Post, Handlers
<1>2. ASSUME NEW i \in Installs, Unreachable(i) PROVE TypeOK'
  <2>1. row' \in [Installs -> Row]
    BY <1>2 DEF TypeOK, Unreachable, Report, Row
  <2>2. page' \in [Admins -> [check: Check, pending: Installs \cup {None}]]
    BY <1>2 DEF TypeOK, Unreachable, Report, Answered
  <2> QED
    BY <1>2, <2>1, <2>2 DEF TypeOK, Unreachable, Report, Handlers
<1>3. ASSUME NEW i \in Installs, ClientTimeout(i) PROVE TypeOK'
  <2>1. row' \in [Installs -> Row]
    BY <1>3 DEF TypeOK, ClientTimeout, Report, Row
  <2>2. page' \in [Admins -> [check: Check, pending: Installs \cup {None}]]
    BY <1>3 DEF TypeOK, ClientTimeout, Report, Answered
  <2> QED
    BY <1>3, <2>1, <2>2 DEF TypeOK, ClientTimeout, Report, Handlers
<1>4. ASSUME NEW i \in Installs, Finish(i) PROVE TypeOK'
  <2>1. row' \in [Installs -> Row]
    BY <1>4 DEF TypeOK, Finish, Report, Row
  <2>2. page' \in [Admins -> [check: Check, pending: Installs \cup {None}]]
    BY <1>4 DEF TypeOK, Finish, Report, Answered
  <2> QED
    BY <1>4, <2>1, <2>2 DEF TypeOK, Finish, Report, Handlers
<1>5. ASSUME NEW i \in Installs, PullEnds(i) PROVE TypeOK'
  BY <1>5, ScriptSteps DEF TypeOK, PullEnds
<1>6. ASSUME NEW i \in Installs, CommandFails(i) PROVE TypeOK'
  BY <1>6, ScriptSteps DEF TypeOK, CommandFails
<1>7. ASSUME Rebuild PROVE TypeOK'
  BY <1>7 DEF TypeOK, Rebuild
<1>8. ASSUME NEW i \in Installs, UpToDate(i) PROVE TypeOK'
  BY <1>8, ScriptSteps DEF TypeOK, UpToDate
<1>10. ASSUME NEW i \in Installs, Recreate(i) PROVE TypeOK'
  <2>1. handler' \in [Installs -> Handlers]
    BY <1>10 DEF TypeOK, Recreate, Handlers
  <2>2. page' \in [Admins -> [check: Check, pending: Installs \cup {None}]]
    BY <1>10 DEF TypeOK, Recreate, Disconnected
  <2>3. script' \in [Installs -> Script]
    BY <1>10, ScriptSteps DEF TypeOK, Recreate
  <2> QED
    BY <1>10, <2>1, <2>2, <2>3 DEF TypeOK, Recreate
<1>11. ASSUME NEW i \in Installs, RecreateUpdater(i) PROVE TypeOK'
  <2>1. \A k \in Installs : script[k] \in Script
    BY DEF TypeOK
  <2>2. \A k \in Installs :
          [at |-> "ended", reply |-> IF Killed(k) THEN script[k].reply ELSE "lost"] \in Script
    BY <2>1 DEF Script
  <2> QED
    BY <1>11, <2>1, <2>2 DEF TypeOK, RecreateUpdater
<1>12. ASSUME NEW i \in Installs, ScriptTimeout(i) PROVE TypeOK'
  <2>1. [script[i] EXCEPT !.reply = "error"] \in Script
    BY DEF TypeOK, Script
  <2> QED
    BY <1>12, <2>1 DEF TypeOK, ScriptTimeout
<1>13. ASSUME NEW a \in Admins, CheckForUpdate(a) PROVE TypeOK'
  <2>1. [current |-> backend.version, latest |-> released,
         available |-> IsNewer(Tags[released], Tags[backend.version])] \in Check
    BY DEF TypeOK, Check, IsNewer
  <2>2. NoCheck \in Check
    BY VersionsType DEF NoCheck, Check
  <2>3. page' \in [Admins -> [check: Check, pending: Installs \cup {None}]]
    BY <1>13, <2>1, <2>2 DEF TypeOK, CheckForUpdate
  <2> QED
    BY <1>13, <2>3 DEF TypeOK, CheckForUpdate
<1>14. ASSUME NEW a \in Admins, NEW i \in Installs, Install(a, i) PROVE TypeOK'
  <2>1. row' \in [Installs -> Row]
    BY <1>14 DEF TypeOK, Install, Row
  <2>2. page' \in [Admins -> [check: Check, pending: Installs \cup {None}]]
    BY <1>14 DEF TypeOK, Install
  <2> QED
    BY <1>14, <2>1, <2>2 DEF TypeOK, Install, Handlers
<1>15. ASSUME NEW a \in Admins, GatewayTimeout(a) PROVE TypeOK'
  BY <1>15 DEF TypeOK, GatewayTimeout
<1>16. ASSUME Release PROVE TypeOK'
  BY <1>16, VersionsType DEF TypeOK, Release
<1>17. ASSUME Crash PROVE TypeOK'
  <2>1. page' \in [Admins -> [check: Check, pending: Installs \cup {None}]]
    BY <1>17 DEF TypeOK, Crash, Disconnected
  <2>2. crashes' \in 0..MaxCrashes
    BY <1>17, BoundsAssumption DEF TypeOK, Crash
  <2>3. handler' \in [Installs -> Handlers]
    BY <1>17 DEF TypeOK, Crash, Handlers
  <2> QED
    BY <1>17, <2>1, <2>2, <2>3 DEF TypeOK, Crash
<1>18. ASSUME Boot PROVE TypeOK'
  BY <1>18 DEF TypeOK, Boot
<1>19. CASE UNCHANGED vars
  BY <1>19 DEF TypeOK, vars
<1> QED
  BY <1>1, <1>2, <1>3, <1>4, <1>5, <1>6, <1>7, <1>8, <1>10, <1>11, <1>12,
     <1>13, <1>14, <1>15, <1>16, <1>17, <1>18, <1>19 DEF Next, Handle, RunScript

-----------------------------------------------------------------------------
(* A step that leaves scripts, versions and rows as they are, and lets no  *)
(* handler seem restarted.                                                 *)
LEMMA QuietStep ==
  ASSUME IInv, UNCHANGED <<image, script>>, backend'.version = backend.version,
         released <= released', released' \in Versions,
         \A i \in Installs :
           /\ row'[i].built = row[i].built
           /\ handler'[i] = "restarted" => handler[i] = "restarted"
  PROVE  Kept'
BY VersionsType DEF IInv, TypeOK, Row, Kept, Settled

(* A step of the script of i that ends in success only if the backend is   *)
(* what was built.                                                         *)
LEMMA ScriptKeeps ==
  ASSUME IInv, NEW i \in Installs, UNCHANGED <<released, image, backend, row, handler>>,
         \A k \in Installs \ {i} : script'[k] = script[k],
         script'[i].reply = "zero" => script[i].reply = "zero" \/ image = backend.version
  PROVE  Kept'
BY VersionsType DEF IInv, TypeOK, Row, Kept, Settled

(* A step keeps the invariant.                                             *)
LEMMA InvStep ==
  ASSUME IInv, [Next]_vars
  PROVE  IInv'
<1>0. TypeOK'
  BY TypeStep DEF IInv
<1> USE DEF IInv
<1>1. ASSUME NEW i \in Installs, Post(i) PROVE Phases' /\ Kept'
  <2>1. /\ script' = [script EXCEPT ![i].at = "pull"] /\ script \in [Installs -> Script]
        /\ handler' = [handler EXCEPT ![i] = "waiting"] /\ handler[i] = "posting"
        /\ UNCHANGED <<released, image, backend, row>>
    BY <1>1 DEF Post, TypeOK
  <2>2. script'[i] = [at |-> "pull", reply |-> "none"]
    BY <2>1 DEF Phases, Script
  <2>3. Phases'
    BY <2>1, <2>2 DEF Phases, InFlight, TypeOK
  <2>4. Kept'
    BY <2>1, <2>2 DEF Kept, Settled, TypeOK
  <2> QED
    BY <2>3, <2>4
<1>2. ASSUME NEW i \in Installs, NEW status \in {"SUCCEEDED", "FAILED"}, InFlight(i),
             Report(i, status), status = "SUCCEEDED" => script[i].reply = "zero"
      PROVE  Phases' /\ Kept'
  <2>1. /\ row' = [row EXCEPT ![i].status = status] /\ row \in [Installs -> Row]
        /\ handler' = [handler EXCEPT ![i] = "done"] /\ handler \in [Installs -> Handlers]
        /\ UNCHANGED <<released, image, backend, script>>
    BY <1>2 DEF Report, TypeOK
  <2>2. Phases'
    BY <1>2, <2>1 DEF Phases, InFlight, Row
  <2>3. Kept'
    BY <2>1, VersionsType, QuietStep DEF Row, TypeOK
  <2> QED
    BY <2>2, <2>3
<1>3. ASSUME NEW i \in Installs, Unreachable(i) \/ ClientTimeout(i) \/ Finish(i)
      PROVE  Phases' /\ Kept'
  BY <1>2, <1>3 DEF Unreachable, ClientTimeout, Finish, InFlight
<1>4. ASSUME NEW i \in Installs, NEW s \in Script, script' = [script EXCEPT ![i] = s],
             script[i].at # "none", s.at # "none",
             UNCHANGED <<released, image, backend, row, handler>>,
             script[i].at = "ended" => s.at = "ended",
             script[i].reply = "zero" => s.reply = "zero",
             s.reply = "zero" => s.at = "ended",
             s.reply = "zero" => script[i].reply = "zero" \/ image = backend.version
      PROVE  Phases' /\ Kept'
  <2>1. script'[i] = s /\ \A k \in Installs \ {i} : script'[k] = script[k]
    BY <1>4 DEF TypeOK
  <2>2. Phases'
    BY <1>4, <2>1 DEF Phases, InFlight
  <2>3. Kept'
    BY <1>4, <2>1, ScriptKeeps
  <2> QED
    BY <2>2, <2>3
<1>5. ASSUME NEW i \in Installs, PullEnds(i) PROVE Phases' /\ Kept'
  <2>1. /\ GoesOn(i, "up") \in Script /\ script[i].at = "pull"
        /\ GoesOn(i, "up").at # "none" /\ GoesOn(i, "up").reply = script[i].reply
    BY <1>5, ScriptSteps DEF PullEnds
  <2>2. script[i].reply # "zero"
    BY <2>1 DEF Phases
  <2> QED
    BY <1>4, <1>5, <2>1, <2>2 DEF PullEnds
<1>6. ASSUME NEW i \in Installs, CommandFails(i) PROVE Phases' /\ Kept'
  <2>1. /\ Exits(i) \in Script /\ Exits(i).at = "ended" /\ script[i].at \in {"pull", "up"}
        /\ Exits(i).reply \in {script[i].reply, "error"}
    BY <1>6, ScriptSteps DEF CommandFails, AtWork
  <2>2. script[i].reply # "zero"
    BY <2>1 DEF Phases
  <2> QED
    BY <1>4, <1>6, <2>1, <2>2 DEF CommandFails
<1>7. ASSUME NEW i \in Installs, UpToDate(i) PROVE Phases' /\ Kept'
  <2>1. /\ GoesOn(i, "ended") \in Script /\ GoesOn(i, "ended").at = "ended"
        /\ script[i].at = "up"
    BY <1>7, ScriptSteps DEF UpToDate
  <2>2. script[i].reply # "zero"
    BY <2>1 DEF Phases
  <2> QED
    BY <1>4, <1>7, <2>1, <2>2 DEF UpToDate
<1>8. ASSUME NEW i \in Installs, Recreate(i) PROVE Phases' /\ Kept'
  <2>1. /\ script[i].at = "up" /\ script' = [script EXCEPT ![i] = GoesOn(i, "ended")]
        /\ GoesOn(i, "ended").at = "ended" /\ GoesOn(i, "ended") \in Script
        /\ backend' = [up |-> FALSE, version |-> image]
        /\ handler' = [k \in Installs |-> IF ~InFlight(k) THEN handler[k]
                                           ELSE IF k = i THEN "restarted" ELSE "cut"]
        /\ UNCHANGED <<released, image, row>>
    BY <1>8, ScriptSteps DEF Recreate
  <2>2. /\ script'[i] = GoesOn(i, "ended") /\ \A k \in Installs \ {i} : script'[k] = script[k]
        /\ script[i].reply # "zero"
    BY <2>1 DEF TypeOK, Phases
  <2>3. Phases'
    BY <2>1, <2>2 DEF Phases, InFlight
  <2>4. backend'.version = image /\ backend.version <= image
    BY <2>1 DEF Kept
  <2>5. Kept'
    BY <2>1, <2>4, VersionsType DEF Kept, TypeOK, Row
  <2> QED
    BY <2>3, <2>5
<1>9. ASSUME NEW i \in Installs, RecreateUpdater(i) PROVE Phases' /\ Kept'
  <2>1. /\ UNCHANGED <<released, image, backend, row, handler>>
        /\ \A k \in Installs :
             script'[k] = IF AtWork(k)
                          THEN [at |-> "ended", reply |-> IF Killed(k) THEN script[k].reply ELSE "lost"]
                          ELSE script[k]
    BY <1>9 DEF RecreateUpdater
  <2>2. ASSUME NEW k \in Installs, script'[k].reply = "zero" PROVE script[k].reply = "zero"
    <3>1. CASE AtWork(k)
      <4>1. script'[k] = [at |-> "ended", reply |-> IF Killed(k) THEN script[k].reply ELSE "lost"]
        BY <2>1, <3>1
      <4>2. script'[k].reply = IF Killed(k) THEN script[k].reply ELSE "lost"
        BY <4>1
      <4> QED
        BY <2>2, <4>2
    <3>2. CASE ~AtWork(k)
      <4>1. script'[k] = script[k]
        BY <2>1, <3>2
      <4> QED
        BY <2>2, <4>1
    <3> QED
      BY <3>1, <3>2
  <2>3. ASSUME NEW k \in Installs, AtWork(k)
        PROVE  /\ script[k].at \in {"pull", "up"} /\ script[k].reply # "zero"
               /\ script'[k].at = "ended" /\ handler[k] # "posting" /\ row[k].status # "NONE"
    <3>1. script[k].at \in {"pull", "up"}
      BY <2>3 DEF AtWork
    <3>2. script'[k].at = "ended"
      <4>1. script'[k] = [at |-> "ended", reply |-> IF Killed(k) THEN script[k].reply ELSE "lost"]
        BY <2>1, <2>3
      <4> QED
        BY <4>1
    <3>3. script[k].reply # "zero" /\ handler[k] # "posting" /\ row[k].status # "NONE"
      BY <3>1 DEF Phases
    <3> QED
      BY <3>1, <3>2, <3>3
  <2>4. ASSUME NEW k \in Installs, ~AtWork(k) PROVE script'[k] = script[k]
    BY <2>1, <2>4
  <2>6. Phases'
    <3> SUFFICES ASSUME NEW k \in Installs
                 PROVE  /\ InFlight(k)' => row'[k].status = "RUNNING"
                        /\ handler'[k] = "posting" => script'[k] = [at |-> "none", reply |-> "none"]
                        /\ row'[k].status = "NONE" => /\ script'[k] = [at |-> "none", reply |-> "none"]
                                                      /\ handler'[k] = "none"
                        /\ handler'[k] = "restarted" => script'[k].at = "ended"
                        /\ row'[k].status = "SUCCEEDED" => script'[k].reply = "zero"
                        /\ script'[k].reply = "zero" => script'[k].at = "ended"
      BY DEF Phases
    <3>1. CASE AtWork(k)
      BY <2>1, <2>2, <2>3, <3>1 DEF Phases, InFlight
    <3>2. CASE ~AtWork(k)
      BY <2>1, <2>4, <3>2 DEF Phases, InFlight
    <3> QED
      BY <3>1, <3>2
  <2>5. Kept'
    BY <2>1, <2>2 DEF Kept, Settled
  <2> QED
    BY <2>5, <2>6
<1>10. ASSUME NEW i \in Installs, ScriptTimeout(i) PROVE Phases' /\ Kept'
  <2>1. /\ script[i] \in Script /\ script[i].at \in {"pull", "up"}
        /\ script' = [script EXCEPT ![i] = [script[i] EXCEPT !.reply = "error"]]
        /\ UNCHANGED <<released, image, backend, row, handler>>
    BY <1>10 DEF ScriptTimeout, AtWork, TypeOK
  <2>2. /\ [script[i] EXCEPT !.reply = "error"] \in Script
        /\ [script[i] EXCEPT !.reply = "error"].at = script[i].at
        /\ [script[i] EXCEPT !.reply = "error"].reply = "error"
    BY <2>1 DEF Script
  <2>3. script[i].reply # "zero"
    BY <2>1 DEF Phases
  <2> QED
    BY <1>4, <2>1, <2>2, <2>3
<1>11. ASSUME NEW a \in Admins, NEW i \in Installs, Install(a, i) PROVE Phases' /\ Kept'
  <2>1. /\ row' = [row EXCEPT ![i] = [status |-> "RUNNING", built |-> image]]
        /\ handler' = [handler EXCEPT ![i] = "posting"] /\ row[i].status = "NONE"
        /\ UNCHANGED <<released, image, backend, script>>
    BY <1>11 DEF Install, Free
  <2>2. script[i] = [at |-> "none", reply |-> "none"]
    BY <2>1 DEF Phases
  <2>3. Phases'
    BY <2>1, <2>2 DEF Phases, InFlight, TypeOK
  <2>4. Kept'
    BY <2>1, <2>2, VersionsType DEF Kept, Settled, TypeOK, Row
  <2> QED
    BY <2>3, <2>4
<1>12. ASSUME UNCHANGED <<image, script, row>>, backend'.version = backend.version,
              released <= released', released' \in Versions,
              \A k \in Installs : handler'[k] = handler[k] \/ (InFlight(k) /\ handler'[k] = "cut")
       PROVE  Phases' /\ Kept'
  <2>1. Phases'
    BY <1>12 DEF Phases, InFlight
  <2>2. Kept'
    BY <1>12, QuietStep
  <2> QED
    BY <2>1, <2>2
<1>13. ASSUME NEW a \in Admins, CheckForUpdate(a) \/ GatewayTimeout(a) PROVE Phases' /\ Kept'
  BY <1>12, <1>13, VersionsType DEF CheckForUpdate, GatewayTimeout, TypeOK
<1>14. ASSUME Release PROVE Phases' /\ Kept'
  BY <1>12, <1>14, VersionsType DEF Release, TypeOK
<1>15. ASSUME Rebuild PROVE Phases' /\ Kept'
  <2>1. /\ image' = released /\ image <= released
        /\ UNCHANGED <<released, backend, row, handler, script>>
    BY <1>15 DEF Rebuild, Kept
  <2>2. Phases'
    BY <2>1 DEF Phases, InFlight
  <2>3. Kept'
    BY <2>1, VersionsType DEF Kept, Settled, TypeOK, Row
  <2> QED
    BY <2>2, <2>3
<1>16. ASSUME Crash PROVE Phases' /\ Kept'
  <2>1. backend'.version = backend.version
    BY <1>16 DEF Crash, TypeOK
  <2> QED
    BY <1>12, <1>16, <2>1, VersionsType DEF Crash, TypeOK
<1>17. ASSUME Boot PROVE Phases' /\ Kept'
  <2>1. backend'.version = backend.version
    BY <1>17 DEF Boot, TypeOK
  <2> QED
    BY <1>12, <1>17, <2>1, VersionsType DEF Boot, TypeOK
<1>18. ASSUME UNCHANGED vars PROVE Phases' /\ Kept'
  BY <1>12, <1>18, VersionsType DEF vars, TypeOK
<1>19. Phases' /\ Kept'
  BY <1>1, <1>3, <1>5, <1>6, <1>7, <1>8, <1>9, <1>10, <1>11, <1>13, <1>14, <1>15, <1>16,
     <1>17, <1>18 DEF Next, Handle, RunScript
<1> QED
  BY <1>0, <1>19

(* Nothing has been asked for in the beginning.                            *)
LEMMA InvInit == Init => IInv
<1> SUFFICES ASSUME Init PROVE IInv
  OBVIOUS
<1>1. TypeOK
  BY VersionsType, BoundsAssumption DEF Init, TypeOK, Row, Handlers, Script, Check, NoCheck
<1>2. Phases /\ Kept
  BY VersionsType DEF Init, Phases, Kept, Settled, InFlight
<1> QED
  BY <1>1, <1>2 DEF IInv

(* Every variable has its type, for any number of browsers, installs and   *)
(* releases: no row is left at the column's default.                       *)
THEOREM TypeCorrectness == Spec => []TypeOK
<1>1. Init => TypeOK
  BY InvInit DEF IInv
<1>2. TypeOK /\ [Next]_vars => TypeOK'
  BY TypeStep
<1> QED
  BY <1>1, <1>2, PTL DEF Spec

(* An install that is reported as a success, or whose answer was lost in   *)
(* the restart it brought, leaves the backend at least at the version that *)
(* was built when it was asked for.  Any number of installs may overlap,   *)
(* time out, fail and be cut off, and images be built at any time.         *)
THEOREM SuccessIsInstalled == Spec => []SuccessMeansInstalled
<1>1. IInv /\ [Next]_vars => IInv'
  BY InvStep
<1>2. IInv => SuccessMeansInstalled
  <2> SUFFICES ASSUME IInv, NEW i \in Installs, ClaimsSuccess(i)
               PROVE  backend.version >= row[i].built
    BY DEF SuccessMeansInstalled
  <2>1. Settled(i)
    BY DEF IInv, Phases, Settled, ClaimsSuccess
  <2>2. row[i].built <= backend.version /\ row[i].built \in Nat /\ backend.version \in Nat
    BY <2>1, VersionsType DEF IInv, TypeOK, Row, Kept
  <2> QED
    BY <2>2
<1> QED
  BY InvInit, <1>1, <1>2, PTL DEF Spec

-----------------------------------------------------------------------------
(* The comparison of versions, and what the page offers.                   *)

(* One triple of numbers is greater than another: the first number that    *)
(* differs decides.                                                        *)
Exceeds(p, q) == \/ p[1] > q[1]
                 \/ p[1] = q[1] /\ p[2] > q[2]
                 \/ p[1] = q[1] /\ p[2] = q[2] /\ p[3] > q[3]

(* The digits of every segment are a number.                               *)
Readable(tag) == /\ Len(tag) \in Nat
                 /\ \A k \in 1..Len(tag) : Number(tag[k]) \in Nat

(* So they are in the tags of the releases.                                *)
LEMMA TagsAreReadable ==
  ASSUME NEW v \in Versions
  PROVE  Readable(Tags[v])
<1>1. Tags[v] \in Seq(Seq(Digits \cup {Other})) /\ v \in 1..Len(Tags)
  BY TagsAssumption, VersionsType
<1>2. Len(Tags[v]) \in Nat
  BY <1>1
<1> QED
  BY <1>1, <1>2, NumberAssumption DEF Readable

(* A tag is read as three numbers, whatever it has.                        *)
LEMMA ParsedNumbers ==
  ASSUME NEW tag, Readable(tag)
  PROVE  \A k \in 1..3 : Parsed(tag)[k] \in Nat
BY DEF Parsed, Readable

(* Newer is decided by the first number that differs.                      *)
LEMMA NewerByFirst ==
  ASSUME NEW s, NEW t, Readable(s), Readable(t)
  PROVE  IsNewer(s, t) <=> Exceeds(Parsed(s), Parsed(t))
<1> DEFINE p == Parsed(s)
           q == Parsed(t)
           Decides(k) == p[k] > q[k] /\ \A h \in 1..(k - 1) : p[h] = q[h]
<1>1. IsNewer(s, t) <=> \E k \in 1..3 : Decides(k)
  BY DEF IsNewer
<1> HIDE DEF p, q
<1>2. Decides(1) <=> p[1] > q[1]
  OBVIOUS
<1>3. Decides(2) <=> p[1] = q[1] /\ p[2] > q[2]
  <2>1. \A h : h \in 1..(2 - 1) <=> h = 1
    OBVIOUS
  <2> QED BY <2>1
<1>4. Decides(3) <=> p[1] = q[1] /\ p[2] = q[2] /\ p[3] > q[3]
  <2>1. \A h : h \in 1..(3 - 1) <=> h = 1 \/ h = 2
    OBVIOUS
  <2> QED BY <2>1
<1>5. \A k : k \in 1..3 <=> k = 1 \/ k = 2 \/ k = 3
  OBVIOUS
<1> HIDE DEF Decides
<1> QED BY <1>1, <1>2, <1>3, <1>4, <1>5 DEF p, q, Exceeds

(* A triple of numbers.                                                    *)
Triple(p) == p[1] \in Nat /\ p[2] \in Nat /\ p[3] \in Nat

(* The order of the triples, as Python compares tuples.                    *)
LEMMA ExceedsOrders ==
  ASSUME NEW p, NEW q, NEW r, Triple(p), Triple(q), Triple(r)
  PROVE  /\ Exceeds(p, q) => ~ Exceeds(q, p)
         /\ Exceeds(p, q) /\ Exceeds(q, r) => Exceeds(p, r)
         /\ (p[1] # q[1] \/ p[2] # q[2] \/ p[3] # q[3]) => Exceeds(p, q) \/ Exceeds(q, p)
<1> DEFINE a == p[1]  b == p[2]  c == p[3]
           d == q[1]  e == q[2]  f == q[3]
           x == r[1]  y == r[2]  z == r[3]
<1>1. /\ Exceeds(p, q) <=> a > d \/ (a = d /\ b > e) \/ (a = d /\ b = e /\ c > f)
      /\ Exceeds(q, p) <=> d > a \/ (d = a /\ e > b) \/ (d = a /\ e = b /\ f > c)
      /\ Exceeds(q, r) <=> d > x \/ (d = x /\ e > y) \/ (d = x /\ e = y /\ f > z)
      /\ Exceeds(p, r) <=> a > x \/ (a = x /\ b > y) \/ (a = x /\ b = y /\ c > z)
  BY DEF Exceeds
<1>2. /\ a \in Nat /\ b \in Nat /\ c \in Nat
      /\ d \in Nat /\ e \in Nat /\ f \in Nat
      /\ x \in Nat /\ y \in Nat /\ z \in Nat
  BY DEF Triple
<1>3. p[1] # q[1] \/ p[2] # q[2] \/ p[3] # q[3] <=> a # d \/ b # e \/ c # f
  OBVIOUS
<1> HIDE DEF a, b, c, d, e, f, x, y, z
<1>4. Exceeds(p, q) => ~ Exceeds(q, p)
  BY <1>1, <1>2
<1>5. Exceeds(p, q) /\ Exceeds(q, r) => Exceeds(p, r)
  BY <1>1, <1>2
<1>6. a # d \/ b # e \/ c # f => Exceeds(p, q) \/ Exceeds(q, p)
  BY <1>1, <1>2
<1> QED BY <1>3, <1>4, <1>5, <1>6

(* A tag is read as a triple.                                              *)
LEMMA ParsedTriple ==
  ASSUME NEW tag, Readable(tag)
  PROVE  Triple(Parsed(tag))
BY ParsedNumbers DEF Triple

(* No release is newer than one that is newer than it, nor than itself.    *)
LEMMA NewerIsAsymmetric ==
  ASSUME NEW s, NEW t, Readable(s), Readable(t), IsNewer(s, t)
  PROVE  ~ IsNewer(t, s)
BY NewerByFirst, ParsedTriple, ExceedsOrders

(* A release is newer than all that a release before it is newer than.     *)
LEMMA NewerIsTransitive ==
  ASSUME NEW s, NEW t, NEW u, Readable(s), Readable(t), Readable(u),
         IsNewer(s, t), IsNewer(t, u)
  PROVE  IsNewer(s, u)
<1>1. Triple(Parsed(s)) /\ Triple(Parsed(t)) /\ Triple(Parsed(u))
  BY ParsedTriple
<1>2. Exceeds(Parsed(s), Parsed(t)) /\ Exceeds(Parsed(t), Parsed(u))
  BY NewerByFirst
<1>3. Exceeds(Parsed(s), Parsed(u))
  BY <1>1, <1>2, ExceedsOrders
<1> QED BY <1>3, NewerByFirst

(* Of two tags that are read differently one is newer.                     *)
LEMMA NewerIsTotal ==
  ASSUME NEW s, NEW t, Readable(s), Readable(t), \E k \in 1..3 : Parsed(s)[k] # Parsed(t)[k]
  PROVE  IsNewer(s, t) \/ IsNewer(t, s)
<1> DEFINE p == Parsed(s)
           q == Parsed(t)
<1>1. p[1] # q[1] \/ p[2] # q[2] \/ p[3] # q[3]
  OBVIOUS
<1>2. Exceeds(p, q) \/ Exceeds(q, p)
  <2>1. Triple(p) /\ Triple(q)
    BY ParsedTriple
  <2> HIDE DEF p, q
  <2> QED BY <1>1, <2>1, ExceedsOrders
<1> QED BY <1>2, NewerByFirst

(* If every release is newer than the one before, it is newer than all     *)
(* before: take the first that is not.                                     *)
LEMMA LaterIsNewer ==
  ASSUME ReleasesAscend, NEW v \in Versions, NEW w \in Versions, v < w
  PROVE  IsNewer(Tags[w], Tags[v])
<1> DEFINE Bad == {u \in Versions : v < u /\ ~ IsNewer(Tags[u], Tags[v])}
<1>1. SUFFICES ASSUME Bad # {}
               PROVE  FALSE
  OBVIOUS
<1>2. PICK u \in Bad : \A x \in Bad : u <= x
  <2>1. Bad \subseteq Nat
    BY VersionsType
  <2> HIDE DEF Bad
  <2> QED BY <1>1, <2>1, LeastElement
<1>3. u \in Versions /\ v < u /\ ~ IsNewer(Tags[u], Tags[v])
  OBVIOUS
<1>4. u - 1 \in Versions /\ (u - 1) + 1 = u /\ (v = u - 1 \/ v < u - 1) /\ ~(u <= u - 1)
  BY <1>3, VersionsType
<1>5. IsNewer(Tags[u], Tags[u - 1])
  <2>1. Exceeds(Parsed(Tags[u]), Parsed(Tags[u - 1]))
    BY <1>3, <1>4 DEF ReleasesAscend, Exceeds
  <2>2. Readable(Tags[u]) /\ Readable(Tags[u - 1])
    BY <1>3, <1>4, TagsAreReadable
  <2> QED BY <2>1, <2>2, NewerByFirst
<1>6. v = u - 1 \/ IsNewer(Tags[u - 1], Tags[v])
  BY <1>2, <1>4
<1>7. \A x \in Versions : Readable(Tags[x])
  BY TagsAreReadable
<1> QED BY <1>3, <1>4, <1>5, <1>6, <1>7, NewerIsTransitive

(* So the numbers tell two releases apart as their order does.             *)
LEMMA NewerIsLater ==
  ASSUME ReleasesAscend, NEW v \in Versions, NEW w \in Versions
  PROVE  IsNewer(Tags[w], Tags[v]) <=> w > v
<1>1. Readable(Tags[v]) /\ Readable(Tags[w]) /\ v \in Nat /\ w \in Nat
  BY TagsAreReadable, VersionsType
<1>2. v < w => IsNewer(Tags[w], Tags[v])
  BY LaterIsNewer
<1>3. w < v => ~ IsNewer(Tags[w], Tags[v])
  BY <1>1, LaterIsNewer, NewerIsAsymmetric
<1>4. ~ IsNewer(Tags[v], Tags[v])
  BY <1>1, NewerIsAsymmetric
<1> QED BY <1>1, <1>2, <1>3, <1>4

(* Whatever has been released, installed or taken back by a crash since    *)
(* the check: the page offers a release exactly when it came after the     *)
(* version that was running, if every release has greater numbers than the *)
(* one before (two digits, missing segments and letters included).          *)
THEOREM OffersComeAfter ==
  ASSUME ReleasesAscend
  PROVE  Spec => []OffersAreNewer
<1>1. Init => OffersAreNewer
  <2> SUFFICES ASSUME Init, NEW a \in Admins
               PROVE  page[a].check.available <=> page[a].check.latest > page[a].check.current
    BY DEF OffersAreNewer
  <2>1. page[a].check = NoCheck
    BY DEF Init
  <2>2. ~ NoCheck.available
    BY DEF NoCheck
  <2>3. ~ (NoCheck.latest > NoCheck.current)
    BY DEF NoCheck
  <2> QED BY <2>1, <2>2, <2>3
<1>2. TypeOK /\ OffersAreNewer /\ [Next]_vars => OffersAreNewer'
  <2> SUFFICES ASSUME TypeOK, OffersAreNewer, [Next]_vars
               PROVE  OffersAreNewer'
    OBVIOUS
  <2>1. ASSUME NEW a \in Admins, CheckForUpdate(a)
        PROVE  OffersAreNewer'
    <3>1. PICK check \in {NoCheck, [current   |-> backend.version,
                                    latest    |-> released,
                                    available |-> IsNewer(Tags[released],
                                                          Tags[backend.version])]} :
            page' = [page EXCEPT ![a].check = check]
      BY <2>1 DEF CheckForUpdate
    <3>2. check.available <=> check.latest > check.current
      BY NewerIsLater DEF NoCheck, TypeOK
    <3>3. \A b \in Admins : page'[b].check = IF b = a THEN check ELSE page[b].check
      BY <3>1 DEF TypeOK
    <3> QED BY <3>2, <3>3 DEF OffersAreNewer
  <2>2. CASE \A b \in Admins : page'[b].check = page[b].check
    BY <2>2 DEF OffersAreNewer
  <2>3. ASSUME NEW a \in Admins, NEW i \in Installs, Install(a, i)
        PROVE  \A b \in Admins : page'[b].check = page[b].check
    BY <2>3 DEF Install, TypeOK
  <2>4. ASSUME NEW i \in Installs, Handle(i)
        PROVE  \A b \in Admins : page'[b].check = page[b].check
    <3>1. CASE UNCHANGED page
      BY <3>1
    <3>2. CASE Answered(i)
      BY <3>2 DEF Answered, TypeOK
    <3>3. UNCHANGED page \/ Answered(i)
      BY <2>4 DEF Handle, Post, Unreachable, ClientTimeout, Finish, Report
    <3> QED BY <3>1, <3>2, <3>3
  <2>5. ASSUME NEW i \in Installs, RunScript(i) \/ ScriptTimeout(i)
        PROVE  \A b \in Admins : page'[b].check = page[b].check
    BY <2>5
    DEF RunScript, PullEnds, CommandFails, UpToDate, Recreate, RecreateUpdater,
        ScriptTimeout, Disconnected, TypeOK
  <2>6. ASSUME NEW a \in Admins, GatewayTimeout(a)
        PROVE  \A b \in Admins : page'[b].check = page[b].check
    BY <2>6 DEF GatewayTimeout, TypeOK
  <2>7. CASE Release \/ Rebuild \/ Crash \/ Boot \/ UNCHANGED vars
    <3>1. \A b \in Admins : page'[b].check = page[b].check
      BY <2>7 DEF Release, Rebuild, Crash, Boot, Disconnected, vars, TypeOK
    <3> QED BY <2>2, <3>1
  <2> QED BY <2>1, <2>2, <2>3, <2>4, <2>5, <2>6, <2>7 DEF Next
<1> QED
  BY <1>1, <1>2, TypeCorrectness, PTL DEF Spec
================================================================================
