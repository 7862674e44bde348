-------------------------------- MODULE Updates --------------------------------
(***************************************************************************)
(* Checking for an update and installing it.  An install is a row of       *)
(* update_runs, a handler of the backend that posts to the updater and     *)
(* waits, and a script in the updater that pulls the images and brings the *)
(* stack up.  The compose file names no image to pull for the services of  *)
(* this repository, it builds them: a pull brings them nothing, and a new  *)
(* version comes with whoever builds it on the host.  Then bringing the    *)
(* stack up replaces the very backend whose handler waits for the answer.  *)
(*                                                                         *)
(* Versions are numbered in the order of their release; Tags spells them   *)
(* the way GitHub does, segment by segment.                                *)
(***************************************************************************)
EXTENDS Naturals, Sequences, SequencesExt

CONSTANTS Admins,       \* the browsers with the updates page open
          Tags,         \* the releases, in their order
          MaxInstalls,  \* bound: install requests
          MaxCrashes,   \* bound: crashes of the backend
          None          \* no install

Digits == 0..9

\* Any character that is no digit: the v in "v1.2", the rest of "0-rc1".
Other == 10

ASSUME TagsAssumption == Tags \in Seq(Seq(Seq(Digits \cup {Other}))) /\ Len(Tags) > 0
ASSUME BoundsAssumption == MaxInstalls \in Nat /\ MaxCrashes \in Nat
ASSUME NoneAssumption == None \notin Nat

VARIABLES released,  \* the latest release on GitHub
          image,     \* the version of the image the next container is made of
          backend,   \* whether the backend is up, and its version
          row,       \* the committed table update_runs
          handler,   \* per install, the request in the backend
          script,    \* per install, updater-trigger.sh
          page,      \* per browser, the check on screen and the install it waits for
          crashes

vars == <<released, image, backend, row, handler, script, page, crashes>>

-----------------------------------------------------------------------------

Versions == 1..Len(Tags)

Installs == 1..MaxInstalls

\* built is what image was at the time of the click; no column holds it.
Row == [status: {"NONE", "RUNNING", "SUCCEEDED", "FAILED"}, built: Versions]

\* A handler is cut off by a crash, or by the restart its own script brought.
Handlers == {"none", "posting", "waiting", "done", "cut", "restarted"}

\* at: the command that runs, of the script or of a killed script.  reply: what
\* the updater answers, "zero" being the exit code, "lost" no answer at all.
Script == [at: {"none", "pull", "up", "ended"}, reply: {"none", "zero", "error", "lost"}]

Check == [current: Versions, latest: Versions, available: BOOLEAN]

\* GitHub was not reached, or nobody has looked yet.
NoCheck == [current |-> 1, latest |-> 1, available |-> FALSE]

Init == /\ released = 1
        /\ image = 1
        /\ backend = [up |-> TRUE, version |-> 1]
        /\ row = [i \in Installs |-> [status |-> "NONE", built |-> 1]]
        /\ handler = [i \in Installs |-> "none"]
        /\ script = [i \in Installs |-> [at |-> "none", reply |-> "none"]]
        /\ page = [a \in Admins |-> [check |-> NoCheck, pending |-> None]]
        /\ crashes = 0

-----------------------------------------------------------------------------
(* The check.                                                              *)

\* The digits of a segment, wherever they stand: 1 for "0-rc1", 0 for "rc".
Number(segment) ==
  FoldLeft(LAMBDA number, char : IF char \in Digits THEN 10 * number + char ELSE number,
           0, segment)

ASSUME NumberAssumption ==
  \A v \in 1..Len(Tags) : \A k \in 1..Len(Tags[v]) : Number(Tags[v][k]) \in Nat

\* _parse_version: three numbers, whatever the tag has.
Parsed(tag) == [k \in 1..3 |-> IF k <= Len(tag) THEN Number(tag[k]) ELSE 0]

\* Mutant: the patch level is forgotten.
IsNewerMinor(latest, current) ==
  \E k \in 1..2 : /\ Parsed(latest)[k] > Parsed(current)[k]
                  /\ \A h \in 1..(k - 1) : Parsed(latest)[h] = Parsed(current)[h]

\* _is_newer compares the triples as Python compares tuples.
IsNewer(latest, current) ==
  \E k \in 1..3 : /\ Parsed(latest)[k] > Parsed(current)[k]
                  /\ \A h \in 1..(k - 1) : Parsed(latest)[h] = Parsed(current)[h]

\* The project numbers its releases upwards: a new one counts up the major,
\* the minor or the patch number.
ReleasesAscend ==
  \A v \in Versions : v + 1 \in Versions =>
    LET old == Parsed(Tags[v])
        new == Parsed(Tags[v + 1])
    IN  \/ new[1] > old[1]
        \/ new[1] = old[1] /\ new[2] > old[2]
        \/ new[1] = old[1] /\ new[2] = old[2] /\ new[3] > old[3]

CheckForUpdate(a) ==
  /\ backend.up
  /\ \E check \in {NoCheck, [current   |-> backend.version,
                             latest    |-> released,
                             available |-> IsNewer(Tags[released], Tags[backend.version])]} :
       page' = [page EXCEPT ![a].check = check]
  /\ UNCHANGED <<released, image, backend, row, handler, script, crashes>>

-----------------------------------------------------------------------------
(* The handler of the install request.                                     *)

Free(i) == /\ row[i].status = "NONE"
           /\ \A k \in Installs : k < i => row[k].status # "NONE"

\* Mutant: the row keeps the default of its column.
InstallPending(a, i) ==
  /\ backend.up
  /\ page[a].check.available /\ page[a].pending = None
  /\ Free(i)
  /\ page' = [page EXCEPT ![a].pending = i]
  /\ row' = [row EXCEPT ![i] = [status |-> "PENDING", built |-> image]]
  /\ handler' = [handler EXCEPT ![i] = "posting"]
  /\ UNCHANGED <<released, image, backend, script, crashes>>

\* The click: the button is on while a check on screen offers an update and
\* this page waits for no answer.  The row is committed as RUNNING.
Install(a, i) ==
  /\ backend.up
  /\ page[a].check.available /\ page[a].pending = None
  /\ Free(i)
  /\ page' = [page EXCEPT ![a].pending = i]
  /\ row' = [row EXCEPT ![i] = [status |-> "RUNNING", built |-> image]]
  /\ handler' = [handler EXCEPT ![i] = "posting"]
  /\ UNCHANGED <<released, image, backend, script, crashes>>

AtWork(i) == script[i].at \in {"pull", "up"}

\* The updater serves every request in a thread of its own.
Post(i) ==
  /\ handler[i] = "posting"
  /\ handler' = [handler EXCEPT ![i] = "waiting"]
  /\ script' = [script EXCEPT ![i].at = "pull"]
  /\ UNCHANGED <<released, image, backend, row, page, crashes>>

Answered(i) == page' = [a \in Admins |-> IF page[a].pending = i
                                         THEN [page[a] EXCEPT !.pending = None] ELSE page[a]]

\* The outcome is committed and the request answered.
Report(i, status) ==
  /\ row' = [row EXCEPT ![i].status = status]
  /\ handler' = [handler EXCEPT ![i] = "done"]
  /\ Answered(i)
  /\ UNCHANGED <<released, image, backend, script, crashes>>

\* Mutant: nobody catches the exception.
UnreachableRaises(i) ==
  /\ handler[i] = "posting"
  /\ handler' = [handler EXCEPT ![i] = "done"]
  /\ Answered(i)
  /\ UNCHANGED <<released, image, backend, row, script, crashes>>

Unreachable(i) == handler[i] = "posting" /\ Report(i, "FAILED")

\* httpx gives up after as many seconds as the updater does; the script goes on.
ClientTimeout(i) == /\ handler[i] = "waiting" /\ script[i].reply = "none"
                    /\ Report(i, "FAILED")

\* Mutant: every answer is a success.
FinishAnswered(i) ==
  /\ handler[i] = "waiting" /\ script[i].reply # "none"
  /\ Report(i, IF script[i].reply # "lost" THEN "SUCCEEDED" ELSE "FAILED")

\* An answer, or the connection lost with the updater.
Finish(i) ==
  /\ handler[i] = "waiting" /\ script[i].reply # "none"
  /\ Report(i, IF script[i].reply = "zero" THEN "SUCCEEDED" ELSE "FAILED")

-----------------------------------------------------------------------------
(* The script.                                                             *)

Killed(i) == AtWork(i) /\ script[i].reply # "none"

\* A command has done its work: the next one is run, or the script ends, unless
\* there is no shell any more.
GoesOn(i, next) == [script[i] EXCEPT !.at = IF Killed(i) THEN "ended" ELSE next,
                                     !.reply = IF ~Killed(i) /\ next = "ended" THEN "zero" ELSE @]

\* "set -e": the first command that fails is the last.
Exits(i) == [script[i] EXCEPT !.at = "ended", !.reply = IF Killed(i) THEN @ ELSE "error"]

\* What compose.yaml builds from sources is not pulled.
PullEnds(i) ==
  /\ script[i].at = "pull"
  /\ script' = [script EXCEPT ![i] = GoesOn(i, "up")]
  /\ UNCHANGED <<released, image, backend, row, handler, page, crashes>>

CommandFails(i) ==
  /\ AtWork(i)
  /\ script' = [script EXCEPT ![i] = Exits(i)]
  /\ UNCHANGED <<released, image, backend, row, handler, page, crashes>>

\* Every container is what it should be.
UpToDate(i) ==
  /\ script[i].at = "up" /\ image = backend.version
  /\ script' = [script EXCEPT ![i] = GoesOn(i, "ended")]
  /\ UNCHANGED <<released, image, backend, row, handler, page, crashes>>

InFlight(i) == handler[i] \in {"posting", "waiting"}

\* Every browser sees a network error.
Disconnected == page' = [a \in Admins |-> [page[a] EXCEPT !.pending = None]]

\* The container of the backend is replaced, and its requests with it.
Recreate(i) ==
  /\ script[i].at = "up" /\ image # backend.version
  /\ backend' = [up |-> FALSE, version |-> image]
  /\ handler' = [k \in Installs |-> IF ~InFlight(k) THEN handler[k]
                                    ELSE IF k = i THEN "restarted" ELSE "cut"]
  /\ script' = [script EXCEPT ![i] = GoesOn(i, "ended")]
  /\ Disconnected
  /\ UNCHANGED <<released, image, row, crashes>>

\* The updater is a service of the stack too, and the backend depends on it:
\* its container may be replaced first, with every command in it.
RecreateUpdater(i) ==
  /\ script[i].at = "up" /\ image # backend.version
  /\ script' = [k \in Installs |->
       IF AtWork(k) THEN [at |-> "ended", reply |-> IF Killed(k) THEN script[k].reply ELSE "lost"]
                    ELSE script[k]]
  /\ UNCHANGED <<released, image, backend, row, handler, page, crashes>>

\* subprocess.run kills the shell and answers 124 at once; the command that the
\* shell was waiting for goes on.
ScriptTimeout(i) ==
  /\ AtWork(i) /\ ~Killed(i)
  /\ script' = [script EXCEPT ![i].reply = "error"]
  /\ UNCHANGED <<released, image, backend, row, handler, page, crashes>>

-----------------------------------------------------------------------------
(* What happens around them.                                               *)

Release == /\ released < Len(Tags)
           /\ released' = released + 1
           /\ UNCHANGED <<image, backend, row, handler, script, page, crashes>>

\* Somebody builds the images on the host, from the sources of the release.
Rebuild == /\ image # released
           /\ image' = released
           /\ UNCHANGED <<released, backend, row, handler, script, page, crashes>>

\* nginx waits 60 seconds for the backend, then answers 504; the handler goes on.
GatewayTimeout(a) ==
  /\ page[a].pending # None
  /\ page' = [page EXCEPT ![a].pending = None]
  /\ UNCHANGED <<released, image, backend, row, handler, script, crashes>>

Crash == /\ backend.up /\ crashes < MaxCrashes
         /\ crashes' = crashes + 1
         /\ backend' = [backend EXCEPT !.up = FALSE]
         /\ handler' = [i \in Installs |-> IF InFlight(i) THEN "cut" ELSE handler[i]]
         /\ Disconnected
         /\ UNCHANGED <<released, image, row, script>>

\* "restart: unless-stopped".  Nothing looks at the rows left RUNNING.
Boot == /\ ~backend.up
        /\ backend' = [backend EXCEPT !.up = TRUE]
        /\ UNCHANGED <<released, image, row, handler, script, page, crashes>>

Handle(i) == Post(i) \/ Unreachable(i) \/ ClientTimeout(i) \/ Finish(i)

RunScript(i) == \/ PullEnds(i) \/ CommandFails(i)
                \/ UpToDate(i) \/ Recreate(i) \/ RecreateUpdater(i)

Next == \/ \E i \in Installs : Handle(i) \/ RunScript(i) \/ ScriptTimeout(i)
        \/ \E a \in Admins : \/ CheckForUpdate(a)
                             \/ \E i \in Installs : Install(a, i)
                             \/ GatewayTimeout(a)
        \/ Release \/ Rebuild \/ Crash \/ Boot

Spec == Init /\ [][Next]_vars

\* A thread that can go on goes on, a command of the script comes to its end
\* one way or the other, and podman restarts what has stopped.
Fairness == /\ \A i \in Installs : WF_vars(Handle(i)) /\ WF_vars(RunScript(i))
            /\ WF_vars(Boot)

FairSpec == Spec /\ Fairness

-----------------------------------------------------------------------------
(* Properties.                                                             *)

\* Every variable has its type.
TypeOK == /\ released \in Versions
          /\ image \in Versions
          /\ backend \in [up: BOOLEAN, version: Versions]
          /\ row \in [Installs -> Row]
          /\ handler \in [Installs -> Handlers]
          /\ script \in [Installs -> Script]
          /\ page \in [Admins -> [check: Check, pending: Installs \cup {None}]]
          /\ crashes \in 0..MaxCrashes

\* The install was reported as a success, or its answer was lost in the restart
\* it brought (the page says "if the update was actually installed ...").
ClaimsSuccess(i) == row[i].status = "SUCCEEDED" \/ handler[i] = "restarted"

\* Such an install leaves the backend at least at the version that was built when
\* it was asked for, and no later one takes that back, whatever timed out,
\* failed, was built, or was clicked again before, meanwhile and after.
SuccessMeansInstalled ==
  \A i \in Installs : ClaimsSuccess(i) => backend.version >= row[i].built

\* The page offers a release exactly when it came after the running version
\* ("1.10.0-rc1" after "v1.9", "1.10.2" after "1.10.0-rc1").
OffersAreNewer ==
  \A a \in Admins : LET check == page[a].check IN
    check.available <=> check.latest > check.current

\* A request to install does not wait for ever: it is answered, unless the
\* backend it was made to has gone.
UpdatesSettle ==
  \A i \in Installs : row[i].status = "RUNNING"
                        ~> row[i].status # "RUNNING" \/ handler[i] \in {"cut", "restarted"}

\* What update_service and the updates page promise: when the backend is back,
\* /api/admin/updates/status tells how the install ended.
InstallsAreReported ==
  \A i \in Installs : row[i].status = "RUNNING" ~> row[i].status \in {"SUCCEEDED", "FAILED"}
=============================================================================
