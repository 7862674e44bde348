------------------------------ MODULE PrintBoard ------------------------------
(***************************************************************************)
(* What the print service promises whoever looks at the jobs, with no      *)
(* requests, drivers or machines.  A job may go astray: it was started on  *)
(* a printer that had one, its requests overlapped, or one was cut off.    *)
(* Then nothing is promised of it, except that it keeps away from the      *)
(* others.  Every other job waits, has a printer to itself, or is over for *)
(* good, and it is finished only after it was printed.                     *)
(***************************************************************************)
CONSTANTS Jobs,       \* the print jobs
          Printers,   \* the printers
          Remote,     \* those that act on a command later than it is given
          NoPrinter   \* a job is on no printer

VARIABLES board,    \* per job, its status and its printer
          printed,  \* the jobs some printer has printed to the end
          astray    \* the jobs of which nothing is promised any more

vars == <<board, printed, astray>>

Active == {"PRINTING", "PAUSED"}

Final == {"FINISHED", "FAILED", "CANCELLED"}

Entry == [status: {"QUEUED"} \cup Active \cup Final, printer: Printers \cup {NoPrinter}]

Init == /\ board = [j \in Jobs |-> [status |-> "QUEUED", printer |-> NoPrinter]]
        /\ printed = {}
        /\ astray = {}

On(p) == {j \in Jobs : board[j].status \in Active /\ board[j].printer = p}

Begin(j, p) ==
  /\ board[j].status = "QUEUED"
  /\ On(p) = {}
  /\ board' = [board EXCEPT ![j] = [status |-> "PRINTING", printer |-> p]]
  /\ UNCHANGED <<printed, astray>>

Moves(j, from, to) ==
  /\ board[j].status \in from
  /\ board' = [board EXCEPT ![j].status = to]
  /\ UNCHANGED <<printed, astray>>

Pause(j) == Moves(j, {"PRINTING"}, "PAUSED")

Resume(j) == Moves(j, {"PAUSED"}, "PRINTING")

Cancel(j) == Moves(j, Active, "CANCELLED")

\* A paused job does not end, unless the printer has ended it before it heard.
Ongoing(j) == IF board[j].printer \in Remote THEN Active ELSE {"PRINTING"}

Finish(j) == j \in printed /\ Moves(j, Ongoing(j), "FINISHED")

Fail(j) == board[j].printer \in Remote /\ Moves(j, Active, "FAILED")

\* A printer comes to the end of a print; the print of a job that is over only
\* if it has not heard yet.
ComesOut(j) ==
  /\ \/ j \in astray
     \/ board[j].status \in {"QUEUED"} \cup Active
     \/ board[j].printer \notin Printers \ Remote
  /\ printed' = printed \cup {j}
  /\ UNCHANGED <<board, astray>>

\* A job gone astray takes no printer that another job has to itself.
Wander(j) ==
  /\ j \in astray
  /\ \E entry \in Entry :
       /\ entry.status \in Active => On(entry.printer) \subseteq astray
       /\ board' = [board EXCEPT ![j] = entry]
  /\ UNCHANGED <<printed, astray>>

GoAstray == /\ \E jobs \in SUBSET Jobs : astray' = astray \cup jobs
            /\ UNCHANGED <<board, printed>>

\* A printer goes away, its jobs stay.
Unplug(p) ==
  /\ \E jobs \in SUBSET Jobs : On(p) \subseteq jobs /\ astray' = astray \cup jobs
  /\ board' = [j \in Jobs |-> IF board[j].printer = p
                              THEN [board[j] EXCEPT !.printer = NoPrinter] ELSE board[j]]
  /\ UNCHANGED printed

Next == \/ \E j \in Jobs : \/ \E p \in Printers : Begin(j, p)
                           \/ Pause(j) \/ Resume(j) \/ Cancel(j)
                           \/ Finish(j) \/ Fail(j) \/ ComesOut(j) \/ Wander(j)
        \/ \E p \in Printers : Unplug(p)
        \/ GoAstray

Spec == Init /\ [][Next]_vars
===============================================================================
