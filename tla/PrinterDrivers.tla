---------------------------- MODULE PrinterDrivers ----------------------------
(***************************************************************************)
(* Printers and the drivers that command them.  A dummy printer lives in   *)
(* the memory of the backend and obeys within the call.  A Bambu printer   *)
(* is reached over MQTT: the driver publishes a command and returns, the   *)
(* printer acts on it later, or never if the message is lost, and a status *)
(* report says what the printer does at the time of the report.            *)
(***************************************************************************)
EXTENDS Naturals, Sequences

CONSTANTS Jobs,         \* the print jobs
          Printers,     \* the printers
          Lan,          \* those driven by BambuLanDriver, the others are dummies
          MailboxSize,  \* bound: commands on their way to one printer
          NoJob         \* what an idle printer works on

ASSUME LanAssumption == Lan \subseteq Printers
ASSUME NoJobAssumption == NoJob \notin Jobs
ASSUME MailboxAssumption == MailboxSize \in Nat

VARIABLES machine,   \* per printer, its PrinterStatus and the job it prints
          mailbox,   \* per printer, the published commands not yet acted on
          printed    \* the jobs some printer has printed to the end

driverVars == <<machine, mailbox, printed>>

\* The statuses a printer can be in; a driver may also report OFFLINE.
PrinterStatuses == {"IDLE", "PRINTING", "PAUSED", "FINISHED", "ERROR"}

Answers == PrinterStatuses \cup {"OFFLINE"}

Commands == [verb: {"start", "pause", "resume", "cancel"}, job: Jobs]

Machine == [status: PrinterStatuses, job: Jobs \cup {NoJob}]

Idle == [status |-> "IDLE", job |-> NoJob]

DriversTypeOK == /\ machine \in [Printers -> Machine]
                 /\ mailbox \in [Printers -> Seq(Commands)]
                 /\ printed \subseteq Jobs

DriversInit == /\ machine = [p \in Printers |-> Idle]
               /\ mailbox = [p \in Printers |-> <<>>]
               /\ printed = {}

\* Mutant: a start keeps the file of the print before.
ObeyOldFile(m, c) ==
  CASE c.verb = "start"  -> [m EXCEPT !.status = "PRINTING"]
    [] c.verb = "pause"  -> [m EXCEPT !.status = "PAUSED"]
    [] c.verb = "resume" -> [m EXCEPT !.status = "PRINTING"]
    [] c.verb = "cancel" -> Idle

\* Mutant: a cancel leaves the print running.
ObeyKeepsPrinting(m, c) ==
  CASE c.verb = "start"  -> [status |-> "PRINTING", job |-> c.job]
    [] c.verb = "pause"  -> [m EXCEPT !.status = "PAUSED"]
    [] c.verb \in {"resume", "cancel"} -> [m EXCEPT !.status = "PRINTING"]

\* What a dummy makes of a command it does not refuse: a start replaces
\* whatever ran, a cancel forgets it.
Obey(m, c) ==
  CASE c.verb = "start"  -> [status |-> "PRINTING", job |-> c.job]
    [] c.verb = "pause"  -> [m EXCEPT !.status = "PAUSED"]
    [] c.verb = "resume" -> [m EXCEPT !.status = "PRINTING"]
    [] c.verb = "cancel" -> Idle

\* DummyDriver raises ValueError for a pause or a resume out of turn.
Takes(m, c) == /\ c.verb = "pause" => m.status = "PRINTING"
               /\ c.verb = "resume" => m.status = "PAUSED"

\* The driver call of a handler, when it returns normally.
Command(p, c) ==
  \/ /\ p \notin Lan
     /\ Takes(machine[p], c)
     /\ machine' = [machine EXCEPT ![p] = Obey(@, c)]
     /\ UNCHANGED <<mailbox, printed>>
  \/ /\ p \in Lan
     /\ Len(mailbox[p]) < MailboxSize
     /\ mailbox' = [mailbox EXCEPT ![p] = Append(@, c)]
     /\ UNCHANGED <<machine, printed>>

\* The driver call of a handler, when it raises.
Refuses(p, c) == p \notin Lan /\ ~Takes(machine[p], c)

\* Mutant: a printer without a print has finished.
ReportsIdleAsFinished(p) ==
  {IF machine[p].status = "IDLE" THEN "FINISHED" ELSE machine[p].status}

\* What driver.get_status() may return: a report without a known gcode_state
\* counts as OFFLINE.
Reports(p) == {machine[p].status} \cup (IF p \in Lan THEN {"OFFLINE"} ELSE {})

-----------------------------------------------------------------------------
(* What a Bambu printer does with a command: it starts nothing while it is *)
(* busy, ignores a command out of turn, and after a stop reports either a  *)
(* failed or no print.                                                     *)

Busy(m) == m.status \in {"PRINTING", "PAUSED"}

Acts(m, c) == /\ Takes(m, c)
              /\ c.verb = "start" => ~Busy(m)
              /\ c.verb = "cancel" => Busy(m)

Receive(p) ==
  /\ mailbox[p] # <<>>
  /\ mailbox' = [mailbox EXCEPT ![p] = Tail(@)]
  /\ LET c == Head(mailbox[p]) IN
       \/ /\ Acts(machine[p], c)
          /\ machine' = [machine EXCEPT ![p] = Obey(@, c)]
       \/ /\ Acts(machine[p], c) /\ c.verb = "cancel"
          /\ machine' = [machine EXCEPT ![p].status = "ERROR"]
       \/ /\ ~Acts(machine[p], c)
          /\ UNCHANGED machine
  /\ UNCHANGED printed

\* A publish that was not flushed before the client disconnected.
Lose(p) ==
  /\ mailbox[p] # <<>>
  /\ mailbox' = [mailbox EXCEPT ![p] = Tail(@)]
  /\ UNCHANGED <<machine, printed>>

PrintEnds(p) ==
  /\ machine[p].status = "PRINTING"
  /\ machine' = [machine EXCEPT ![p].status = "FINISHED"]
  /\ printed' = printed \cup {machine[p].job}
  /\ UNCHANGED mailbox

PrintFails(p) ==
  /\ p \in Lan
  /\ machine[p].status = "PRINTING"
  /\ machine' = [machine EXCEPT ![p].status = "ERROR"]
  /\ UNCHANGED <<mailbox, printed>>

\* The backend restarts: dummies are created anew on their next use.
ForgetDummies ==
  /\ machine' = [p \in Printers |-> IF p \in Lan THEN machine[p] ELSE Idle]
  /\ UNCHANGED <<mailbox, printed>>
=============================================================================
