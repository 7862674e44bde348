----------------------------- MODULE PrintProofs -----------------------------
(***************************************************************************)
(* Theorems about PrintService, for any number of jobs, printers of either *)
(* kind, workers, and commands on their way.                               *)
(***************************************************************************)
EXTENDS PrintService, TLAPS

-----------------------------------------------------------------------------
(* The invariant.                                                          *)

\* A machine that works has a job, and one that has finished has printed it.
MachineOK(m, done) == /\ m \in Machine
                      /\ m.job = NoJob => m = Idle
                      /\ m.status = "FINISHED" => m.job \in done

\* Dummies get no mail and make no errors.
DummyOK(p) == mailbox[p] = <<>> /\ machine[p].status # "ERROR"

Machines == \A p \in Printers : /\ MachineOK(machine[p], printed)
                                /\ p \in Lan \/ DummyOK(p)

\* A request asks and commands printers that exist, or existed, and has
\* commanded nothing its handler does not admit.
RequestOK(x) ==
  /\ x.op = "poll" => x.at \in {"sync", "syncCommit"}
  /\ IF x.op = "start" THEN x.printer \in Printers ELSE x.printer = NoPrinter
  /\ x.at \in {"sync", "syncCommit"} => Asks(x.loaded)
  /\ x.at = "syncCommit" => x.answer \in {"FINISHED", "ERROR"}
  /\ x.at = "commit" => Admits(x.op, x.loaded)

Requested == \A w \in Workers : worker[w] # Resting => RequestOK(worker[w])

Base == TypeOK /\ Machines /\ Requested

Serves(w, j) == worker[w] # Resting /\ worker[w].job = j

Steers(w, j) == Serves(w, j) /\ worker[w].op # "poll"

\* What holds of a job j that has not gone astray.  A request that commands is
\* the only one about j ...
AloneWith(j) == \A v, w \in Workers : Serves(v, j) /\ Steers(w, j) => v = w

\* ... and knows the row as it is.
Current(j) ==
  \A w \in Workers :
    Steers(w, j) => /\ worker[w].loaded.status = rows[j].status
                    /\ rows[j].status \in Active => worker[w].loaded.printer = rows[j].printer

\* The machine has come to the end that the status tells of.
EndOf(m, status) == \/ m.status = "FINISHED" /\ status = "FINISHED"
                    \/ m.status = "ERROR" /\ status = "FAILED"

\* Between the load and the commit of a poll, only other polls change the row.
Polled(j) ==
  \A w \in Workers :
    Serves(w, j) /\ ~Steers(w, j) =>
      \/ worker[w].loaded = rows[j]
      \/ /\ worker[w].loaded.printer = rows[j].printer
         /\ EndOf(machine[rows[j].printer], rows[j].status)

Placed(j) == rows[j].status \in Active => rows[j].printer \in Printers

\* A printer that has j has no other job.
HasToItself(j) == \A p \in Printers : j \in On(p) => On(p) \subseteq {j}

\* It works on nothing else and has no other mail; a start comes first.
Delivered(j) ==
  \A p \in Printers : j \in On(p) =>
    /\ machine[p].job \in {j, NoJob}
    /\ \A i \in DOMAIN mailbox[p] :
         /\ mailbox[p][i].job = j
         /\ mailbox[p][i].verb = "start" => i = 1 /\ machine[p] = Idle

\* A report is still true when it is committed.
Heard(j) == \A w \in Workers :
              Serves(w, j) /\ worker[w].at = "syncCommit" =>
                machine[worker[w].loaded.printer].status = worker[w].answer

\* What a dummy has become by a command about j.
Obeys(m, op, j) == /\ op \in {"start", "resume"} => m.job = j /\ m.status \in {"PRINTING", "FINISHED"}
                   /\ op = "pause" => m.job = j /\ m.status = "PAUSED"
                   /\ op = "cancel" => ~Busy(m)

Obeyed(j) == \A w \in Workers :
               Serves(w, j) /\ worker[w].at = "commit" /\ Destination(w) \notin Lan =>
                 Obeys(machine[Destination(w)], worker[w].op, j)

Followed(j) == rows[j].status \in Active /\ rows[j].printer \notin Lan =>
                 Commanded(j) \/ Follows(j, machine[rows[j].printer])

\* The printer has heard of j.
Knows(p, j) == \/ machine[p].job = j
               \/ \E i \in DOMAIN mailbox[p] : mailbox[p][i].job = j

Starts(w, j, p) == /\ Serves(w, j)
                   /\ worker[w].at = "commit"
                   /\ worker[w].op = "start"
                   /\ worker[w].printer = p

\* No printer but its own knows of j.
KnownAtHome(j) ==
  \A p \in Printers : Knows(p, j) =>
    IF rows[j].status = "QUEUED" THEN \E w \in Workers : Starts(w, j, p)
                                 ELSE rows[j].printer \in {p, NoPrinter}

\* A dummy works on j only as long as the table or a request says so.
NotForgotten(j) ==
  \A p \in Printers \ Lan : Busy(machine[p]) /\ machine[p].job = j => j \in On(p)

Reported(j) == rows[j].status = "FINISHED" => j \in printed

InOrder(j) == /\ AloneWith(j)
              /\ Current(j)
              /\ Polled(j)
              /\ Placed(j)
              /\ HasToItself(j)
              /\ Delivered(j)
              /\ Heard(j)
              /\ Obeyed(j)
              /\ Followed(j)
              /\ KnownAtHome(j)
              /\ NotForgotten(j)
              /\ Reported(j)

IInv == Base /\ \A j \in Jobs \ astray : InOrder(j)

-----------------------------------------------------------------------------
(* Printers.                                                               *)

(* A printer that obeys goes on as a machine should.                       *)
LEMMA ObeyOK ==
  ASSUME NEW done, NEW m, MachineOK(m, done), NEW c \in Commands, Takes(m, c)
  PROVE  /\ MachineOK(Obey(m, c), done)
         /\ Obey(m, c).status \in {"PRINTING", "PAUSED", "IDLE"}
         /\ Obey(m, c).job \in {m.job, c.job, NoJob}
         /\ Busy(Obey(m, c)) /\ c.verb # "start" => Busy(m) /\ Obey(m, c).job = m.job
         /\ c.verb = "start" => Obey(m, c).job = c.job
<1>1. m \in Machine /\ c.job \in Jobs /\ NoJob \notin Jobs
  BY NoJobAssumption DEF MachineOK, Commands
<1>2. CASE c.verb = "start"
  <2>1. Obey(m, c) = [status |-> "PRINTING", job |-> c.job]
    BY <1>2 DEF Obey
  <2> QED
    BY <1>1, <1>2, <2>1 DEF MachineOK, Machine, PrinterStatuses
<1>3. CASE c.verb = "pause"
  <2>1. Obey(m, c) = [m EXCEPT !.status = "PAUSED"] /\ m.status = "PRINTING"
    BY <1>3 DEF Obey, Takes
  <2> QED
    BY <1>1, <1>3, <2>1 DEF MachineOK, Machine, PrinterStatuses, Idle, Busy
<1>4. CASE c.verb = "resume"
  <2>1. Obey(m, c) = [m EXCEPT !.status = "PRINTING"] /\ m.status = "PAUSED"
    BY <1>4 DEF Obey, Takes
  <2> QED
    BY <1>1, <1>4, <2>1 DEF MachineOK, Machine, PrinterStatuses, Idle, Busy
<1>5. CASE c.verb = "cancel"
  <2>1. Obey(m, c) = Idle
    BY <1>5 DEF Obey
  <2> QED
    BY <1>1, <1>5, <2>1 DEF Idle, MachineOK, Machine, PrinterStatuses, Busy
<1> QED
  BY <1>2, <1>3, <1>4, <1>5 DEF Commands

(* A machine at work may come to its end or fail.                          *)
LEMMA EndOK ==
  ASSUME NEW done, NEW m, MachineOK(m, done), Busy(m)
  PROVE  /\ m.job \in Jobs
         /\ MachineOK([m EXCEPT !.status = "ERROR"], done)
         /\ MachineOK([m EXCEPT !.status = "FINISHED"], done \cup {m.job})
BY NoJobAssumption DEF MachineOK, Machine, PrinterStatuses, Busy, Idle

(* One printer changes, and nothing that was printed is forgotten.         *)
LEMMA MachineStep ==
  ASSUME TypeOK, Machines, NEW p \in Printers, NEW m, NEW b \in Seq(Commands),
         machine' = [machine EXCEPT ![p] = m], mailbox' = [mailbox EXCEPT ![p] = b],
         MachineOK(m, printed'), p \in Lan \/ (b = <<>> /\ m.status # "ERROR"),
         printed \subseteq printed', printed' \subseteq Jobs
  PROVE  DriversTypeOK' /\ Machines'
<1>1. /\ machine \in [Printers -> Machine] /\ m \in Machine
      /\ mailbox \in [Printers -> Seq(Commands)]
  BY DEF TypeOK, DriversTypeOK, MachineOK
<1>2. ASSUME NEW q \in Printers
      PROVE  MachineOK(machine'[q], printed') /\ (q \in Lan \/ DummyOK(q)')
  <2>1. MachineOK(machine[q], printed') /\ (q \in Lan \/ DummyOK(q))
    BY DEF Machines, MachineOK
  <2>2. CASE q = p
    BY <1>1, <2>2 DEF DummyOK
  <2>3. CASE q # p
    BY <1>1, <2>1, <2>3 DEF DummyOK
  <2> QED
    BY <2>2, <2>3
<1> QED
  BY <1>1, <1>2 DEF Machines, DriversTypeOK

(* The facts about one printer.                                            *)
LEMMA PrinterFacts ==
  ASSUME TypeOK, Machines, NEW p \in Printers
  PROVE  /\ machine \in [Printers -> Machine]
         /\ mailbox \in [Printers -> Seq(Commands)]
         /\ mailbox[p] \in Seq(Commands)
         /\ printed \subseteq Jobs
         /\ MachineOK(machine[p], printed)
         /\ machine[p] \in Machine
         /\ p \in Lan \/ (mailbox[p] = <<>> /\ machine[p].status # "ERROR")
         /\ machine = [machine EXCEPT ![p] = machine[p]]
         /\ mailbox = [mailbox EXCEPT ![p] = mailbox[p]]
<1>1. machine \in [Printers -> Machine] /\ mailbox \in [Printers -> Seq(Commands)]
  BY DEF TypeOK, DriversTypeOK
<1> QED
  BY <1>1 DEF TypeOK, DriversTypeOK, Machines, DummyOK

(* What the printers do by themselves.                                     *)
LEMMA EnvironmentStep ==
  ASSUME TypeOK, Machines, NEW p \in Printers, Environment(p)
  PROVE  DriversTypeOK' /\ Machines' /\ printed \subseteq printed'
<1>0. /\ mailbox[p] \in Seq(Commands) /\ printed \subseteq Jobs
      /\ MachineOK(machine[p], printed) /\ machine[p] \in Machine
      /\ p \in Lan \/ (mailbox[p] = <<>> /\ machine[p].status # "ERROR")
      /\ machine = [machine EXCEPT ![p] = machine[p]]
      /\ mailbox = [mailbox EXCEPT ![p] = mailbox[p]]
  BY PrinterFacts
<1> USE <1>0
<1>1. ASSUME mailbox[p] # <<>>
      PROVE  p \in Lan /\ Tail(mailbox[p]) \in Seq(Commands) /\ Head(mailbox[p]) \in Commands
  BY <1>1
<1>2. CASE Receive(p)
  <2> DEFINE c == Head(mailbox[p])
             b == Tail(mailbox[p])
  <2>1. /\ p \in Lan /\ b \in Seq(Commands) /\ c \in Commands
        /\ mailbox' = [mailbox EXCEPT ![p] = b] /\ printed' = printed
    BY <1>1, <1>2 DEF Receive
  <2>2. CASE Acts(machine[p], c) /\ machine' = [machine EXCEPT ![p] = Obey(@, c)]
    <3>1. MachineOK(Obey(machine[p], c), printed')
      BY <2>1, <2>2, ObeyOK DEF Acts
    <3>2. machine' = [machine EXCEPT ![p] = Obey(machine[p], c)]
      BY <2>2
    <3> QED
      BY <2>1, <3>1, <3>2, MachineStep
  <2>3. CASE /\ Acts(machine[p], c) /\ c.verb = "cancel"
             /\ machine' = [machine EXCEPT ![p].status = "ERROR"]
    <3>1. MachineOK([machine[p] EXCEPT !.status = "ERROR"], printed')
      BY <2>1, <2>3, EndOK DEF Acts
    <3> QED
      BY <2>1, <2>3, <3>1, MachineStep
  <2>4. CASE UNCHANGED machine
    <3>1. machine' = [machine EXCEPT ![p] = machine[p]] /\ MachineOK(machine[p], printed')
      BY <2>1, <2>4
    <3>2. printed \subseteq printed' /\ printed' \subseteq Jobs
      BY <2>1
    <3> HIDE DEF b, c
    <3>3. DriversTypeOK' /\ Machines'
      BY <2>1, <3>1, <3>2, MachineStep
    <3> QED
      BY <3>2, <3>3
  <2>5. \/ Acts(machine[p], c) /\ machine' = [machine EXCEPT ![p] = Obey(@, c)]
        \/ /\ Acts(machine[p], c) /\ c.verb = "cancel"
           /\ machine' = [machine EXCEPT ![p].status = "ERROR"]
        \/ UNCHANGED machine
    BY <1>2 DEF Receive
  <2> QED
    BY <2>2, <2>3, <2>4, <2>5
<1>3. CASE Lose(p)
  BY <1>1, <1>3, MachineStep DEF Lose
<1>4. CASE PrintEnds(p)
  <2>1. MachineOK([machine[p] EXCEPT !.status = "FINISHED"], printed') /\ printed' \subseteq Jobs
    <3>1. Busy(machine[p]) /\ printed' = printed \cup {machine[p].job}
      BY <1>4 DEF PrintEnds, Busy
    <3>2. /\ machine[p].job \in Jobs
          /\ MachineOK([machine[p] EXCEPT !.status = "FINISHED"], printed \cup {machine[p].job})
      BY <3>1, EndOK
    <3> QED
      BY <3>1, <3>2
  <2>2. [machine[p] EXCEPT !.status = "FINISHED"].status # "ERROR"
    BY DEF Machine
  <2>3. /\ mailbox' = [mailbox EXCEPT ![p] = mailbox[p]] /\ mailbox[p] \in Seq(Commands)
        /\ p \in Lan \/ (mailbox[p] = <<>> /\ [machine[p] EXCEPT !.status = "FINISHED"].status # "ERROR")
    BY <1>4, <2>2 DEF PrintEnds
  <2> QED
    BY <1>4, <2>1, <2>3, MachineStep DEF PrintEnds
<1>5. CASE PrintFails(p)
  <2>1. MachineOK([machine[p] EXCEPT !.status = "ERROR"], printed)
    BY <1>5, EndOK DEF PrintFails, Busy
  <2> QED
    BY <1>5, <2>1, MachineStep DEF PrintFails
<1> QED
  BY <1>2, <1>3, <1>4, <1>5 DEF Environment, Outside

(* A driver that takes a command.                                          *)
LEMMA CommandStep ==
  ASSUME TypeOK, Machines, NEW p \in Printers, NEW c \in Commands, Command(p, c)
  PROVE  DriversTypeOK' /\ Machines' /\ printed' = printed
<1>0. /\ mailbox[p] \in Seq(Commands) /\ printed \subseteq Jobs
      /\ MachineOK(machine[p], printed) /\ machine[p] \in Machine
      /\ p \in Lan \/ (mailbox[p] = <<>> /\ machine[p].status # "ERROR")
      /\ machine = [machine EXCEPT ![p] = machine[p]]
      /\ mailbox = [mailbox EXCEPT ![p] = mailbox[p]]
  BY PrinterFacts
<1> USE <1>0
<1>1. CASE p \notin Lan
  <2>1. MachineOK(Obey(machine[p], c), printed') /\ Obey(machine[p], c).status # "ERROR"
    BY <1>1, ObeyOK DEF Command
  <2>2. machine' = [machine EXCEPT ![p] = Obey(machine[p], c)]
    BY <1>1 DEF Command
  <2> QED
    BY <1>1, <2>1, <2>2, MachineStep DEF Command
<1>2. CASE p \in Lan
  <2>1. Append(mailbox[p], c) \in Seq(Commands)
    OBVIOUS
  <2>2. /\ mailbox' = [mailbox EXCEPT ![p] = Append(mailbox[p], c)]
        /\ machine' = [machine EXCEPT ![p] = machine[p]] /\ MachineOK(machine[p], printed')
        /\ printed' = printed
    BY <1>2 DEF Command
  <2> QED
    BY <1>2, <2>1, <2>2, MachineStep DEF Command
<1> QED
  BY <1>1, <1>2

-----------------------------------------------------------------------------
(* Requests.                                                               *)

(* A worker that serves a request holds a whole request.                   *)
LEMMA ServingFacts ==
  ASSUME Base, NEW w \in Workers
  PROVE  /\ worker[w] # Resting <=> worker[w] \in Serving
         /\ worker[w] # Resting <=> worker[w].at # "idle"
         /\ worker[w] # Resting =>
              /\ worker[w] \in Serving /\ worker[w].job \in Jobs /\ worker[w].loaded \in Row
              /\ RequestOK(worker[w])
BY DEF Base, TypeOK, Requested, Serving, Resting

(* One worker goes on to x.                                                *)
LEMMA WorkerStep ==
  ASSUME Base, NEW w \in Workers, NEW x \in Serving \cup {Resting},
         worker' = [worker EXCEPT ![w] = x], x = Resting \/ RequestOK(x)
  PROVE  worker' \in [Workers -> Serving \cup {Resting}] /\ Requested'
BY DEF Base, TypeOK, Requested

(* A step that touches neither printers nor their registry.                *)
LEMMA TableStep ==
  ASSUME Base, rows' \in [Jobs -> Row], UNCHANGED <<registry, driverVars>>,
         worker' \in [Workers -> Serving \cup {Resting}], Requested',
         astray' \subseteq Jobs
  PROVE  Base'
BY DEF Base, TypeOK, Machines, MachineOK, DummyOK, DriversTypeOK, driverVars

(* A request that ends without a change to the table or the printers.      *)
LEMMA EndingStep ==
  ASSUME Base, NEW w \in Workers, Rests(w), UNCHANGED <<rows, registry, driverVars>>,
         astray' \subseteq Jobs
  PROVE  Base'
<1>1. worker' \in [Workers -> Serving \cup {Resting}] /\ Requested'
  BY WorkerStep DEF Rests
<1> QED
  BY <1>1, TableStep DEF Base, TypeOK

(* What a handler commands, and where.                                     *)
LEMMA OrderFacts ==
  ASSUME Base, NEW w \in Workers, worker[w].at \in {"handle", "commit"},
         Admits(worker[w].op, worker[w].loaded)
  PROVE  /\ worker[w] \in Serving /\ worker[w].op \in {"start", "pause", "resume", "cancel"}
         /\ Destination(w) \in Printers /\ Order(w) \in Commands
         /\ Order(w).job = worker[w].job /\ Order(w).verb = worker[w].op
<1>1. worker[w] \in Serving /\ RequestOK(worker[w])
  BY ServingFacts
<1>2. worker[w].op \in {"start", "pause", "resume", "cancel"} /\ worker[w].job \in Jobs
  BY <1>1 DEF Serving, Admits
<1>3. Order(w) \in Commands
  BY <1>2 DEF Order, Commands
<1>4. Destination(w) \in Printers
  BY <1>1, <1>2 DEF Destination, RequestOK, Admits, Serving, Row
<1> QED
  BY <1>1, <1>2, <1>3, <1>4 DEF Order

(* A request as it is loaded.                                              *)
LEMMA LoadStep ==
  ASSUME Base, NEW w \in Workers, NEW j \in Jobs, NEW op \in Handlers,
         NEW p \in Printers \cup {NoPrinter}, op = "start" <=> p \in Printers,
         op = "poll" => Asks(rows[j]), Load(w, op, j, p)
  PROVE  /\ Base'
         /\ worker[w] = Resting
         /\ \E x \in Serving :
              /\ worker' = [worker EXCEPT ![w] = x]
              /\ x.op = op /\ x.job = j /\ x.loaded = rows[j] /\ x.at \in {"sync", "handle"}
              /\ x.printer = p
         /\ UNCHANGED <<rows, registry, driverVars>>
         /\ astray' = astray \cup (IF Overlap(w, op, j) THEN {j} ELSE {})
<1> DEFINE x == [at |-> IF Asks(rows[j]) THEN "sync" ELSE "handle",
                 op |-> op, job |-> j, loaded |-> rows[j], printer |-> p, answer |-> "IDLE"]
<1>1. rows[j] \in Row
  BY DEF Base, TypeOK
<1>2. x \in Serving /\ x.at \in {"sync", "handle"}
  BY <1>1 DEF Serving, Answers, PrinterStatuses
<1>3. RequestOK(x)
  BY NoPrinterAssumption DEF RequestOK
<1>4. /\ worker' = [worker EXCEPT ![w] = x] /\ worker[w] = Resting
      /\ UNCHANGED <<rows, registry, driverVars>>
      /\ astray' = astray \cup (IF Overlap(w, op, j) THEN {j} ELSE {})
  BY DEF Load, Stray
<1>5. x.op = op /\ x.job = j /\ x.loaded = rows[j] /\ x.printer = p
  OBVIOUS
<1> HIDE DEF x
<1>6. worker' \in [Workers -> Serving \cup {Resting}] /\ Requested'
  BY <1>2, <1>3, <1>4, WorkerStep
<1>7. rows' \in [Jobs -> Row] /\ astray' \subseteq Jobs
  BY <1>4 DEF Base, TypeOK
<1>8. Base'
  BY <1>4, <1>6, <1>7, TableStep
<1> QED
  BY <1>2, <1>4, <1>5, <1>8

(* What becomes of a request when its sync is over.                        *)
LEMMA SyncedFacts ==
  ASSUME NEW x \in Serving, RequestOK(x)
  PROVE  /\ Synced(x) \in Serving \cup {Resting}
         /\ Synced(x) = Resting \/ RequestOK(Synced(x))
         /\ x.op = "poll" => Synced(x) = Resting
         /\ x.op # "poll" => /\ Synced(x) \in Serving /\ Synced(x).at = "handle"
                             /\ Synced(x).op = x.op /\ Synced(x).job = x.job
                             /\ Synced(x).loaded = x.loaded /\ Synced(x).printer = x.printer
<1>1. CASE x.op = "poll"
  BY <1>1 DEF Synced
<1>2. CASE x.op # "poll"
  <2>1. Synced(x) = [x EXCEPT !.at = "handle", !.answer = "IDLE"]
    BY <1>2 DEF Synced
  <2>2. Synced(x) \in Serving
    BY <2>1 DEF Serving, Answers, PrinterStatuses
  <2> QED
    BY <1>2, <2>1, <2>2 DEF Serving, RequestOK
<1> QED
  BY <1>1, <1>2

(* A worker notes an end that the printer it asked reports, or goes on.    *)
LEMMA SyncReadStep ==
  ASSUME Base, NEW w \in Workers, SyncRead(w)
  PROVE  /\ Base'
         /\ worker[w] \in Serving /\ RequestOK(worker[w]) /\ worker[w].at = "sync"
         /\ UNCHANGED <<rows, tables, driverVars>>
         /\ \/ worker' = [worker EXCEPT ![w] = Synced(worker[w])]
            \/ \E x \in Serving :
                 /\ worker' = [worker EXCEPT ![w] = x]
                 /\ x.at = "syncCommit" /\ x.op = worker[w].op /\ x.job = worker[w].job
                 /\ x.loaded = worker[w].loaded /\ x.printer = worker[w].printer
                 /\ x.answer = machine[worker[w].loaded.printer].status
<1>1. worker[w] \in Serving /\ worker[w].at = "sync" /\ RequestOK(worker[w])
  BY ServingFacts DEF SyncRead
<1>2. PICK report \in Reports(worker[w].loaded.printer) :
        worker' = [worker EXCEPT ![w] =
          IF report \in {"FINISHED", "ERROR"}
          THEN [worker[w] EXCEPT !.at = "syncCommit", !.answer = report]
          ELSE Synced(worker[w])]
  BY DEF SyncRead
<1>3. UNCHANGED <<rows, tables, driverVars>>
  BY DEF SyncRead
<1>4. /\ rows' \in [Jobs -> Row] /\ astray' \subseteq Jobs
      /\ UNCHANGED <<registry, driverVars>>
  BY <1>3 DEF Base, TypeOK, tables
<1>5. CASE report \notin {"FINISHED", "ERROR"}
  <2>1. worker' = [worker EXCEPT ![w] = Synced(worker[w])]
    BY <1>2, <1>5
  <2>2. worker' \in [Workers -> Serving \cup {Resting}] /\ Requested'
    BY <1>1, <2>1, SyncedFacts, WorkerStep
  <2>3. Base'
    BY <1>4, <2>2, TableStep
  <2> QED
    BY <1>1, <1>3, <2>1, <2>3
<1>6. CASE report \in {"FINISHED", "ERROR"}
  <2> DEFINE x == [worker[w] EXCEPT !.at = "syncCommit", !.answer = report]
  <2>1. worker' = [worker EXCEPT ![w] = x]
    BY <1>2, <1>6
  <2>2. x \in Serving
    BY <1>1, <1>6 DEF Serving, Answers, PrinterStatuses
  <2>3. /\ x.at = "syncCommit" /\ x.op = worker[w].op /\ x.job = worker[w].job
        /\ x.loaded = worker[w].loaded /\ x.printer = worker[w].printer /\ x.answer = report
    BY <1>1 DEF Serving
  <2>4. RequestOK(x)
    BY <1>1, <1>6, <2>3 DEF RequestOK
  <2>5. report = machine[worker[w].loaded.printer].status
    BY <1>6 DEF Reports
  <2> HIDE DEF x
  <2>6. worker' \in [Workers -> Serving \cup {Resting}] /\ Requested'
    BY <2>1, <2>2, <2>4, WorkerStep
  <2>7. Base'
    BY <1>4, <2>6, TableStep
  <2> QED
    BY <1>1, <1>3, <2>1, <2>2, <2>3, <2>5, <2>7
<1> QED
  BY <1>5, <1>6

\* The status that a sync commits.
Ended(answer) == IF answer = "FINISHED" THEN "FINISHED" ELSE "FAILED"

(* A worker commits the end of a print that it has heard of.               *)
LEMMA SyncCommitStep ==
  ASSUME Base, NEW w \in Workers, SyncCommit(w)
  PROVE  /\ Base'
         /\ worker[w] \in Serving /\ RequestOK(worker[w]) /\ worker[w].at = "syncCommit"
         /\ UNCHANGED <<tables, driverVars>>
         /\ \E row \in Row :
              /\ rows' = [rows EXCEPT ![worker[w].job] = row]
              /\ row.status = Ended(worker[w].answer)
              /\ row.printer = rows[worker[w].job].printer
              /\ \/ worker[w].op = "poll" /\ worker' = [worker EXCEPT ![w] = Resting]
                 \/ /\ worker[w].op # "poll"
                    /\ \E x \in Serving :
                         /\ worker' = [worker EXCEPT ![w] = x]
                         /\ x.at = "handle" /\ x.op = worker[w].op /\ x.job = worker[w].job
                         /\ x.loaded = row /\ x.printer = worker[w].printer
<1> DEFINE j == worker[w].job
           row == [rows[j] EXCEPT !.status = Ended(worker[w].answer)]
           y == [worker[w] EXCEPT !.loaded = row]
<1>1. worker[w] \in Serving /\ worker[w].at = "syncCommit" /\ RequestOK(worker[w]) /\ j \in Jobs
  BY ServingFacts DEF SyncCommit
<1>2. rows[j] \in Row
  BY <1>1 DEF Base, TypeOK
<1>3. row \in Row /\ row.status = Ended(worker[w].answer) /\ row.printer = rows[j].printer
  BY <1>2 DEF Row, Final, Ended
<1>4. /\ rows' = [rows EXCEPT ![j] = row] /\ worker' = [worker EXCEPT ![w] = Synced(y)]
      /\ UNCHANGED <<tables, driverVars>>
  BY DEF SyncCommit, Ended
<1> HIDE DEF row
<1>5. /\ y \in Serving /\ y.op = worker[w].op /\ y.job = j /\ y.loaded = row
      /\ y.printer = worker[w].printer
  BY <1>1, <1>3 DEF Serving
<1> HIDE DEF y
<1>6. CASE worker[w].op = "poll"
  <2>1. worker' = [worker EXCEPT ![w] = Resting]
    BY <1>4, <1>5, <1>6 DEF Synced
  <2>2. worker' \in [Workers -> Serving \cup {Resting}] /\ Requested'
    BY <2>1, WorkerStep
  <2>3. rows' \in [Jobs -> Row] /\ astray' \subseteq Jobs /\ registry' = registry
    BY <1>3, <1>4 DEF Base, TypeOK, tables
  <2>4. Base'
    BY <1>4, <2>2, <2>3, TableStep
  <2> QED
    BY <1>1, <1>3, <1>4, <1>6, <2>1, <2>4
<1>7. CASE worker[w].op # "poll"
  <2> DEFINE x == [y EXCEPT !.at = "handle", !.answer = "IDLE"]
  <2>1. worker' = [worker EXCEPT ![w] = x]
    BY <1>4, <1>5, <1>7 DEF Synced
  <2>2. /\ x \in Serving /\ x.at = "handle" /\ x.op = worker[w].op /\ x.job = j
        /\ x.loaded = row /\ x.printer = worker[w].printer
    BY <1>5 DEF Serving, Answers, PrinterStatuses
  <2>3. RequestOK(x)
    BY <1>1, <1>7, <2>2 DEF RequestOK
  <2> HIDE DEF x
  <2>4. worker' \in [Workers -> Serving \cup {Resting}] /\ Requested'
    BY <2>1, <2>2, <2>3, WorkerStep
  <2>5. rows' \in [Jobs -> Row] /\ astray' \subseteq Jobs /\ registry' = registry
    BY <1>3, <1>4 DEF Base, TypeOK, tables
  <2>6. Base'
    BY <1>4, <2>4, <2>5, TableStep
  <2> QED
    BY <1>1, <1>3, <1>4, <1>7, <2>1, <2>2, <2>6
<1> QED
  BY <1>6, <1>7

(* A handler commands a driver, which prints nothing by that.              *)
LEMMA CallStep ==
  ASSUME Base, NEW w \in Workers, Call(w)
  PROVE  /\ Base'
         /\ worker[w] \in Serving /\ RequestOK(worker[w]) /\ worker[w].at = "handle"
         /\ worker[w].op # "poll" /\ Admits(worker[w].op, worker[w].loaded)
         /\ UNCHANGED <<rows, registry, printed>>
         /\ \E x \in Serving :
              /\ worker' = [worker EXCEPT ![w] = x]
              /\ x.at = "commit" /\ x.op = worker[w].op /\ x.job = worker[w].job
              /\ x.loaded = worker[w].loaded /\ x.printer = worker[w].printer
<1> DEFINE x == [worker[w] EXCEPT !.at = "commit"]
<1>1. worker[w] \in Serving /\ worker[w].at = "handle" /\ RequestOK(worker[w])
  BY ServingFacts DEF Call
<1>2. /\ Destination(w) \in Printers /\ Order(w) \in Commands /\ worker[w].op # "poll"
      /\ Admits(worker[w].op, worker[w].loaded)
  BY <1>1, OrderFacts DEF Call
<1>3. DriversTypeOK' /\ Machines' /\ printed' = printed
  BY <1>2, CommandStep DEF Base, Call
<1>4. /\ x \in Serving /\ x.at = "commit" /\ x.op = worker[w].op /\ x.job = worker[w].job
      /\ x.loaded = worker[w].loaded /\ x.printer = worker[w].printer
  BY <1>1 DEF Serving
<1>5. worker' = [worker EXCEPT ![w] = x] /\ UNCHANGED <<rows, registry>>
  BY DEF Call
<1>6. RequestOK(x)
  BY <1>1, <1>2, <1>4 DEF RequestOK
<1> HIDE DEF x
<1>7. worker' \in [Workers -> Serving \cup {Resting}] /\ Requested'
  BY <1>4, <1>5, <1>6, WorkerStep
<1>8. astray' \subseteq Jobs
  <2>1. Crossed(w) \subseteq Jobs
    BY <1>1 DEF Crossed, On, Serving
  <2> QED
    BY <2>1 DEF Call, Stray, Base, TypeOK
<1>9. Base'
  BY <1>3, <1>5, <1>7, <1>8 DEF Base, TypeOK
<1> QED
  BY <1>1, <1>2, <1>3, <1>4, <1>5, <1>9

(* A handler commits the outcome of its command.                           *)
LEMMA FinishStep ==
  ASSUME Base, NEW w \in Workers, Finish(w)
  PROVE  /\ Base'
         /\ worker[w] \in Serving /\ RequestOK(worker[w]) /\ worker[w].at = "commit"
         /\ Admits(worker[w].op, worker[w].loaded)
         /\ worker' = [worker EXCEPT ![w] = Resting]
         /\ UNCHANGED <<tables, driverVars>>
         /\ \E row \in Row :
              /\ rows' = [rows EXCEPT ![worker[w].job] = row]
              /\ row.status = Outcome[worker[w].op]
              /\ row.printer = IF worker[w].op = "start" THEN worker[w].printer
                                                         ELSE rows[worker[w].job].printer
<1> DEFINE j == worker[w].job
           row == [status  |-> Outcome[worker[w].op],
                   printer |-> IF worker[w].op = "start" THEN worker[w].printer
                                                         ELSE rows[j].printer]
<1>1. /\ worker[w] \in Serving /\ worker[w].at = "commit" /\ RequestOK(worker[w])
      /\ j \in Jobs /\ rows[j] \in Row
  BY ServingFacts DEF Finish, Base, TypeOK
<1>2. worker[w].op \in {"start", "pause", "resume", "cancel"} /\ Admits(worker[w].op, worker[w].loaded)
  BY <1>1, OrderFacts DEF RequestOK
<1>3. /\ rows' = [rows EXCEPT ![j] = row] /\ worker' = [worker EXCEPT ![w] = Resting]
      /\ UNCHANGED <<tables, driverVars>>
  BY DEF Finish, Rests
<1>4. row \in Row
  BY <1>1, <1>2 DEF Row, Active, Final, Serving, Outcome
<1>5. row.status = Outcome[worker[w].op]
      /\ row.printer = IF worker[w].op = "start" THEN worker[w].printer ELSE rows[j].printer
  OBVIOUS
<1> HIDE DEF row
<1>6. worker' \in [Workers -> Serving \cup {Resting}] /\ Requested'
  BY <1>3, WorkerStep
<1>7. rows' \in [Jobs -> Row] /\ astray' \subseteq Jobs /\ registry' = registry
  BY <1>3, <1>4 DEF Base, TypeOK, tables
<1>8. Base'
  BY <1>3, <1>6, <1>7, TableStep
<1> QED
  BY <1>1, <1>2, <1>3, <1>4, <1>5, <1>8

(* Editing or deleting a printer changes no machine and no request.        *)
LEMMA RegistryStep ==
  ASSUME Base, NEW p \in Printers, DeletePrinter(p) \/ UpdatePrinter(p)
  PROVE  Base'
<1>1. rows' \in [Jobs -> Row]
  BY DEF Base, TypeOK, DeletePrinter, UpdatePrinter, Row
<1>2. /\ registry' \in [Printers -> {"ACTIVE", "INACTIVE", "DELETED"}]
      /\ UNCHANGED <<worker, driverVars>>
  BY DEF Base, TypeOK, DeletePrinter, UpdatePrinter
<1>3. astray' \subseteq Jobs
  BY DEF Base, TypeOK, DeletePrinter, UpdatePrinter, Stray, On
<1> QED
  BY <1>1, <1>2, <1>3 DEF Base, TypeOK, Machines, MachineOK, DummyOK, Requested, driverVars,
                          DriversTypeOK

(* A restart leaves dummy printers idle and no request served.             *)
LEMMA RestartStep ==
  ASSUME Base, Restart
  PROVE  Base'
<1>1. MachineOK(Idle, printed) /\ Idle.status # "ERROR"
  BY DEF MachineOK, Idle, Machine, PrinterStatuses
<1>2. machine' = [p \in Printers |-> IF p \in Lan THEN machine[p] ELSE Idle]
      /\ UNCHANGED <<mailbox, printed>>
  BY DEF Restart, ForgetDummies
<1>3. machine' \in [Printers -> Machine] /\ Machines'
  <2>1. ASSUME NEW p \in Printers
        PROVE  MachineOK(machine'[p], printed') /\ (p \in Lan \/ DummyOK(p)')
    BY <1>1, <1>2 DEF Base, Machines, DummyOK, MachineOK
  <2> QED
    BY <1>2, <2>1 DEF Machines, MachineOK
<1>4. worker' \in [Workers -> Serving \cup {Resting}] /\ Requested'
  BY DEF Requested, Restart
<1>5. rows' = rows /\ registry' = registry /\ astray' \subseteq Jobs
  BY DEF Restart, Stray, Base, TypeOK
<1> QED
  BY <1>2, <1>3, <1>4, <1>5 DEF Base, TypeOK, DriversTypeOK

(* Printers start idle and workers at rest.                                *)
LEMMA BaseInit == Init => Base
<1> SUFFICES ASSUME Init PROVE Base
  OBVIOUS
<1>1. MachineOK(Idle, printed) /\ Idle \in Machine /\ Idle.status # "ERROR"
  BY DEF MachineOK, Idle, Machine, PrinterStatuses
<1>2. DriversTypeOK /\ Machines
  BY <1>1 DEF Init, DriversInit, DriversTypeOK, Machines, DummyOK
<1>3. TypeOK /\ Requested
  BY <1>2 DEF Init, TypeOK, Row, Requested
<1> QED
  BY <1>2, <1>3 DEF Base

(* What a printer does by itself changes nothing else.                     *)
LEMMA OutsideStep ==
  ASSUME Base, NEW p \in Printers, Environment(p)
  PROVE  /\ Base' /\ UNCHANGED <<rows, worker, tables>> /\ printed \subseteq printed'
<1>1. DriversTypeOK' /\ Machines' /\ printed \subseteq printed'
  BY EnvironmentStep DEF Base
<1>2. UNCHANGED <<rows, worker, tables>>
  BY DEF Environment, Outside
<1> QED
  BY <1>1, <1>2 DEF Base, TypeOK, Requested, tables

(* Every step keeps types, machines and requests as they should be.        *)
LEMMA BaseStep == Base /\ [Next]_vars => Base'
<1> SUFFICES ASSUME Base, [Next]_vars PROVE Base'
  OBVIOUS
<1>1. ASSUME NEW w \in Workers, Arrive(w) PROVE Base'
  <2>1. ASSUME NEW j \in Jobs, Poll(w, j) PROVE Base'
    BY <2>1, LoadStep, NoPrinterAssumption DEF Poll, Handlers
  <2>2. ASSUME NEW j \in Jobs, Steer(w, j) PROVE Base'
    BY <2>2, LoadStep, NoPrinterAssumption DEF Steer, Handlers
  <2>3. ASSUME NEW j \in Jobs, NEW p \in Printers, Start(w, j, p) PROVE Base'
    BY <2>3, LoadStep DEF Start, Handlers
  <2> QED
    BY <1>1, <2>1, <2>2, <2>3 DEF Arrive
<1>2. ASSUME NEW w \in Workers, Proceed(w) PROVE Base'
  <2>1. ASSUME Answer(w) PROVE Base'
    BY <2>1, EndingStep DEF Answer, tables, Base, TypeOK
  <2>2. ASSUME FinishFails(w) PROVE Base'
    <3>1. worker[w].job \in Jobs
      BY <2>2, ServingFacts DEF FinishFails
    <3> QED
      BY <2>2, <3>1, EndingStep DEF FinishFails, Stray, Base, TypeOK
  <2> QED
    BY <1>2, <2>1, <2>2, SyncReadStep, SyncCommitStep, CallStep, FinishStep DEF Proceed
<1>3. ASSUME NEW w \in Workers, Abort(w) PROVE Base'
  <2>1. worker[w].job \in Jobs
    BY <1>3, ServingFacts DEF Abort
  <2> QED
    BY <1>3, <2>1, EndingStep DEF Abort, Stray, Base, TypeOK
<1>4. ASSUME NEW p \in Printers, DeletePrinter(p) \/ UpdatePrinter(p) PROVE Base'
  BY <1>4, RegistryStep
<1>5. ASSUME NEW p \in Printers, Environment(p) PROVE Base'
  BY <1>5, OutsideStep
<1>6. CASE Restart
  BY <1>6, RestartStep
<1>7. CASE UNCHANGED vars
  BY <1>7 DEF vars, Base, TypeOK, Machines, MachineOK, DummyOK, Requested, DriversTypeOK
<1> QED
  BY <1>1, <1>2, <1>3, <1>4, <1>5, <1>6, <1>7 DEF Next

(* Every variable has its type, for any number of jobs, printers, workers  *)
(* and commands on their way, and under every fault.                       *)
THEOREM TypeCorrectness == Spec => []TypeOK
<1>1. Base => TypeOK
  BY DEF Base
<1> QED
  BY BaseInit, BaseStep, <1>1, PTL DEF Spec

-----------------------------------------------------------------------------
(* Who is on a printer.                                                    *)

(* A job is on a printer by its row or by a request.                       *)
LEMMA OnFacts ==
  ASSUME NEW p \in Printers, NEW j \in Jobs
  PROVE  j \in On(p) <=> \/ OnPrinter(rows[j], p)
                         \/ \E w \in Workers : Serves(w, j) /\ Holds(worker[w], p)
BY DEF On, Serves

\* A step of a request about j, or of none.
OnlyAbout(w, j) == /\ \A l \in Jobs \ {j} : rows'[l] = rows[l]
                   /\ \A v \in Workers \ {w} : worker'[v] = worker[v]
                   /\ worker[w] # Resting => worker[w].job = j
                   /\ worker'[w] # Resting => worker'[w].job = j

(* Such a step leaves the other jobs where they are.                       *)
LEMMA OthersStay ==
  ASSUME NEW w \in Workers, NEW j \in Jobs, OnlyAbout(w, j),
         NEW k \in Jobs \ {j}
  PROVE  /\ rows'[k] = rows[k]
         /\ \A v \in Workers : Serves(v, k) \/ Serves(v, k)' => worker'[v] = worker[v]
         /\ \A p \in Printers : k \in On(p)' <=> k \in On(p)
<1>1. rows'[k] = rows[k]
  BY DEF OnlyAbout
<1>2. \A v \in Workers : Serves(v, k) \/ Serves(v, k)' => v # w
  BY DEF Serves, OnlyAbout
<1>3. \A v \in Workers : Serves(v, k) \/ Serves(v, k)' => worker'[v] = worker[v]
  BY <1>2 DEF OnlyAbout
<1>4. ASSUME NEW p \in Printers PROVE k \in On(p)' <=> k \in On(p)
  BY <1>1, <1>3 DEF On, Serves, Holds
<1> QED
  BY <1>1, <1>3, <1>4

\* Nothing of what concerns k changes.
Untouched(k) ==
  /\ rows'[k] = rows[k]
  /\ printed \subseteq printed'
  /\ \A w \in Workers : Serves(w, k) \/ Serves(w, k)' => worker'[w] = worker[w]
  /\ \A p \in Printers : k \in On(p) => /\ machine'[p] = machine[p]
                                        /\ mailbox'[p] = mailbox[p]
                                        /\ On(p)' \subseteq On(p)
  /\ \A p \in Printers : Knows(p, k)' => Knows(p, k)
  /\ \A p \in Printers \ Lan : Busy(machine'[p]) /\ machine'[p].job = k => k \in On(p)

(* The printer a request asks or commands is one its job is on.            *)
LEMMA AskedIsOn ==
  ASSUME Base, NEW w \in Workers, NEW j \in Jobs, Serves(w, j)
  PROVE  /\ worker[w].loaded.status \in Active /\ worker[w].loaded.printer # NoPrinter
              => worker[w].loaded.printer \in Printers /\ j \in On(worker[w].loaded.printer)
         /\ worker[w].at \in {"sync", "syncCommit"}
              => /\ worker[w].loaded.status \in Active
                 /\ worker[w].loaded.printer \in Printers
                 /\ j \in On(worker[w].loaded.printer)
         /\ worker[w].at = "commit"
              => Destination(w) \in Printers /\ j \in On(Destination(w))
<1>1. worker[w] \in Serving /\ worker[w].loaded \in Row /\ RequestOK(worker[w])
  BY ServingFacts DEF Serves
<1>2. ASSUME worker[w].loaded.status \in Active, worker[w].loaded.printer # NoPrinter
      PROVE  worker[w].loaded.printer \in Printers /\ j \in On(worker[w].loaded.printer)
  <2>1. worker[w].loaded.printer \in Printers
    BY <1>1, <1>2 DEF Row
  <2> QED
    BY <1>2, <2>1, OnFacts DEF Holds
<1>3. CASE worker[w].at \in {"sync", "syncCommit"}
  BY <1>1, <1>2, <1>3 DEF RequestOK, Asks
<1>4. CASE worker[w].at = "commit"
  <2>1. /\ Admits(worker[w].op, worker[w].loaded) /\ Destination(w) \in Printers
        /\ worker[w].op \in {"start", "pause", "resume", "cancel"}
    BY <1>1, <1>4, OrderFacts DEF RequestOK
  <2>2. ASSUME worker[w].op = "start" PROVE j \in On(Destination(w))
    <3>1. Destination(w) = worker[w].printer
      BY <2>2 DEF Destination
    <3>2. Holds(worker[w], worker[w].printer)
      BY <1>4 DEF Holds
    <3> QED
      BY <3>1, <3>2 DEF On, Serves
  <2>3. ASSUME worker[w].op # "start" PROVE j \in On(Destination(w))
    BY <1>2, <2>1, <2>3 DEF Admits, Active, Destination
  <2> QED
    BY <1>2, <1>4, <2>1, <2>2, <2>3
<1> QED
  BY <1>1, <1>2, <1>3, <1>4 DEF Serving

(* A job that nothing touches stays in order.                              *)
LEMMA StaysInOrder ==
  ASSUME Base, NEW k \in Jobs, InOrder(k), Untouched(k)
  PROVE  InOrder(k)'
<1>1. /\ rows'[k] = rows[k]
      /\ \A w \in Workers : Serves(w, k)' <=> Serves(w, k)
      /\ \A w \in Workers : Steers(w, k)' <=> Steers(w, k)
      /\ \A w \in Workers : Serves(w, k) => worker'[w] = worker[w]
  BY DEF Untouched, Serves, Steers
<1>2. \A p \in Printers : k \in On(p)' <=> k \in On(p)
  BY <1>1 DEF On, Serves, Holds
<1>3. \A p \in Printers : k \in On(p) => /\ machine'[p] = machine[p]
                                         /\ mailbox'[p] = mailbox[p]
                                         /\ On(p)' \subseteq On(p)
  BY DEF Untouched
<1>4. AloneWith(k)' /\ Current(k)' /\ Placed(k)'
  BY <1>1 DEF InOrder, AloneWith, Current, Placed, Serves, Steers
<1>5. HasToItself(k)' /\ Delivered(k)'
  BY <1>2, <1>3 DEF InOrder, HasToItself, Delivered
<1>6. Polled(k)'
  <2> SUFFICES ASSUME NEW w \in Workers, Serves(w, k), ~Steers(w, k)
               PROVE  \/ worker[w].loaded = rows[k]
                      \/ /\ worker[w].loaded.printer = rows[k].printer
                         /\ EndOf(machine'[rows[k].printer], rows[k].status)
    BY <1>1 DEF Polled
  <2>1. worker[w].at \in {"sync", "syncCommit"}
    BY ServingFacts DEF Serves, Steers, RequestOK
  <2>2. machine'[worker[w].loaded.printer] = machine[worker[w].loaded.printer]
    BY <1>3, <2>1, AskedIsOn
  <2> QED
    BY <2>2 DEF InOrder, Polled
<1>7. Heard(k)'
  <2> SUFFICES ASSUME NEW w \in Workers, Serves(w, k), worker[w].at = "syncCommit"
               PROVE  machine'[worker[w].loaded.printer].status = worker[w].answer
    BY <1>1 DEF Heard
  <2> QED
    BY <1>3, AskedIsOn DEF InOrder, Heard
<1>8. Obeyed(k)'
  <2> SUFFICES ASSUME NEW w \in Workers, Serves(w, k), worker[w].at = "commit",
                      Destination(w) \notin Lan
               PROVE  Obeys(machine'[Destination(w)], worker[w].op, k)
    BY <1>1 DEF Obeyed, Destination
  <2> QED
    BY <1>3, AskedIsOn DEF InOrder, Obeyed
<1>9. Followed(k)'
  <2> SUFFICES ASSUME rows[k].status \in Active, rows[k].printer \notin Lan, ~Commanded(k)
               PROVE  Follows(k, machine[rows[k].printer])' 
    <3>1. Commanded(k) => Commanded(k)'
      BY <1>1, ServingFacts DEF Commanded, Serves
    <3> QED
      BY <1>1, <3>1 DEF Followed
  <2>1. rows[k].printer \in Printers /\ k \in On(rows[k].printer)
    BY OnFacts DEF InOrder, Placed, OnPrinter
  <2>2. machine'[rows[k].printer] = machine[rows[k].printer]
    BY <1>3, <2>1
  <2> QED
    BY <1>1, <2>2 DEF InOrder, Followed, Follows
<1>10. KnownAtHome(k)'
  BY <1>1 DEF InOrder, KnownAtHome, Starts, Untouched
<1>11. NotForgotten(k)' /\ Reported(k)'
  BY <1>1, <1>2 DEF InOrder, NotForgotten, Reported, Untouched
<1> QED
  BY <1>4, <1>5, <1>6, <1>7, <1>8, <1>9, <1>10, <1>11 DEF InOrder

(* A step about j leaves k in order, if j takes no printer from k and no   *)
(* printer changes that k is on.                                           *)
LEMMA OthersInOrder ==
  ASSUME Base, NEW w \in Workers, NEW j \in Jobs, OnlyAbout(w, j),
         NEW k \in Jobs \ {j}, InOrder(k), printed \subseteq printed',
         \A p \in Printers : k \in On(p) => /\ machine'[p] = machine[p]
                                            /\ mailbox'[p] = mailbox[p]
                                            /\ j \in On(p)' => j \in On(p),
         \A p \in Printers : Knows(p, k)' => Knows(p, k),
         \A p \in Printers \ Lan : Busy(machine'[p]) /\ machine'[p].job = k => k \in On(p)
  PROVE  InOrder(k)'
<1>1. /\ rows'[k] = rows[k]
      /\ \A v \in Workers : Serves(v, k) \/ Serves(v, k)' => worker'[v] = worker[v]
  BY OthersStay
<1>2. ASSUME NEW p \in Printers, k \in On(p) PROVE On(p)' \subseteq On(p)
  <2>1. On(p)' \subseteq Jobs
    BY DEF On
  <2>2. ASSUME NEW l \in On(p)' PROVE l \in On(p)
    BY <1>2, <2>1, <2>2, OthersStay
  <2> QED
    BY <2>2
<1> QED
  BY <1>1, <1>2, StaysInOrder DEF Untouched

(* A step that changes no printer and puts j on none leaves the other jobs *)
(* in order, and leaves to j the printer that it had to itself.            *)
LEMMA QuietStep ==
  ASSUME Base, NEW w \in Workers, NEW j \in Jobs, OnlyAbout(w, j), UNCHANGED driverVars,
         \A p \in Printers : j \in On(p)' => j \in On(p)
  PROVE  /\ \A k \in Jobs \ {j} : InOrder(k) => InOrder(k)'
         /\ InOrder(j) => HasToItself(j)' /\ Delivered(j)'
<1>1. machine' = machine /\ mailbox' = mailbox /\ printed' = printed
  BY DEF driverVars
<1>2. ASSUME NEW k \in Jobs \ {j}, InOrder(k) PROVE InOrder(k)'
  <2>1. \A p \in Printers : Knows(p, k)' => Knows(p, k)
    BY <1>1 DEF Knows
  <2>2. \A p \in Printers \ Lan : Busy(machine'[p]) /\ machine'[p].job = k => k \in On(p)
    BY <1>1, <1>2 DEF InOrder, NotForgotten
  <2> QED
    BY <1>1, <1>2, <2>1, <2>2, OthersInOrder
<1>3. ASSUME InOrder(j) PROVE HasToItself(j)' /\ Delivered(j)'
  <2>1. ASSUME NEW p \in Printers, j \in On(p)'
        PROVE  On(p)' \subseteq {j} /\ j \in On(p)
    <3>1. On(p) \subseteq {j} /\ j \in On(p)
      BY <1>3, <2>1 DEF InOrder, HasToItself
    <3>2. On(p)' \subseteq Jobs
      BY DEF On
    <3>3. ASSUME NEW l \in On(p)' PROVE l = j
      BY <3>1, <3>2, <3>3, OthersStay
    <3> QED
      BY <3>1, <3>3
  <2> QED
    BY <1>1, <1>3, <2>1 DEF InOrder, HasToItself, Delivered
<1> QED
  BY <1>2, <1>3

(* A request is loaded.                                                    *)
LEMMA LoadInOrder ==
  ASSUME IInv, NEW w \in Workers, NEW j \in Jobs, NEW op \in Handlers,
         NEW p \in Printers \cup {NoPrinter}, op = "start" <=> p \in Printers,
         op = "poll" => Asks(rows[j]), Load(w, op, j, p)
  PROVE  IInv'
<1>1. /\ Base' /\ worker[w] = Resting /\ UNCHANGED <<rows, registry, driverVars>>
      /\ astray' = astray \cup (IF Overlap(w, op, j) THEN {j} ELSE {})
  BY LoadStep DEF IInv
<1>2. PICK x \in Serving :
        /\ worker' = [worker EXCEPT ![w] = x]
        /\ x.op = op /\ x.job = j /\ x.loaded = rows[j] /\ x.at \in {"sync", "handle"}
        /\ x.printer = p
  BY LoadStep DEF IInv
<1>3. /\ worker'[w] = x /\ x # Resting
      /\ \A v \in Workers \ {w} : worker'[v] = worker[v]
  BY <1>2 DEF IInv, Base, TypeOK, Serving, Resting
<1>4. OnlyAbout(w, j)
  BY <1>1, <1>2, <1>3 DEF OnlyAbout
<1>5. /\ \A v \in Workers : Serves(v, j)' <=> Serves(v, j) \/ v = w
      /\ \A v \in Workers : Serves(v, j) => v # w /\ worker'[v] = worker[v]
  BY <1>1, <1>2, <1>3 DEF Serves
<1>6. ASSUME NEW q \in Printers, j \in On(q)' PROVE j \in On(q)
  <2>1. CASE OnPrinter(rows[j], q)
    BY <2>1, OnFacts
  <2>2. CASE ~OnPrinter(rows[j], q)
    <3>1. PICK v \in Workers : Serves(v, j)' /\ Holds(worker[v], q)'
      BY <1>1, <1>6, <2>2 DEF On, Serves
    <3>2. v # w
      BY <1>1, <1>2, <1>3, <2>2, <3>1 DEF Holds, OnPrinter
    <3> QED
      BY <1>1, <1>3, <1>5, <3>1, <3>2, OnFacts DEF Holds
  <2> QED
    BY <2>1, <2>2
<1>7. ASSUME NEW k \in Jobs \ astray', k # j PROVE InOrder(k)'
  BY <1>1, <1>4, <1>6, <1>7, QuietStep DEF IInv
<1>8. ASSUME j \notin astray' PROVE InOrder(j)'
  <2>1. InOrder(j) /\ ~Overlap(w, op, j)
    BY <1>1, <1>8 DEF IInv
  <2>2. \A v \in Workers : Serves(v, j) => op = "poll" /\ worker[v].op = "poll"
    BY <1>5, <2>1 DEF Overlap, Serves
  <2>3. HasToItself(j)' /\ Delivered(j)'
    BY <1>1, <1>4, <1>6, <2>1, QuietStep DEF IInv
  <2>4. AloneWith(j)'
    BY <1>2, <1>3, <1>5, <2>2 DEF AloneWith, Steers
  <2>5. Current(j)'
    BY <1>1, <1>2, <1>3, <1>5, <2>1 DEF Current, Steers, InOrder
  <2>6. Polled(j)'
    <3> SUFFICES ASSUME NEW v \in Workers, Serves(v, j)', ~Steers(v, j)'
                 PROVE  \/ worker'[v].loaded = rows[j]
                        \/ /\ worker'[v].loaded.printer = rows[j].printer
                           /\ EndOf(machine[rows[j].printer], rows[j].status)
      BY <1>1 DEF Polled, driverVars
    <3>1. CASE v = w
      BY <1>2, <1>3, <3>1
    <3>2. CASE v # w
      BY <1>3, <1>5, <2>1, <3>2 DEF InOrder, Polled, Steers, Serves
    <3> QED
      BY <3>1, <3>2
  <2>7. Heard(j)'
    BY <1>1, <1>2, <1>3, <1>5, <2>1 DEF InOrder, Heard, driverVars
  <2>8. Obeyed(j)'
    BY <1>1, <1>2, <1>3, <1>5, <2>1 DEF InOrder, Obeyed, driverVars, Destination
  <2>9. Followed(j)'
    <3>1. Commanded(j) => Commanded(j)'
      BY <1>1, <1>3 DEF Commanded, Resting
    <3> QED
      BY <1>1, <2>1, <3>1 DEF InOrder, Followed, Follows, driverVars
  <2>10. KnownAtHome(j)'
    <3>1. \A v \in Workers, q \in Printers : Starts(v, j, q) => Starts(v, j, q)'
      BY <1>3, <1>5 DEF Starts
    <3> QED
      BY <1>1, <2>1, <3>1 DEF InOrder, KnownAtHome, Knows, driverVars
  <2>11. NotForgotten(j)'
    <3>1. ASSUME NEW q \in Printers, j \in On(q) PROVE j \in On(q)'
      BY <1>1, <1>5, <3>1 DEF On, Holds, Serves
    <3> QED
      BY <1>1, <2>1, <3>1 DEF InOrder, NotForgotten, driverVars
  <2>12. Placed(j)' /\ Reported(j)'
    BY <1>1, <2>1 DEF InOrder, Placed, Reported, driverVars
  <2> QED
    BY <2>3, <2>4, <2>5, <2>6, <2>7, <2>8, <2>9, <2>10, <2>11, <2>12 DEF InOrder
<1> QED
  BY <1>1, <1>7, <1>8 DEF IInv

(* A printer at work that a request has found its job on is the one in the *)
(* row, unless the request has just commanded it.                          *)
LEMMA RowKeeps ==
  ASSUME NEW j \in Jobs, InOrder(j), NEW w \in Workers, Serves(w, j),
         worker[w].at # "commit", NEW q \in Printers, Holds(worker[w], q), Busy(machine[q])
  PROVE  OnPrinter(rows[j], q)
<1>1. /\ worker[w].loaded.status \in Active
      /\ q \in {worker[w].loaded.printer, rows[j].printer}
  BY DEF Holds, Serves
<1>2. CASE Steers(w, j)
  BY <1>1, <1>2 DEF InOrder, Current, OnPrinter
<1>3. CASE ~Steers(w, j)
  BY <1>1, <1>3 DEF InOrder, Polled, OnPrinter, EndOf, Busy
<1> QED
  BY <1>2, <1>3

(* A request ends without a change; if it had commanded, its job is astray.*)
LEMMA RestInOrder ==
  ASSUME IInv, NEW w \in Workers, worker[w] # Resting, Rests(w),
         UNCHANGED <<rows, registry, driverVars>>, astray \subseteq astray',
         worker[w].at = "commit" => worker[w].job \in astray',
         NEW k \in Jobs \ astray'
  PROVE  InOrder(k)'
<1>1. PICK j \in Jobs : j = worker[w].job
  BY ServingFacts DEF IInv
<1>2. /\ worker'[w] = Resting
      /\ \A v \in Workers \ {w} : worker'[v] = worker[v]
  BY DEF Rests, IInv, Base, TypeOK
<1>3. OnlyAbout(w, j)
  BY <1>1, <1>2 DEF OnlyAbout
<1>4. /\ Serves(w, j) /\ ~Serves(w, j)'
      /\ \A v \in Workers : Serves(v, j)' <=> Serves(v, j) /\ v # w
  BY <1>1, <1>2 DEF Serves
<1>5. ASSUME NEW q \in Printers, j \in On(q)' PROVE j \in On(q)
  BY <1>1, <1>2, <1>5 DEF On, Holds
<1>6. CASE k # j
  BY <1>1, <1>3, <1>5, <1>6, QuietStep DEF IInv
<1>7. CASE k = j
  <2>1. InOrder(j) /\ worker[w].at # "commit"
    BY <1>1, <1>7 DEF IInv
  <2>2. HasToItself(j)' /\ Delivered(j)'
    BY <1>1, <1>3, <1>5, <2>1, QuietStep DEF IInv
  <2>3. AloneWith(j)' /\ Current(j)' /\ Polled(j)'
    BY <1>2, <1>4, <2>1 DEF InOrder, AloneWith, Current, Polled, Steers, driverVars
  <2>4. Heard(j)' /\ Obeyed(j)'
    BY <1>2, <1>4, <2>1 DEF InOrder, Heard, Obeyed, Destination, driverVars
  <2>5. Followed(j)'
    <3>1. Commanded(j) => Commanded(j)'
      BY <1>2, <2>1 DEF Commanded
    <3> QED
      BY <2>1, <3>1 DEF InOrder, Followed, Follows, driverVars
  <2>6. KnownAtHome(j)'
    <3>1. \A v \in Workers, q \in Printers : Starts(v, j, q) => Starts(v, j, q)'
      BY <1>2, <1>4, <2>1 DEF Starts
    <3> QED
      BY <2>1, <3>1 DEF InOrder, KnownAtHome, Knows, driverVars
  <2>7. NotForgotten(j)'
    <3>1. ASSUME NEW q \in Printers, j \in On(q), Busy(machine[q]) PROVE j \in On(q)'
      <4>1. \/ OnPrinter(rows[j], q)
            \/ \E v \in Workers : v # w /\ Serves(v, j) /\ Holds(worker[v], q)
        BY <1>1, <1>4, <2>1, <3>1, OnFacts, RowKeeps
      <4> QED
        BY <1>1, <1>2, <4>1 DEF On, Holds, Serves
    <3> QED
      BY <2>1, <3>1 DEF InOrder, NotForgotten, driverVars
  <2>8. Placed(j)' /\ Reported(j)'
    BY <2>1 DEF InOrder, Placed, Reported, driverVars
  <2> QED
    BY <1>7, <2>2, <2>3, <2>4, <2>5, <2>6, <2>7, <2>8 DEF InOrder
<1> QED
  BY <1>6, <1>7

(* A request goes on to x with the object it has, after it was answered.   *)
LEMMA GoesOnInOrder ==
  ASSUME IInv, NEW w \in Workers, worker[w].at = "sync",
         UNCHANGED <<rows, tables, driverVars>>, NEW x \in Serving,
         worker' = [worker EXCEPT ![w] = x],
         x.op = worker[w].op, x.job = worker[w].job, x.loaded = worker[w].loaded,
         x.printer = worker[w].printer, x.at \in {"handle", "syncCommit"},
         x.at = "syncCommit" => x.answer = machine[worker[w].loaded.printer].status,
         NEW k \in Jobs \ astray'
  PROVE  InOrder(k)'
<1> DEFINE j == worker[w].job
<1>1. worker[w] # Resting /\ x # Resting /\ j \in Jobs /\ x.at # "commit"
  BY ServingFacts DEF IInv, Resting, Serving
<1>2. /\ worker'[w] = x /\ astray' = astray
      /\ \A v \in Workers \ {w} : worker'[v] = worker[v]
  BY DEF IInv, Base, TypeOK, tables
<1>3. OnlyAbout(w, j)
  BY <1>2 DEF OnlyAbout
<1>4. /\ \A v \in Workers : Serves(v, j)' <=> Serves(v, j)
      /\ \A v \in Workers : Steers(v, j)' <=> Steers(v, j)
      /\ Serves(w, j)
      /\ \A v \in Workers : worker'[v].loaded = worker[v].loaded
  BY <1>1, <1>2 DEF Serves, Steers
<1>5. ASSUME NEW q \in Printers PROVE j \in On(q)' <=> j \in On(q)
  BY <1>1, <1>2 DEF On, Holds
<1>6. CASE k # j
  BY <1>1, <1>2, <1>3, <1>5, <1>6, QuietStep DEF IInv
<1>7. CASE k = j
  <2>1. InOrder(j)
    BY <1>2, <1>7 DEF IInv
  <2>2. HasToItself(j)' /\ Delivered(j)'
    BY <1>1, <1>3, <1>5, <2>1, QuietStep DEF IInv
  <2>3. AloneWith(j)' /\ Current(j)' /\ Polled(j)'
    BY <1>4, <2>1 DEF InOrder, AloneWith, Current, Polled, driverVars
  <2>4. Heard(j)' /\ Obeyed(j)'
    BY <1>1, <1>2, <1>4, <2>1 DEF InOrder, Heard, Obeyed, Destination, driverVars
  <2>5. Followed(j)'
    <3>1. Commanded(j) => Commanded(j)'
      BY <1>2 DEF Commanded
    <3> QED
      BY <2>1, <3>1 DEF InOrder, Followed, Follows, driverVars
  <2>6. KnownAtHome(j)'
    <3>1. \A v \in Workers, q \in Printers : Starts(v, j, q) => Starts(v, j, q)'
      BY <1>2, <1>4 DEF Starts
    <3> QED
      BY <2>1, <3>1 DEF InOrder, KnownAtHome, Knows, driverVars
  <2>7. NotForgotten(j)' /\ Placed(j)' /\ Reported(j)'
    BY <1>5, <2>1 DEF InOrder, NotForgotten, Placed, Reported, driverVars
  <2> QED
    BY <1>7, <2>2, <2>3, <2>4, <2>5, <2>6, <2>7 DEF InOrder
<1> QED
  BY <1>6, <1>7

(* A report is read.                                                       *)
LEMMA SyncReadInOrder ==
  ASSUME IInv, NEW w \in Workers, SyncRead(w)
  PROVE  IInv'
<1>1. /\ Base' /\ worker[w] \in Serving /\ RequestOK(worker[w]) /\ worker[w].at = "sync"
      /\ UNCHANGED <<rows, tables, driverVars>>
      /\ \/ worker' = [worker EXCEPT ![w] = Synced(worker[w])]
         \/ \E x \in Serving :
              /\ worker' = [worker EXCEPT ![w] = x]
              /\ x.at = "syncCommit" /\ x.op = worker[w].op /\ x.job = worker[w].job
              /\ x.loaded = worker[w].loaded /\ x.printer = worker[w].printer
              /\ x.answer = machine[worker[w].loaded.printer].status
  BY SyncReadStep DEF IInv
<1>2. /\ worker[w] # Resting /\ astray' = astray
      /\ UNCHANGED <<rows, registry, driverVars>>
  BY <1>1, ServingFacts DEF IInv, tables
<1> SUFFICES ASSUME NEW k \in Jobs \ astray' PROVE InOrder(k)'
  BY <1>1 DEF IInv
<1>3. CASE worker' = [worker EXCEPT ![w] = Synced(worker[w])]
  <2>1. CASE worker[w].op = "poll"
    <3>1. Rests(w)
      BY <1>1, <1>3, <2>1, SyncedFacts DEF Rests
    <3> QED
      BY <1>1, <1>2, <3>1, RestInOrder
  <2>2. CASE worker[w].op # "poll"
    <3> DEFINE x == Synced(worker[w])
    <3>1. /\ x \in Serving /\ x.at = "handle" /\ x.op = worker[w].op /\ x.job = worker[w].job
          /\ x.loaded = worker[w].loaded /\ x.printer = worker[w].printer
      BY <1>1, <2>2, SyncedFacts
    <3> HIDE DEF x
    <3> QED
      BY <1>1, <1>3, <3>1, GoesOnInOrder DEF x
  <2> QED
    BY <2>1, <2>2
<1>4. ASSUME NEW x \in Serving,
             worker' = [worker EXCEPT ![w] = x],
             x.at = "syncCommit", x.op = worker[w].op, x.job = worker[w].job,
             x.loaded = worker[w].loaded, x.printer = worker[w].printer,
             x.answer = machine[worker[w].loaded.printer].status
      PROVE  InOrder(k)'
  BY <1>1, <1>4, GoesOnInOrder
<1> QED
  BY <1>1, <1>3, <1>4

(* What the handlers admit, by the status of the loaded row.               *)
LEMMA AdmitsFacts ==
  ASSUME NEW op, NEW row \in Row, Admits(op, row)
  PROVE  /\ op \in {"start", "pause", "resume", "cancel"}
         /\ op = "start" => row.status = "QUEUED"
         /\ op # "start" => row.status \in Active /\ row.printer \in Printers
         /\ op = "pause" => row.status = "PRINTING"
         /\ op = "resume" => row.status = "PAUSED"
<1>1. Allowed(row.status, "READY_TO_PRINT") => row.status = "QUEUED"
  BY DEF Row, Active, Final, Allowed, AllowedTransitions
<1> QED
  BY <1>1 DEF Admits, Active, Row

(* A report is committed.                                                  *)
LEMMA SyncCommitInOrder ==
  ASSUME IInv, NEW w \in Workers, SyncCommit(w)
  PROVE  IInv'
<1>1. /\ Base' /\ worker[w] \in Serving /\ RequestOK(worker[w]) /\ worker[w].at = "syncCommit"
      /\ UNCHANGED <<tables, driverVars>>
  BY SyncCommitStep DEF IInv
<1>2. PICK row \in Row :
        /\ rows' = [rows EXCEPT ![worker[w].job] = row]
        /\ row.status = Ended(worker[w].answer)
        /\ row.printer = rows[worker[w].job].printer
        /\ \/ worker[w].op = "poll" /\ worker' = [worker EXCEPT ![w] = Resting]
           \/ /\ worker[w].op # "poll"
              /\ \E x \in Serving :
                   /\ worker' = [worker EXCEPT ![w] = x]
                   /\ x.at = "handle" /\ x.op = worker[w].op /\ x.job = worker[w].job
                   /\ x.loaded = row /\ x.printer = worker[w].printer
  BY SyncCommitStep DEF IInv
<1>3. PICK j \in Jobs : j = worker[w].job
  BY ServingFacts, <1>1 DEF IInv
<1>4. PICK p \in Printers : p = worker[w].loaded.printer
  BY <1>1, <1>3, AskedIsOn DEF IInv, Serves, Resting
<1>5. /\ \A v \in Workers \ {w} : worker'[v] = worker[v]
      /\ \/ worker[w].op = "poll" /\ worker'[w] = Resting
         \/ /\ worker[w].op # "poll" /\ worker'[w] \in Serving
            /\ worker'[w].at = "handle" /\ worker'[w].op = worker[w].op /\ worker'[w].job = j
            /\ worker'[w].loaded = row /\ worker'[w].printer = worker[w].printer
  BY <1>2, <1>3 DEF IInv, Base, TypeOK
<1>6. /\ rows'[j] = row /\ \A l \in Jobs \ {j} : rows'[l] = rows[l]
      /\ row.printer = rows[j].printer /\ row.status = Ended(worker[w].answer)
      /\ row.status \in {"FINISHED", "FAILED"}
      /\ machine' = machine /\ mailbox' = mailbox /\ printed' = printed /\ astray' = astray
  BY <1>1, <1>2, <1>3 DEF IInv, Base, TypeOK, Ended, tables, driverVars
<1>7. /\ worker[w] # Resting /\ Serves(w, j)
      /\ \A v \in Workers : Serves(v, j)' => Serves(v, j)
      /\ \A v \in Workers : Steers(v, j)' <=> Steers(v, j)
  BY <1>1, <1>3, <1>5 DEF Serves, Steers, Serving, Resting
<1>8. OnlyAbout(w, j)
  BY <1>3, <1>5, <1>6 DEF OnlyAbout
<1>9. ASSUME NEW q \in Printers, j \in On(q)' PROVE j \in On(q)
  <2>1. ~OnPrinter(row, q)
    BY <1>6 DEF OnPrinter, Active
  <2>2. PICK v \in Workers : Serves(v, j)' /\ Holds(worker[v], q)'
    BY <1>6, <1>9, <2>1 DEF On, Serves
  <2>3. v # w
    BY <1>5, <1>6, <2>2 DEF Serves, Holds, Active
  <2> QED
    BY <1>5, <1>6, <1>7, <2>2, <2>3, OnFacts DEF Holds, Serves
<1>10. ASSUME NEW k \in Jobs \ astray', k # j PROVE InOrder(k)'
  BY <1>1, <1>6, <1>8, <1>9, <1>10, QuietStep DEF IInv
<1>11. ASSUME j \notin astray' PROVE InOrder(j)'
  <2>1. InOrder(j)
    BY <1>6, <1>11 DEF IInv
  <2>2. j \in On(p) /\ worker[w].loaded.status \in Active
    BY <1>1, <1>4, <1>7, AskedIsOn DEF IInv
  <2>3. machine[p].status = worker[w].answer /\ worker[w].answer \in {"FINISHED", "ERROR"}
    BY <1>1, <1>4, <1>7, <2>1 DEF InOrder, Heard, RequestOK
  <2>4. rows[j].printer = p /\ rows[j].status # "QUEUED"
    <3>1. CASE Steers(w, j)
      BY <1>4, <2>1, <2>2, <3>1 DEF InOrder, Current, Active
    <3>2. CASE ~Steers(w, j)
      BY <1>4, <1>7, <2>1, <2>2, <3>2 DEF InOrder, Polled, EndOf, Active
    <3> QED
      BY <3>1, <3>2
  <2>5. EndOf(machine[p], row.status) /\ ~Busy(machine[p]) /\ machine[p] # Idle
    BY <1>6, <2>3 DEF EndOf, Ended, Busy, Idle
  <2>6. Reported(j)'
    <3>1. machine[p].job = j /\ (machine[p].status = "FINISHED" => machine[p].job \in printed)
      BY <2>1, <2>2, <2>5 DEF InOrder, Delivered, IInv, Base, Machines, MachineOK
    <3> QED
      BY <1>6, <2>3, <3>1 DEF Reported, Ended
  <2>7. HasToItself(j)' /\ Delivered(j)'
    BY <1>1, <1>8, <1>9, <2>1, QuietStep DEF IInv
  <2>8. AloneWith(j)'
    BY <1>7, <2>1 DEF InOrder, AloneWith
  <2>9. Current(j)'
    <3> SUFFICES ASSUME NEW v \in Workers, Steers(v, j)'
                 PROVE  worker'[v].loaded = row
      BY <1>6 DEF Current
    <3>1. v = w
      BY <1>7, <2>1 DEF InOrder, AloneWith
    <3> QED
      BY <1>5, <3>1 DEF Steers, Serves
  <2>10. Polled(j)'
    <3> SUFFICES ASSUME NEW v \in Workers, Serves(v, j)', ~Steers(v, j)'
                 PROVE  worker'[v].loaded.printer = row.printer
      BY <1>6, <2>4, <2>5 DEF Polled
    <3>1. v # w
      BY <1>5, <1>7 DEF Serves, Steers
    <3> QED
      BY <1>5, <1>6, <1>7, <2>1, <3>1 DEF InOrder, Polled
  <2>11. Heard(j)'
    BY <1>5, <1>6, <1>7, <2>1 DEF InOrder, Heard, Serves
  <2>12. Obeyed(j)'
    <3> SUFFICES ASSUME NEW v \in Workers, Serves(v, j)', worker'[v].at = "commit"
                 PROVE  FALSE
      BY DEF Obeyed
    <3>1. v # w /\ Serves(v, j) /\ worker[v].at = "commit"
      BY <1>5, <1>7 DEF Serves
    <3>2. Steers(v, j)
      BY <3>1, ServingFacts DEF IInv, Serves, Steers, RequestOK
    <3> QED
      BY <1>7, <2>1, <3>1, <3>2 DEF InOrder, AloneWith
  <2>13. Followed(j)' /\ Placed(j)'
    BY <1>6 DEF Followed, Placed, Active
  <2>14. KnownAtHome(j)'
    BY <1>6, <2>1, <2>4 DEF InOrder, KnownAtHome, Knows
  <2>15. NotForgotten(j)'
    <3> SUFFICES ASSUME NEW q \in Printers \ Lan, Busy(machine[q]), machine[q].job = j
                 PROVE  FALSE
      BY <1>6 DEF NotForgotten
    <3>1. q = p
      BY <2>1, <2>4, NoPrinterAssumption DEF InOrder, KnownAtHome, Knows
    <3> QED
      BY <2>5, <3>1
  <2> QED
    BY <2>6, <2>7, <2>8, <2>9, <2>10, <2>11, <2>12, <2>13, <2>14, <2>15 DEF InOrder
<1> QED
  BY <1>1, <1>10, <1>11 DEF IInv

(* The outcome of a command is committed.                                  *)
LEMMA FinishInOrder ==
  ASSUME IInv, NEW w \in Workers, Finish(w)
  PROVE  IInv'
<1>1. /\ Base' /\ worker[w] \in Serving /\ RequestOK(worker[w]) /\ worker[w].at = "commit"
      /\ Admits(worker[w].op, worker[w].loaded)
      /\ worker' = [worker EXCEPT ![w] = Resting]
      /\ UNCHANGED <<tables, driverVars>>
  BY FinishStep DEF IInv
<1>2. PICK row \in Row :
        /\ rows' = [rows EXCEPT ![worker[w].job] = row]
        /\ row.status = Outcome[worker[w].op]
        /\ row.printer = IF worker[w].op = "start" THEN worker[w].printer
                                                   ELSE rows[worker[w].job].printer
  BY FinishStep DEF IInv
<1>3. PICK j \in Jobs : j = worker[w].job
  BY <1>1, ServingFacts DEF IInv
<1>4. /\ worker'[w] = Resting /\ \A v \in Workers \ {w} : worker'[v] = worker[v]
      /\ rows'[j] = row /\ \A l \in Jobs \ {j} : rows'[l] = rows[l]
      /\ machine' = machine /\ mailbox' = mailbox /\ printed' = printed /\ astray' = astray
  BY <1>1, <1>2, <1>3 DEF IInv, Base, TypeOK, tables, driverVars
<1>5. /\ worker[w].loaded \in Row /\ Serves(w, j)
      /\ worker[w].op \in {"start", "pause", "resume", "cancel"}
      /\ worker[w].op = "start" => worker[w].loaded.status = "QUEUED" /\ worker[w].printer \in Printers
      /\ worker[w].op # "start" => /\ worker[w].loaded.status \in Active
                                   /\ worker[w].loaded.printer \in Printers
      /\ \A v \in Workers : Serves(v, j)' <=> Serves(v, j) /\ v # w
  BY <1>1, <1>3, <1>4, ServingFacts, AdmitsFacts DEF IInv, Serves, RequestOK
<1>6. OnlyAbout(w, j)
  BY <1>3, <1>4 DEF OnlyAbout
<1>7. row.status = "PRINTING" \/ row.status = "PAUSED" \/ row.status = "CANCELLED"
  BY <1>2, <1>5 DEF Outcome
<1>8. ASSUME NEW q \in Printers, q = row.printer
      PROVE  Holds(worker[w], q)
  BY <1>1, <1>2, <1>3, <1>5, <1>8 DEF Holds
<1>9. ASSUME NEW q \in Printers, j \in On(q)' PROVE j \in On(q)
  <2>1. CASE q = row.printer
    BY <1>5, <1>8, <1>9, <2>1, OnFacts
  <2>2. CASE q # row.printer
    <3>1. PICK v \in Workers : Serves(v, j)' /\ Holds(worker[v], q)'
      BY <1>4, <1>9, <2>2 DEF On, Serves, OnPrinter
    <3>2. v # w /\ Serves(v, j) /\ Holds(worker[v], q)
      BY <1>4, <1>5, <2>2, <3>1 DEF Holds, Serves
    <3> QED
      BY <3>2, OnFacts
  <2> QED
    BY <2>1, <2>2
<1>10. ASSUME NEW k \in Jobs \ astray', k # j PROVE InOrder(k)'
  BY <1>1, <1>4, <1>6, <1>9, <1>10, QuietStep DEF IInv
<1>11. ASSUME j \notin astray' PROVE InOrder(j)'
  <2>1. InOrder(j)
    BY <1>4, <1>11 DEF IInv
  <2>2. Steers(w, j) /\ \A v \in Workers : Serves(v, j) => v = w
    BY <1>5, <2>1 DEF Steers, InOrder, AloneWith
  <2>3. \A v \in Workers : ~Serves(v, j)'
    BY <1>5, <2>2
  <2>4. AloneWith(j)' /\ Current(j)' /\ Polled(j)' /\ Heard(j)' /\ Obeyed(j)'
    BY <2>3 DEF AloneWith, Current, Polled, Heard, Obeyed, Steers
  <2>5. HasToItself(j)' /\ Delivered(j)'
    BY <1>1, <1>6, <1>9, <2>1, QuietStep DEF IInv
  <2>6. /\ worker[w].loaded.status = rows[j].status
        /\ rows[j].status \in Active => worker[w].loaded.printer = rows[j].printer
    BY <2>1, <2>2 DEF InOrder, Current
  <2>7. row.printer = Destination(w) /\ row.printer \in Printers
    BY <1>2, <1>3, <1>5, <2>6 DEF Destination
  <2>8. Placed(j)' /\ Reported(j)'
    BY <1>4, <1>7, <2>7 DEF Placed, Reported
  <2>9. Destination(w) \notin Lan => Obeys(machine[Destination(w)], worker[w].op, j)
    BY <1>1, <1>5, <2>1 DEF InOrder, Obeyed
  <2>10. Followed(j)'
    <3> SUFFICES ASSUME row.status \in Active, row.printer \notin Lan
                 PROVE  /\ machine[row.printer].job = j
                        /\ row.status = "PRINTING" => machine[row.printer].status \in {"PRINTING", "FINISHED"}
                        /\ row.status = "PAUSED" => machine[row.printer].status = "PAUSED"
      BY <1>4 DEF Followed, Follows
    <3>1. Obeys(machine[row.printer], worker[w].op, j)
      BY <2>7, <2>9
    <3> QED
      BY <1>2, <1>5, <3>1 DEF Obeys, Outcome, Active
  <2>11. ASSUME NEW q \in Printers, Knows(q, j) PROVE q = row.printer
    <3>1. CASE worker[w].op = "start"
      BY <1>2, <1>5, <2>1, <2>2, <2>6, <2>11, <3>1 DEF InOrder, KnownAtHome, Starts
    <3>2. CASE worker[w].op # "start"
      <4>1. rows[j].printer = row.printer /\ rows[j].status # "QUEUED"
        BY <1>2, <1>3, <1>5, <2>6, <3>2 DEF Active
      <4> QED
        BY <2>1, <2>7, <2>11, <4>1, NoPrinterAssumption DEF InOrder, KnownAtHome
    <3> QED
      BY <3>1, <3>2
  <2>12. KnownAtHome(j)'
    BY <1>4, <1>7, <2>11 DEF KnownAtHome, Knows
  <2>13. NotForgotten(j)'
    <3> SUFFICES ASSUME NEW q \in Printers \ Lan, Busy(machine[q]), machine[q].job = j
                 PROVE  OnPrinter(row, q)
      BY <1>4 DEF NotForgotten, On
    <3>1. q = row.printer
      BY <2>11 DEF Knows
    <3>2. worker[w].op # "cancel"
      BY <2>7, <2>9, <3>1 DEF Obeys
    <3> QED
      BY <1>2, <1>5, <3>1, <3>2 DEF OnPrinter, Outcome, Active
  <2> QED
    BY <2>4, <2>5, <2>8, <2>10, <2>12, <2>13 DEF InOrder
<1> QED
  BY <1>1, <1>10, <1>11 DEF IInv

(* Mail that is put at the end, and mail without its first message.        *)
LEMMA MailFacts ==
  ASSUME NEW b \in Seq(Commands), NEW c \in Commands
  PROVE  /\ \A i \in DOMAIN Append(b, c) : \/ i \in DOMAIN b /\ Append(b, c)[i] = b[i]
                                           \/ i = Len(b) + 1 /\ Append(b, c)[i] = c
         /\ b # <<>> => /\ Head(b) \in Commands /\ Head(b) = b[1] /\ 1 \in DOMAIN b
                        /\ \A i \in DOMAIN Tail(b) :
                             i + 1 \in DOMAIN b /\ Tail(b)[i] = b[i + 1] /\ i + 1 # 1
OBVIOUS

(* What a driver call may change.                                          *)
LEMMA CommandFacts ==
  ASSUME Base, NEW p \in Printers, NEW c \in Commands, Command(p, c)
  PROVE  /\ \A q \in Printers \ {p} : machine'[q] = machine[q] /\ mailbox'[q] = mailbox[q]
         /\ \/ /\ p \notin Lan /\ Takes(machine[p], c)
               /\ machine'[p] = Obey(machine[p], c)
               /\ mailbox'[p] = <<>> /\ mailbox[p] = <<>>
            \/ /\ p \in Lan /\ machine'[p] = machine[p]
               /\ mailbox'[p] = Append(mailbox[p], c) /\ mailbox[p] \in Seq(Commands)
         /\ \A q \in Printers, k \in Jobs \ {c.job} : Knows(q, k)' => Knows(q, k)
         /\ \A q \in Printers \ Lan, k \in Jobs \ {c.job} :
              Busy(machine'[q]) /\ machine'[q].job = k => Busy(machine[q]) /\ machine[q].job = k
<1>1. /\ machine \in [Printers -> Machine] /\ mailbox \in [Printers -> Seq(Commands)]
      /\ MachineOK(machine[p], printed)
      /\ p \in Lan \/ mailbox[p] = <<>>
  BY PrinterFacts DEF Base
<1>2. \A q \in Printers \ {p} : machine'[q] = machine[q] /\ mailbox'[q] = mailbox[q]
  BY <1>1 DEF Command
<1>3. \/ /\ p \notin Lan /\ Takes(machine[p], c)
         /\ machine'[p] = Obey(machine[p], c)
         /\ mailbox'[p] = <<>> /\ mailbox[p] = <<>>
      \/ /\ p \in Lan /\ machine'[p] = machine[p]
         /\ mailbox'[p] = Append(mailbox[p], c) /\ mailbox[p] \in Seq(Commands)
  BY <1>1 DEF Command
<1>4. ASSUME NEW k \in Jobs \ {c.job}
      PROVE  /\ Knows(p, k)' => Knows(p, k)
             /\ p \notin Lan /\ Busy(machine'[p]) /\ machine'[p].job = k
                  => Busy(machine[p]) /\ machine[p].job = k
  <2>1. CASE p \notin Lan
    <3>1. /\ machine'[p].job \in {machine[p].job, c.job, NoJob}
          /\ Busy(machine'[p]) /\ c.verb # "start" => Busy(machine[p]) /\ machine'[p].job = machine[p].job
          /\ c.verb = "start" => machine'[p].job = c.job
          /\ mailbox'[p] = <<>>
      BY <1>1, <1>3, <2>1, ObeyOK
    <3> QED
      BY <2>1, <3>1, NoJobAssumption DEF Knows
  <2>2. CASE p \in Lan
    <3>1. /\ machine'[p] = machine[p]
          /\ mailbox'[p] = Append(mailbox[p], c) /\ mailbox[p] \in Seq(Commands)
      BY <1>3, <2>2
    <3>2. \A i \in DOMAIN mailbox'[p] : \/ i \in DOMAIN mailbox[p] /\ mailbox'[p][i] = mailbox[p][i]
                                        \/ mailbox'[p][i] = c
      BY <3>1, MailFacts
    <3> QED
      BY <2>2, <3>1, <3>2 DEF Knows
  <2> QED
    BY <2>1, <2>2
<1> QED
  BY <1>2, <1>3, <1>4 DEF Knows

(* A driver is called.                                                     *)
LEMMA CallInOrder ==
  ASSUME IInv, NEW w \in Workers, Call(w)
  PROVE  IInv'
<1>1. /\ Base' /\ worker[w] \in Serving /\ RequestOK(worker[w]) /\ worker[w].at = "handle"
      /\ Admits(worker[w].op, worker[w].loaded)
      /\ UNCHANGED <<rows, registry, printed>>
  BY CallStep DEF IInv
<1>2. PICK x \in Serving :
        /\ worker' = [worker EXCEPT ![w] = x]
        /\ x.at = "commit" /\ x.op = worker[w].op /\ x.job = worker[w].job
        /\ x.loaded = worker[w].loaded /\ x.printer = worker[w].printer
  BY CallStep DEF IInv
<1>3. PICK j \in Jobs : j = worker[w].job
  BY <1>1 DEF Serving
<1>4. PICK op : op = worker[w].op
  OBVIOUS
<1>5. PICK p : p = Destination(w)
  OBVIOUS
<1>6. PICK c : c = Order(w)
  OBVIOUS
<1>7. p \in Printers /\ c \in Commands /\ c.job = j /\ c.verb = op /\ Command(p, c)
  BY <1>1, <1>3, <1>4, <1>5, <1>6, OrderFacts DEF Call, IInv
<1>8. /\ worker'[w] = x /\ x # Resting /\ worker[w] # Resting
      /\ \A v \in Workers \ {w} : worker'[v] = worker[v]
  BY <1>1, <1>2 DEF IInv, Base, TypeOK, Serving, Resting
<1>9. /\ worker[w].loaded \in Row
      /\ op \in {"start", "pause", "resume", "cancel"}
      /\ op = "start" => worker[w].loaded.status = "QUEUED" /\ p = worker[w].printer
      /\ op # "start" => /\ worker[w].loaded.status \in Active /\ p = worker[w].loaded.printer
                         /\ worker[w].printer = NoPrinter
  BY <1>1, <1>4, <1>5, AdmitsFacts DEF Serving, Destination, RequestOK
<1>10. /\ Serves(w, j) /\ Steers(w, j)
       /\ \A v \in Workers : Serves(v, j)' <=> Serves(v, j)
  BY <1>2, <1>3, <1>4, <1>8, <1>9 DEF Serves, Steers
<1>11. OnlyAbout(w, j)
  BY <1>1, <1>2, <1>3, <1>8 DEF OnlyAbout
<1>12. ASSUME NEW q \in Printers
       PROVE  j \in On(q)' <=> j \in On(q) \/ (op = "start" /\ q = p)
  <2>1. Holds(worker[w], q)' <=> Holds(worker[w], q) \/ (op = "start" /\ q = p)
    BY <1>1, <1>2, <1>8, <1>9, NoPrinterAssumption DEF Holds
  <2>2. \A v \in Workers \ {w} : Holds(worker[v], q)' <=> Holds(worker[v], q)
    BY <1>1, <1>8 DEF Holds
  <2> QED
    BY <1>1, <1>8, <1>10, <2>1, <2>2 DEF On, Serves
<1>13. /\ astray \subseteq astray'
       /\ op = "start" => \A k \in On(p) \ {j} : k \in astray'
       /\ op = "start" /\ j \notin astray' => On(p) \subseteq {j} /\ ~Stale(p)
  <2>1. CASE op = "start"
    <3>1. astray' = astray \cup Crossed(w) /\ p = worker[w].printer
      BY <1>4, <1>9, <2>1 DEF Call, Stray
    <3> QED
      BY <1>3, <3>1 DEF Crossed
  <2>2. CASE op # "start"
    BY <1>4, <2>2 DEF Call, Stray
  <2> QED
    BY <2>1, <2>2
<1>14. op # "start" => j \in On(p)
  BY <1>7, <1>9, <1>10, OnFacts DEF Holds
<1>15. /\ \A q \in Printers \ {p} : machine'[q] = machine[q] /\ mailbox'[q] = mailbox[q]
       /\ \A q \in Printers, k \in Jobs \ {j} : Knows(q, k)' => Knows(q, k)
       /\ \A q \in Printers \ Lan, k \in Jobs \ {j} :
            Busy(machine'[q]) /\ machine'[q].job = k => Busy(machine[q]) /\ machine[q].job = k
  BY <1>7, CommandFacts DEF IInv
<1>16. \/ /\ p \notin Lan /\ Takes(machine[p], c)
          /\ machine'[p] = Obey(machine[p], c)
          /\ mailbox'[p] = <<>>
       \/ /\ p \in Lan /\ machine'[p] = machine[p]
          /\ mailbox'[p] = Append(mailbox[p], c) /\ mailbox[p] \in Seq(Commands)
  BY <1>7, CommandFacts DEF IInv
<1>17. ASSUME NEW k \in Jobs \ astray', k # j PROVE InOrder(k)'
  <2>1. InOrder(k)
    BY <1>13, <1>17 DEF IInv
  <2>2. k \notin On(p)
    BY <1>7, <1>13, <1>14, <1>17, <2>1 DEF InOrder, HasToItself
  <2>3. \A q \in Printers \ Lan : Busy(machine'[q]) /\ machine'[q].job = k => k \in On(q)
    BY <1>15, <1>17, <2>1 DEF InOrder, NotForgotten
  <2>4. ASSUME NEW q \in Printers, k \in On(q)
        PROVE  machine'[q] = machine[q] /\ mailbox'[q] = mailbox[q] /\ (j \in On(q)' => j \in On(q))
    <3>1. q # p
      BY <2>2, <2>4
    <3> QED
      BY <1>12, <1>15, <3>1
  <2>5. \A q \in Printers : Knows(q, k)' => Knows(q, k)
    BY <1>15, <1>17
  <2>6. printed \subseteq printed'
    BY <1>1
  <2> QED
    BY <1>11, <1>17, <2>1, <2>3, <2>4, <2>5, <2>6, OthersInOrder DEF IInv
<1>18. ASSUME j \notin astray' PROVE InOrder(j)'
  <2>1. InOrder(j)
    BY <1>13, <1>18 DEF IInv
  <2>2. \A v \in Workers : Serves(v, j) => v = w
    BY <1>10, <2>1 DEF InOrder, AloneWith
  <2>3. /\ worker'[w].loaded = worker[w].loaded /\ worker'[w].at = "commit"
        /\ worker'[w].op = op /\ worker'[w].printer = worker[w].printer
        /\ Destination(w)' = p
        /\ \A v \in Workers : Serves(v, j)' => v = w /\ Steers(v, j)'
    <3>1. /\ worker'[w].loaded = worker[w].loaded /\ worker'[w].at = "commit"
          /\ worker'[w].op = op /\ worker'[w].printer = worker[w].printer
      BY <1>2, <1>4, <1>8
    <3>2. Destination(w)' = p
      BY <1>4, <1>5, <3>1 DEF Destination
    <3>3. \A v \in Workers : Serves(v, j)' => v = w /\ Steers(v, j)'
      <4>1. op # "poll"
        BY <1>9
      <4> SUFFICES ASSUME NEW v \in Workers, Serves(v, j)' PROVE v = w /\ Steers(v, j)'
        OBVIOUS
      <4>2. v = w
        BY <1>10, <2>2
      <4> QED
        BY <3>1, <4>1, <4>2 DEF Steers
    <3> QED
      BY <3>1, <3>2, <3>3
  <2>4. AloneWith(j)' /\ Current(j)' /\ Polled(j)' /\ Heard(j)'
    <3>1. AloneWith(j)' /\ Polled(j)'
      BY <2>3 DEF AloneWith, Polled, Steers
    <3>2. Heard(j)'
      BY <2>3 DEF Heard
    <3>3. Current(j)'
      <4>1. \A v \in Workers : Steers(v, j)' => v = w
        BY <2>3 DEF Steers
      <4>2. /\ worker[w].loaded.status = rows[j].status
            /\ rows[j].status \in Active => worker[w].loaded.printer = rows[j].printer
        BY <1>10, <2>1 DEF InOrder, Current
      <4> QED
        BY <1>1, <2>3, <4>1, <4>2 DEF Current
    <3> QED
      BY <3>1, <3>2, <3>3
  <2>5. Followed(j)' /\ Placed(j)' /\ Reported(j)'
    BY <1>1, <1>10, <2>1, <2>3 DEF Followed, Commanded, Placed, Reported, InOrder, Serves
  <2>6. /\ rows[j].status = worker[w].loaded.status
        /\ op # "start" => rows[j].printer = p
    BY <1>9, <1>10, <2>1 DEF InOrder, Current
  <2>7. MachineOK(machine[p], printed) /\ machine[p] \in Machine
    BY <1>7, PrinterFacts DEF IInv, Base
  <2>8. Obeyed(j)'
    <3> SUFFICES ASSUME p \notin Lan
               PROVE  Obeys(Obey(machine[p], c), op, j)
      BY <1>16, <2>3 DEF Obeyed
    <3>1. Takes(machine[p], c)
      BY <1>16
    <3>2. CASE op = "start"
      BY <1>7, <3>2 DEF Obeys, Obey
    <3>3. CASE op \in {"pause", "resume"}
      <4>1. machine[p].job = j
        BY <1>7, <1>14, <2>1, <2>7, <3>1, <3>3 DEF InOrder, Delivered, MachineOK, Takes, Idle
      <4> QED
        BY <1>7, <2>7, <3>3, <4>1 DEF Obeys, Obey, Machine
    <3>4. CASE op = "cancel"
      BY <1>7, <3>4 DEF Obeys, Obey, Busy, Idle
    <3> QED
      BY <1>9, <3>2, <3>3, <3>4
  <2>9. ASSUME NEW q \in Printers, j \in On(q)' PROVE On(q)' \subseteq {j}
    <3>1. On(q) \subseteq {j}
      BY <1>12, <1>13, <1>18, <2>1, <2>9 DEF InOrder, HasToItself
    <3>2. ASSUME NEW l \in On(q)', l # j PROVE FALSE
      <4>1. l \in Jobs
        BY <3>2 DEF On
      <4> QED
        BY <1>11, <3>1, <3>2, <4>1, OthersStay
    <3> QED
      BY <3>2
  <2>10. ASSUME NEW q \in Printers, j \in On(q)'
         PROVE  /\ machine'[q].job \in {j, NoJob}
                /\ \A i \in DOMAIN mailbox'[q] :
                     /\ mailbox'[q][i].job = j
                     /\ mailbox'[q][i].verb = "start" => i = 1 /\ machine'[q] = Idle
    <3>1. CASE q # p
      BY <1>12, <1>15, <2>1, <2>10, <3>1 DEF InOrder, Delivered
    <3>2. CASE q = p /\ p \notin Lan
      <4>1. machine'[p].job \in {machine[p].job, j, NoJob} /\ (op = "start" => machine'[p].job = j)
        BY <1>7, <1>16, <2>7, <3>2, ObeyOK
      <4>2. op # "start" => machine[p].job \in {j, NoJob}
        BY <1>7, <1>14, <2>1 DEF InOrder, Delivered
      <4> QED
        BY <1>16, <3>2, <4>1, <4>2
    <3>3. CASE q = p /\ p \in Lan
      <4>1. \A i \in DOMAIN mailbox'[p] :
              \/ i \in DOMAIN mailbox[p] /\ mailbox'[p][i] = mailbox[p][i]
              \/ i = Len(mailbox[p]) + 1 /\ mailbox'[p][i] = c
        BY <1>7, <1>16, <3>3, MailFacts
      <4>2. machine'[p] = machine[p]
        BY <1>16, <3>3
      <4>3. CASE op = "start"
        <5>1. machine[p] = Idle /\ mailbox[p] = <<>>
          BY <1>13, <1>18, <3>3, <4>3 DEF Stale
        <5> QED
          BY <1>7, <3>3, <4>1, <4>2, <5>1 DEF Idle
      <4>4. CASE op # "start"
        BY <1>7, <1>14, <2>1, <3>3, <4>1, <4>2, <4>4 DEF InOrder, Delivered
      <4> QED
        BY <4>3, <4>4
    <3> QED
      BY <3>1, <3>2, <3>3
  <2>11. HasToItself(j)' /\ Delivered(j)'
    BY <2>9, <2>10 DEF HasToItself, Delivered
  <2>12. KnownAtHome(j)'
    <3> SUFFICES ASSUME NEW q \in Printers, Knows(q, j)', q # p
                 PROVE  IF rows[j].status = "QUEUED" THEN FALSE
                        ELSE rows[j].printer \in {q, NoPrinter}
      <4>1. rows[j].status = "QUEUED" => Starts(w, j, p)'
        BY <1>2, <1>8, <1>9, <1>10, <2>3, <2>6 DEF Starts, Active
      <4>2. rows[j].status # "QUEUED" => rows[j].printer = p
        BY <1>9, <2>6
      <4> QED
        BY <1>1, <4>1, <4>2 DEF KnownAtHome
    <3>1. Knows(q, j)
      BY <1>15 DEF Knows
    <3>2. \A v \in Workers : ~Starts(v, j, q)
      BY <1>1, <2>2 DEF Starts
    <3> QED
      BY <2>1, <3>1, <3>2 DEF InOrder, KnownAtHome
  <2>13. NotForgotten(j)'
    <3> SUFFICES ASSUME NEW q \in Printers \ Lan, Busy(machine'[q]), machine'[q].job = j, q # p
                 PROVE  j \in On(q)
      BY <1>7, <1>12, <1>14 DEF NotForgotten
    <3> QED
      BY <1>15, <2>1 DEF InOrder, NotForgotten
  <2> QED
    BY <2>4, <2>5, <2>8, <2>11, <2>12, <2>13 DEF InOrder
<1> QED
  BY <1>1, <1>17, <1>18 DEF IInv

(* What is seen of the jobs on a printer does not depend on the printers.  *)
LEMMA SameOn ==
  ASSUME UNCHANGED <<rows, worker>>
  PROVE  /\ \A p \in Printers : On(p)' = On(p)
         /\ \A w \in Workers, j \in Jobs : /\ Serves(w, j)' <=> Serves(w, j)
                                           /\ Steers(w, j)' <=> Steers(w, j)
         /\ \A w \in Workers, j \in Jobs, p \in Printers : Starts(w, j, p)' <=> Starts(w, j, p)
         /\ \A j \in Jobs : Commanded(j)' <=> Commanded(j)
BY DEF On, Holds, Serves, Steers, Starts, Commanded

(* A step that changes no row, request or printer.                         *)
LEMMA SameInOrder ==
  ASSUME Base, UNCHANGED <<rows, worker, driverVars>>, NEW k \in Jobs, InOrder(k)
  PROVE  InOrder(k)'
<1>1. /\ machine' = machine /\ mailbox' = mailbox /\ printed' = printed
      /\ \A p \in Printers : On(p)' = On(p)
  BY SameOn DEF driverVars
<1>2. \A p \in Printers : Knows(p, k)' => Knows(p, k)
  BY <1>1 DEF Knows
<1>3. \A p \in Printers \ Lan : Busy(machine'[p]) /\ machine'[p].job = k => k \in On(p)
  BY <1>1 DEF InOrder, NotForgotten
<1>4. Untouched(k)
  BY <1>1, <1>2, <1>3 DEF Untouched
<1> QED
  BY <1>4, StaysInOrder

(* A job stays in order when its own printer goes on.                      *)
LEMMA PrinterInOrder ==
  ASSUME Base, UNCHANGED <<rows, worker, tables>>, printed \subseteq printed',
         NEW p \in Printers, NEW k \in Jobs, InOrder(k), k \in On(p),
         \A q \in Printers \ {p} : machine'[q] = machine[q] /\ mailbox'[q] = mailbox[q],
         machine[p].status \in {"FINISHED", "ERROR"} => machine'[p] = machine[p],
         p \notin Lan => /\ machine[p].status = "PRINTING"
                         /\ machine'[p].status = "FINISHED"
                         /\ machine'[p].job = machine[p].job,
         machine'[p].job \in {k, NoJob},
         \A i \in DOMAIN mailbox'[p] : /\ mailbox'[p][i].job = k
                                       /\ mailbox'[p][i].verb # "start",
         Knows(p, k)' => Knows(p, k)
  PROVE  InOrder(k)'
<1>1. /\ \A q \in Printers : On(q)' = On(q)
      /\ rows' = rows /\ worker' = worker
      /\ \A w \in Workers : /\ Serves(w, k)' <=> Serves(w, k)
                            /\ Steers(w, k)' <=> Steers(w, k)
      /\ \A w \in Workers, q \in Printers : Starts(w, k, q)' <=> Starts(w, k, q)
      /\ Commanded(k)' <=> Commanded(k)
  BY SameOn
<1>2. AloneWith(k)' /\ Current(k)' /\ Placed(k)' /\ Reported(k)' /\ HasToItself(k)'
  BY <1>1 DEF InOrder, AloneWith, Current, Placed, Reported, HasToItself
<1>3. Delivered(k)'
  BY <1>1 DEF InOrder, Delivered
<1>4. ASSUME NEW q \in Printers, machine[q].status \in {"FINISHED", "ERROR"}
      PROVE  machine'[q] = machine[q]
  BY <1>4
<1>5. Polled(k)'
  <2> SUFFICES ASSUME NEW w \in Workers, Serves(w, k), ~Steers(w, k)
               PROVE  \/ worker[w].loaded = rows[k]
                      \/ /\ worker[w].loaded.printer = rows[k].printer
                         /\ EndOf(machine'[rows[k].printer], rows[k].status)
    BY <1>1 DEF Polled
  <2>1. worker[w].at \in {"sync", "syncCommit"}
    BY ServingFacts DEF Serves, Steers, RequestOK
  <2>2. worker[w].loaded.printer \in Printers
    BY <2>1, AskedIsOn
  <2>3. \/ worker[w].loaded = rows[k]
        \/ /\ worker[w].loaded.printer = rows[k].printer
           /\ EndOf(machine[rows[k].printer], rows[k].status)
    BY DEF InOrder, Polled
  <2> QED
    BY <1>4, <2>2, <2>3 DEF EndOf
<1>6. Heard(k)'
  <2> SUFFICES ASSUME NEW w \in Workers, Serves(w, k), worker[w].at = "syncCommit"
               PROVE  machine'[worker[w].loaded.printer].status = worker[w].answer
    BY <1>1 DEF Heard
  <2>1. worker[w].loaded.printer \in Printers /\ worker[w].answer \in {"FINISHED", "ERROR"}
    BY AskedIsOn, ServingFacts DEF Serves, RequestOK
  <2>2. machine[worker[w].loaded.printer].status = worker[w].answer
    BY DEF InOrder, Heard
  <2> QED
    BY <1>4, <2>1, <2>2
<1>7. Obeyed(k)'
  <2> SUFFICES ASSUME NEW w \in Workers, Serves(w, k), worker[w].at = "commit",
                      Destination(w) \notin Lan
               PROVE  Obeys(machine'[Destination(w)], worker[w].op, k)
    BY <1>1 DEF Obeyed, Destination
  <2>1. Obeys(machine[Destination(w)], worker[w].op, k) /\ Destination(w) \in Printers
    BY AskedIsOn DEF InOrder, Obeyed
  <2>2. CASE Destination(w) = p
    BY <2>1, <2>2 DEF Obeys, Busy
  <2>3. CASE Destination(w) # p
    BY <2>1, <2>3
  <2> QED
    BY <2>2, <2>3
<1>8. Followed(k)'
  <2> SUFFICES ASSUME rows[k].status \in Active, rows[k].printer \notin Lan, ~Commanded(k)
               PROVE  Follows(k, machine[rows[k].printer])'
    BY <1>1 DEF Followed
  <2>1. Follows(k, machine[rows[k].printer]) /\ rows[k].printer \in Printers
    BY DEF InOrder, Followed, Placed
  <2>2. CASE rows[k].printer = p
    BY <1>1, <2>1, <2>2 DEF Follows, Active
  <2>3. CASE rows[k].printer # p
    BY <1>1, <2>1, <2>3 DEF Follows
  <2> QED
    BY <2>2, <2>3
<1>9. KnownAtHome(k)'
  <2>1. \A q \in Printers : Knows(q, k)' => Knows(q, k)
    BY DEF Knows
  <2> QED
    BY <1>1, <2>1 DEF InOrder, KnownAtHome
<1>10. NotForgotten(k)'
  BY <1>1 DEF InOrder, NotForgotten
<1> QED
  BY <1>2, <1>3, <1>5, <1>6, <1>7, <1>8, <1>9, <1>10 DEF InOrder

(* A printer goes on by itself.                                            *)
LEMMA EnvironmentInOrder ==
  ASSUME IInv, NEW p \in Printers, Environment(p)
  PROVE  IInv'
<1>1. /\ Base' /\ UNCHANGED <<rows, worker, tables>> /\ printed \subseteq printed'
      /\ astray' = astray
  BY OutsideStep DEF IInv, tables
<1>2. /\ machine \in [Printers -> Machine] /\ mailbox \in [Printers -> Seq(Commands)]
      /\ MachineOK(machine[p], printed) /\ machine[p] \in Machine
      /\ mailbox[p] \in Seq(Commands)
      /\ p \in Lan \/ mailbox[p] = <<>>
  BY PrinterFacts DEF IInv, Base
<1>3. /\ \A q \in Printers \ {p} : machine'[q] = machine[q] /\ mailbox'[q] = mailbox[q]
      /\ \/ /\ p \in Lan /\ mailbox[p] # <<>> /\ mailbox'[p] = Tail(mailbox[p])
            /\ \/ machine'[p] = machine[p]
               \/ /\ Acts(machine[p], Head(mailbox[p]))
                  /\ machine'[p] = Obey(machine[p], Head(mailbox[p]))
               \/ /\ Acts(machine[p], Head(mailbox[p])) /\ Head(mailbox[p]).verb = "cancel"
                  /\ machine'[p] = [machine[p] EXCEPT !.status = "ERROR"]
         \/ /\ machine[p].status = "PRINTING" /\ mailbox'[p] = mailbox[p]
            /\ \/ machine'[p] = [machine[p] EXCEPT !.status = "FINISHED"]
               \/ p \in Lan /\ machine'[p] = [machine[p] EXCEPT !.status = "ERROR"]
  <2>1. CASE Receive(p)
    <3>1. p \in Lan
      BY <1>2, <2>1 DEF Receive
    <3> QED
      BY <1>2, <2>1, <3>1 DEF Receive
  <2>2. CASE Lose(p)
    <3>1. p \in Lan
      BY <1>2, <2>2 DEF Lose
    <3> QED
      BY <1>2, <2>2, <3>1 DEF Lose
  <2>3. CASE PrintEnds(p)
    BY <1>2, <2>3 DEF PrintEnds
  <2>4. CASE PrintFails(p)
    BY <1>2, <2>4 DEF PrintFails
  <2> QED
    BY <2>1, <2>2, <2>3, <2>4 DEF Environment, Outside
<1>4. mailbox[p] # <<>> =>
        /\ Head(mailbox[p]) \in Commands /\ Head(mailbox[p]) = mailbox[p][1]
        /\ 1 \in DOMAIN mailbox[p]
        /\ \A i \in DOMAIN Tail(mailbox[p]) :
             i + 1 \in DOMAIN mailbox[p] /\ Tail(mailbox[p])[i] = mailbox[p][i + 1] /\ i + 1 # 1
  <2> SUFFICES ASSUME mailbox[p] # <<>>
               PROVE  /\ Head(mailbox[p]) \in Commands /\ Head(mailbox[p]) = mailbox[p][1]
                      /\ 1 \in DOMAIN mailbox[p]
                      /\ \A i \in DOMAIN Tail(mailbox[p]) :
                           /\ i + 1 \in DOMAIN mailbox[p]
                           /\ Tail(mailbox[p])[i] = mailbox[p][i + 1]
                           /\ i + 1 # 1
    OBVIOUS
  <2>1. Head(mailbox[p]) \in Commands
    BY <1>2
  <2> QED
    BY <1>2, <2>1, MailFacts
<1>5. ASSUME mailbox[p] # <<>>, Acts(machine[p], Head(mailbox[p]))
      PROVE  /\ Obey(machine[p], Head(mailbox[p])).job \in {machine[p].job, Head(mailbox[p]).job, NoJob}
             /\ Head(mailbox[p]).verb # "start" =>
                  Obey(machine[p], Head(mailbox[p])).job \in {machine[p].job, NoJob}
  <2>1. Head(mailbox[p]).verb \in {"start", "pause", "resume", "cancel"}
    BY <1>4, <1>5 DEF Commands
  <2>2. Obey(machine[p], Head(mailbox[p])).job \in {machine[p].job, Head(mailbox[p]).job, NoJob}
    BY <1>2, <1>4, <1>5, ObeyOK DEF Acts
  <2>3. ASSUME Head(mailbox[p]).verb # "start"
        PROVE  Obey(machine[p], Head(mailbox[p])).job \in {machine[p].job, NoJob}
    <3>1. CASE Head(mailbox[p]).verb = "cancel"
      BY <3>1 DEF Obey, Idle
    <3>2. CASE Head(mailbox[p]).verb \in {"pause", "resume"}
      BY <1>2, <3>2 DEF Obey, Machine
    <3> QED
      BY <2>1, <2>3, <3>1, <3>2
  <2> QED
    BY <2>2, <2>3
<1>6. ASSUME NEW i \in DOMAIN mailbox'[p]
      PROVE  \E l \in DOMAIN mailbox[p] : /\ mailbox'[p][i] = mailbox[p][l]
                                          /\ l # 1 \/ machine[p].status = "PRINTING"
  <2>1. CASE mailbox'[p] = mailbox[p] /\ machine[p].status = "PRINTING"
    BY <1>6, <2>1
  <2>2. CASE mailbox[p] # <<>> /\ mailbox'[p] = Tail(mailbox[p])
    <3>1. i \in DOMAIN Tail(mailbox[p])
      BY <1>6, <2>2
    <3>2. /\ i + 1 \in DOMAIN mailbox[p]
          /\ Tail(mailbox[p])[i] = mailbox[p][i + 1]
          /\ i + 1 # 1
      BY <1>4, <2>2, <3>1
    <3> QED
      BY <2>2, <3>2
  <2> QED
    BY <1>3, <2>1, <2>2
<1>7. ASSUME NEW k \in Jobs, Knows(p, k)' PROVE Knows(p, k)
  <2>1. CASE \E i \in DOMAIN mailbox'[p] : mailbox'[p][i].job = k
    BY <1>6, <2>1 DEF Knows
  <2>2. CASE machine'[p].job = k
    <3>1. machine'[p].job \in {machine[p].job, NoJob} \/ (mailbox[p] # <<>> /\ machine'[p].job = Head(mailbox[p]).job)
      BY <1>2, <1>3, <1>5 DEF Machine
    <3> QED
      BY <1>4, <2>2, <3>1, NoJobAssumption DEF Knows
  <2> QED
    BY <1>7, <2>1, <2>2 DEF Knows
<1>8. ASSUME NEW k \in Jobs, InOrder(k), k \notin On(p) PROVE InOrder(k)'
  <2>1. \A q \in Printers : On(q)' = On(q)
    BY <1>1, SameOn
  <2>2. \A q \in Printers : Knows(q, k)' => Knows(q, k)
    BY <1>3, <1>7, <1>8 DEF Knows
  <2>3. p \notin Lan => machine'[p].status = "FINISHED"
    BY <1>2, <1>3 DEF Machine
  <2>4. \A q \in Printers \ Lan : Busy(machine'[q]) /\ machine'[q].job = k => k \in On(q)
    BY <1>3, <1>8, <2>3 DEF Busy, InOrder, NotForgotten
  <2>5. Untouched(k)
    BY <1>1, <1>3, <1>8, <2>1, <2>2, <2>4 DEF Untouched
  <2> QED
    BY <1>8, <2>5, StaysInOrder DEF IInv
<1>9. ASSUME NEW k \in Jobs, InOrder(k), k \in On(p) PROVE InOrder(k)'
  <2>1. /\ machine[p].job \in {k, NoJob}
        /\ \A i \in DOMAIN mailbox[p] :
             /\ mailbox[p][i].job = k
             /\ mailbox[p][i].verb = "start" => i = 1 /\ machine[p] = Idle
    BY <1>9 DEF InOrder, Delivered
  <2>2. machine[p].status \in {"FINISHED", "ERROR"} => machine'[p] = machine[p]
    <3> SUFFICES ASSUME machine[p].status \in {"FINISHED", "ERROR"}, mailbox[p] # <<>>,
                        Acts(machine[p], Head(mailbox[p]))
                 PROVE  FALSE
      BY <1>3
    <3>1. Head(mailbox[p]).verb # "start"
      BY <1>4, <2>1 DEF Idle
    <3> QED
      BY <1>4, <3>1 DEF Acts, Takes, Busy, Commands
  <2>3. p \notin Lan => /\ machine[p].status = "PRINTING"
                        /\ machine'[p].status = "FINISHED"
                        /\ machine'[p].job = machine[p].job
    BY <1>2, <1>3 DEF Machine
  <2>4. machine'[p].job \in {k, NoJob}
    <3>1. CASE machine'[p].job = machine[p].job
      BY <2>1, <3>1
    <3>2. CASE /\ mailbox[p] # <<>> /\ Acts(machine[p], Head(mailbox[p]))
               /\ machine'[p] = Obey(machine[p], Head(mailbox[p]))
      BY <1>4, <1>5, <2>1, <3>2
    <3> QED
      BY <1>2, <1>3, <3>1, <3>2 DEF Machine
  <2>5. \A i \in DOMAIN mailbox'[p] : /\ mailbox'[p][i].job = k
                                      /\ mailbox'[p][i].verb # "start"
    BY <1>6, <2>1 DEF Idle
  <2>6. Knows(p, k)' => Knows(p, k)
    BY <1>7
  <2>7. \A q \in Printers \ {p} : machine'[q] = machine[q] /\ mailbox'[q] = mailbox[q]
    BY <1>3
  <2> QED
    BY <1>1, <1>9, <2>2, <2>3, <2>4, <2>5, <2>6, <2>7, PrinterInOrder DEF IInv
<1> QED
  BY <1>1, <1>8, <1>9 DEF IInv

(* A printer is deleted: its jobs go astray, the others stay where they are.*)
LEMMA DeleteInOrder ==
  ASSUME IInv, NEW p \in Printers, DeletePrinter(p)
  PROVE  IInv'
<1>1. /\ Base' /\ worker' = worker
      /\ machine' = machine /\ mailbox' = mailbox /\ printed' = printed
      /\ astray' = astray \cup On(p)
      /\ rows' = [j \in Jobs |-> IF rows[j].printer = p
                                 THEN [rows[j] EXCEPT !.printer = NoPrinter] ELSE rows[j]]
      /\ \A j \in Jobs : rows[j] \in Row
  BY RegistryStep DEF IInv, Base, TypeOK, DeletePrinter, Stray, driverVars
<1>2. ASSUME NEW j \in Jobs
      PROVE  /\ rows'[j].status = rows[j].status
             /\ rows'[j].printer \in {rows[j].printer, NoPrinter}
             /\ rows[j].printer # p => rows'[j] = rows[j]
  BY <1>1 DEF Row
<1>3. ASSUME NEW q \in Printers PROVE On(q)' \subseteq On(q)
  <2>1. ASSUME NEW j \in Jobs, OnPrinter(rows'[j], q) PROVE OnPrinter(rows[j], q)
    BY <1>2, <2>1, NoPrinterAssumption DEF OnPrinter
  <2>2. ASSUME NEW j \in Jobs, NEW w \in Workers, Serves(w, j), Holds(worker[w], q)'
        PROVE  Holds(worker[w], q)
    BY <1>1, <1>2, <2>2, NoPrinterAssumption DEF Holds, Serves
  <2>3. ASSUME NEW j \in On(q)' PROVE j \in On(q)
    <3>1. j \in Jobs
      BY DEF On
    <3>2. \/ OnPrinter(rows'[j], q)
          \/ \E w \in Workers : Serves(w, j) /\ Holds(worker[w], q)'
      BY <1>1 DEF On, Serves
    <3> QED
      BY <2>1, <2>2, <3>1, <3>2, OnFacts
  <2> QED
    BY <2>3
<1>4. ASSUME NEW k \in Jobs \ astray' PROVE InOrder(k)'
  <2>1. InOrder(k) /\ k \notin On(p)
    BY <1>1, <1>4 DEF IInv
  <2>2. rows[k].status \in Active => rows'[k] = rows[k]
    BY <1>2, <2>1, OnFacts DEF OnPrinter
  <2>3. ASSUME NEW w \in Workers, Serves(w, k), worker[w].loaded.status \in Active
        PROVE  rows'[k] = rows[k]
    BY <1>2, <2>1, <2>3, OnFacts DEF Holds, Serves
  <2>4. /\ \A w \in Workers : /\ Serves(w, k)' <=> Serves(w, k)
                              /\ Steers(w, k)' <=> Steers(w, k)
        /\ Commanded(k)' <=> Commanded(k)
        /\ \A w \in Workers, q \in Printers : Starts(w, k, q)' <=> Starts(w, k, q)
        /\ \A w \in Workers : Destination(w)' = Destination(w)
        /\ \A q \in Printers : Knows(q, k)' <=> Knows(q, k)
    BY <1>1 DEF Serves, Steers, Commanded, Starts, Destination, Knows
  <2>5. AloneWith(k)' /\ Reported(k)' /\ Placed(k)' /\ Current(k)'
    BY <1>1, <1>2, <2>1, <2>2, <2>4 DEF InOrder, AloneWith, Reported, Placed, Current
  <2>6. Polled(k)'
    <3> SUFFICES ASSUME NEW w \in Workers, Serves(w, k), ~Steers(w, k)
                 PROVE  \/ worker[w].loaded = rows'[k]
                        \/ /\ worker[w].loaded.printer = rows'[k].printer
                           /\ EndOf(machine[rows'[k].printer], rows'[k].status)
      BY <1>1, <2>4 DEF Polled
    <3>1. worker[w].at \in {"sync", "syncCommit"}
      BY ServingFacts DEF IInv, Serves, Steers, RequestOK
    <3>2. rows'[k] = rows[k]
      BY <2>3, <3>1, AskedIsOn DEF IInv
    <3> QED
      BY <2>1, <3>2 DEF InOrder, Polled
  <2>7. Heard(k)' /\ Obeyed(k)'
    BY <1>1, <2>1, <2>4 DEF InOrder, Heard, Obeyed
  <2>8. Followed(k)'
    BY <1>1, <1>2, <2>1, <2>2, <2>4 DEF InOrder, Followed, Follows
  <2>9. KnownAtHome(k)'
    BY <1>2, <2>1, <2>4 DEF InOrder, KnownAtHome
  <2>10. HasToItself(k)' /\ Delivered(k)'
    BY <1>1, <1>3, <2>1 DEF InOrder, HasToItself, Delivered
  <2>11. NotForgotten(k)'
    <3>1. ASSUME NEW q \in Printers, k \in On(q) PROVE k \in On(q)'
      <4>1. CASE OnPrinter(rows[k], q)
        BY <2>2, <4>1 DEF OnPrinter, On
      <4>2. ASSUME NEW w \in Workers, Serves(w, k), Holds(worker[w], q) PROVE k \in On(q)'
        BY <1>1, <2>3, <4>2 DEF On, Serves, Holds
      <4> QED
        BY <3>1, <4>1, <4>2, OnFacts
    <3> QED
      BY <1>1, <2>1, <3>1 DEF InOrder, NotForgotten
  <2> QED
    BY <2>5, <2>6, <2>7, <2>8, <2>9, <2>10, <2>11 DEF InOrder
<1> QED
  BY <1>1, <1>4 DEF IInv

(* The process is restarted: jobs on dummies, and those a command of which *)
(* is not committed yet, go astray.                                        *)
LEMMA RestartInOrder ==
  ASSUME IInv, Restart
  PROVE  IInv'
<1>1. /\ Base' /\ rows' = rows /\ mailbox' = mailbox /\ printed' = printed
      /\ \A w \in Workers : worker'[w] = Resting
      /\ \A p \in Printers : machine'[p] = IF p \in Lan THEN machine[p] ELSE Idle
      /\ astray' = astray \cup
           {j \in Jobs : \/ rows[j].status \in Active /\ rows[j].printer \notin Lan
                         \/ \E w \in Workers : /\ worker[w].at = "commit"
                                               /\ worker[w].job = j}
  BY RestartStep DEF IInv, Restart, ForgetDummies, Stray
<1>2. ASSUME NEW p \in Printers
      PROVE  /\ On(p)' \subseteq On(p)
             /\ \A j \in On(p)' : OnPrinter(rows[j], p)
  BY <1>1 DEF On
<1>3. ASSUME NEW k \in Jobs \ astray' PROVE InOrder(k)'
  <2>1. /\ InOrder(k)
        /\ rows[k].status \in Active => rows[k].printer \in Lan
        /\ \A w \in Workers : worker[w].at = "commit" => worker[w].job # k
    BY <1>1, <1>3 DEF IInv
  <2>2. /\ \A w \in Workers : ~Serves(w, k)'
        /\ \A w \in Workers, p \in Printers : ~Starts(w, k, p)
        /\ \A p \in Printers : Knows(p, k)' => Knows(p, k)
    BY <1>1, <2>1, NoJobAssumption DEF Serves, Starts, Knows, Idle
  <2>3. AloneWith(k)' /\ Current(k)' /\ Polled(k)' /\ Heard(k)' /\ Obeyed(k)'
    BY <2>2 DEF AloneWith, Current, Polled, Heard, Obeyed, Steers
  <2>4. Placed(k)' /\ Followed(k)' /\ Reported(k)'
    BY <1>1, <2>1 DEF InOrder, Placed, Followed, Reported
  <2>5. HasToItself(k)' /\ Delivered(k)'
    <3>1. ASSUME NEW p \in Printers, k \in On(p)'
          PROVE  k \in On(p) /\ On(p)' \subseteq On(p) /\ machine'[p] = machine[p]
      BY <1>1, <1>2, <2>1, <3>1 DEF OnPrinter
    <3> QED
      BY <1>1, <2>1, <3>1 DEF InOrder, HasToItself, Delivered
  <2>6. KnownAtHome(k)'
    BY <1>1, <2>1, <2>2 DEF InOrder, KnownAtHome
  <2>7. NotForgotten(k)'
    BY <1>1 DEF NotForgotten, Busy, Idle
  <2> QED
    BY <2>3, <2>4, <2>5, <2>6, <2>7 DEF InOrder
<1> QED
  BY <1>1, <1>3 DEF IInv

(* Nothing is loaded, and no printer works, at the start.                  *)
LEMMA InitInOrder == Init => IInv
<1> SUFFICES ASSUME Init PROVE IInv
  OBVIOUS
<1>1. /\ Base /\ \A w \in Workers : worker[w] = Resting
      /\ \A j \in Jobs : rows[j].status = "QUEUED"
      /\ \A p \in Printers : machine[p] = Idle /\ mailbox[p] = <<>>
  BY BaseInit DEF Init, DriversInit
<1>2. ASSUME NEW k \in Jobs PROVE InOrder(k)
  <2>1. /\ \A w \in Workers : ~Serves(w, k)
        /\ \A p \in Printers : k \notin On(p) /\ ~Knows(p, k)
    BY <1>1, NoJobAssumption DEF Serves, On, OnPrinter, Active, Knows, Idle
  <2>2. AloneWith(k) /\ Current(k) /\ Polled(k) /\ Heard(k) /\ Obeyed(k)
    BY <2>1 DEF AloneWith, Current, Polled, Heard, Obeyed, Steers
  <2>3. HasToItself(k) /\ Delivered(k) /\ KnownAtHome(k)
    BY <2>1 DEF HasToItself, Delivered, KnownAtHome
  <2>4. Placed(k) /\ Followed(k) /\ Reported(k) /\ NotForgotten(k)
    BY <1>1 DEF Placed, Followed, Reported, NotForgotten, Active, Busy, Idle
  <2> QED
    BY <2>2, <2>3, <2>4 DEF InOrder
<1> QED
  BY <1>1, <1>2 DEF IInv

(* Every step keeps the jobs in order that it does not lead astray.        *)
LEMMA OrderStep == IInv /\ [Next]_vars => IInv'
<1> SUFFICES ASSUME IInv, [Next]_vars PROVE IInv'
  OBVIOUS
<1>0. Base'
  BY BaseStep DEF IInv
<1>1. ASSUME NEW w \in Workers, Arrive(w) PROVE IInv'
  <2>1. ASSUME NEW j \in Jobs, Poll(w, j) PROVE IInv'
    BY <2>1, LoadInOrder, NoPrinterAssumption DEF Poll, Handlers
  <2>2. ASSUME NEW j \in Jobs, Steer(w, j) PROVE IInv'
    BY <2>2, LoadInOrder, NoPrinterAssumption DEF Steer, Handlers
  <2>3. ASSUME NEW j \in Jobs, NEW p \in Printers, Start(w, j, p) PROVE IInv'
    BY <2>3, LoadInOrder DEF Start, Handlers
  <2> QED
    BY <1>1, <2>1, <2>2, <2>3 DEF Arrive
<1>2. ASSUME NEW w \in Workers, worker[w] # Resting, Rests(w),
             UNCHANGED <<rows, registry, driverVars>>, astray \subseteq astray',
             worker[w].at = "commit" => worker[w].job \in astray'
      PROVE  IInv'
  BY <1>0, <1>2, RestInOrder DEF IInv
<1>3. ASSUME NEW w \in Workers, Answer(w) PROVE IInv'
  BY <1>2, <1>3, ServingFacts DEF Answer, tables, IInv
<1>4. ASSUME NEW w \in Workers, FinishFails(w) PROVE IInv'
  BY <1>2, <1>4, ServingFacts DEF FinishFails, Stray, IInv
<1>5. ASSUME NEW w \in Workers, Abort(w) PROVE IInv'
  BY <1>2, <1>5 DEF Abort, Stray
<1>6. ASSUME NEW w \in Workers, Proceed(w) PROVE IInv'
  BY <1>3, <1>4, <1>6, SyncReadInOrder, SyncCommitInOrder, CallInOrder, FinishInOrder DEF Proceed
<1>7. ASSUME NEW p \in Printers, UpdatePrinter(p) PROVE IInv'
  BY <1>0, <1>7, SameInOrder DEF IInv, UpdatePrinter
<1>8. CASE UNCHANGED vars
  <2>1. UNCHANGED <<rows, worker, driverVars>> /\ astray' = astray
    BY <1>8 DEF vars, driverVars
  <2> QED
    BY <1>0, <2>1, SameInOrder DEF IInv
<1> QED
  BY <1>1, <1>5, <1>6, <1>7, <1>8, DeleteInOrder, EnvironmentInOrder, RestartInOrder DEF Next

(* The invariant holds always.                                             *)
LEMMA Invariance == Spec => []IInv
BY InitInOrder, OrderStep, PTL DEF Spec

-----------------------------------------------------------------------------
(* The properties.                                                         *)

(* Any number of jobs, workers and printers of either kind: no job that    *)
(* nothing has come between is reported FINISHED before it was printed.    *)
THEOREM FinishedWasPrinted == Spec => []OwnPrintsAreReported
<1>1. IInv => OwnPrintsAreReported
  BY DEF IInv, InOrder, Reported, OwnPrintsAreReported
<1> QED
  BY <1>1, Invariance, PTL

(* An active job is the one its simulated printer works on.                *)
THEOREM TableTellsTheTruth == Spec => []JobAndPrinterAgree
<1>1. IInv => JobAndPrinterAgree
  BY DEF IInv, InOrder, Followed, Placed, JobAndPrinterAgree
<1> QED
  BY <1>1, Invariance, PTL

(* What a sync does to the row of a job in order: it ends a job that its   *)
(* printer has ended, or repeats what another request has committed.       *)
LEMMA SyncCommitEnds ==
  ASSUME IInv, NEW w \in Workers, SyncCommit(w),
         NEW j \in Jobs \ astray, j = worker[w].job
  PROVE  /\ rows'[j] \in Row /\ rows' = [rows EXCEPT ![j] = rows'[j]]
         /\ rows'[j].printer = rows[j].printer
         /\ \/ rows'[j] = rows[j]
            \/ /\ rows[j].status \in Active
               /\ \/ rows'[j].status = "FINISHED" /\ j \in printed'
                  \/ rows'[j].status = "FAILED" /\ rows[j].printer \in Lan
               /\ rows[j].printer \in Lan \/ rows[j].status = "PRINTING"
<1>1. /\ worker[w] \in Serving /\ RequestOK(worker[w]) /\ worker[w].at = "syncCommit"
      /\ rows \in [Jobs -> Row] /\ rows[j] \in Row /\ printed' = printed
  BY SyncCommitStep DEF IInv, Base, TypeOK, driverVars
<1>2. /\ rows' = [rows EXCEPT ![j] = rows'[j]] /\ rows'[j] \in Row
      /\ rows'[j].status = Ended(worker[w].answer) /\ rows'[j].printer = rows[j].printer
  BY <1>1, SyncCommitStep DEF IInv
<1>3. PICK p \in Printers : p = worker[w].loaded.printer
  BY <1>1, AskedIsOn DEF IInv, Serves, Resting
<1>4. InOrder(j) /\ Serves(w, j) /\ worker[w].loaded.status \in Active /\ j \in On(p)
  BY <1>1, <1>3, AskedIsOn, ServingFacts DEF IInv, Serves
<1>5. machine[p].status = worker[w].answer /\ worker[w].answer \in {"FINISHED", "ERROR"}
  BY <1>1, <1>3, <1>4 DEF InOrder, Heard, RequestOK
<1>6. MachineOK(machine[p], printed) /\ (p \in Lan \/ machine[p].status # "ERROR")
  BY PrinterFacts DEF IInv, Base
<1>7. \/ rows[j].status \in Active /\ rows[j].printer = p
      \/ rows[j].printer = p /\ EndOf(machine[p], rows[j].status)
  <2>1. CASE Steers(w, j)
    BY <1>3, <1>4, <2>1 DEF InOrder, Current
  <2>2. CASE ~Steers(w, j)
    BY <1>3, <1>4, <2>2 DEF InOrder, Polled
  <2> QED
    BY <2>1, <2>2
<1>8. CASE rows[j].status \in Active /\ rows[j].printer = p
  <2>1. machine[p].status = "FINISHED" => j \in printed
    BY <1>4, <1>6 DEF InOrder, Delivered, MachineOK, Idle
  <2>2. p \notin Lan => rows[j].status = "PRINTING"
    <3>1. ASSUME NEW v \in Workers, worker[v].at = "commit", worker[v].job = j PROVE FALSE
      <4>1. Serves(v, j) /\ Steers(v, j)
        BY <3>1, ServingFacts DEF IInv, Serves, Steers, RequestOK
      <4> QED
        BY <1>1, <1>4, <3>1, <4>1 DEF InOrder, AloneWith
    <3>2. p \notin Lan => Follows(j, machine[p])
      BY <1>4, <1>8, <3>1 DEF InOrder, Followed, Commanded
    <3> QED
      BY <1>5, <1>8, <3>2 DEF Follows, Active
  <2> QED
    BY <1>1, <1>2, <1>5, <1>6, <1>8, <2>1, <2>2 DEF Ended
<1>9. CASE EndOf(machine[p], rows[j].status)
  <2>1. rows'[j].status = rows[j].status
    BY <1>2, <1>5, <1>9 DEF EndOf, Ended
  <2> QED
    BY <1>1, <1>2, <2>1 DEF Row
<1> QED
  BY <1>7, <1>8, <1>9

(* What a handler does to the row of a job in order.                       *)
LEMMA FinishMoves ==
  ASSUME IInv, NEW w \in Workers, Finish(w),
         NEW j \in Jobs \ astray, j = worker[w].job
  PROVE  /\ rows' = [rows EXCEPT ![j] = rows'[j]] /\ rows'[j] \in Row /\ rows[j] \in Row
         /\ rows'[j].status = Outcome[worker[w].op]
         /\ worker[w].op # "start" => rows'[j].printer = rows[j].printer
         /\ \/ /\ worker[w].op = "start" /\ rows[j].status = "QUEUED"
               /\ rows'[j].printer \in Printers /\ j \in On(rows'[j].printer)
            \/ worker[w].op = "pause" /\ rows[j].status = "PRINTING"
            \/ worker[w].op = "resume" /\ rows[j].status = "PAUSED"
            \/ worker[w].op = "cancel" /\ rows[j].status \in Active
<1>1. /\ worker[w] \in Serving /\ RequestOK(worker[w]) /\ worker[w].at = "commit"
      /\ Admits(worker[w].op, worker[w].loaded)
      /\ rows \in [Jobs -> Row] /\ rows[j] \in Row
  BY FinishStep DEF IInv, Base, TypeOK
<1>2. /\ rows' = [rows EXCEPT ![j] = rows'[j]] /\ rows'[j] \in Row
      /\ rows'[j].status = Outcome[worker[w].op]
      /\ rows'[j].printer = IF worker[w].op = "start" THEN worker[w].printer ELSE rows[j].printer
  BY <1>1, FinishStep DEF IInv
<1>3. Serves(w, j) /\ Steers(w, j) /\ InOrder(j)
  BY <1>1, ServingFacts DEF IInv, Serves, Steers, RequestOK
<1>4. worker[w].loaded.status = rows[j].status
  BY <1>3 DEF InOrder, Current
<1>5. /\ worker[w].op \in {"start", "pause", "resume", "cancel"}
      /\ worker[w].op = "start" => rows[j].status = "QUEUED" /\ worker[w].printer \in Printers
      /\ worker[w].op # "start" => rows[j].status \in Active
      /\ worker[w].op = "pause" => rows[j].status = "PRINTING"
      /\ worker[w].op = "resume" => rows[j].status = "PAUSED"
  BY <1>1, <1>4, AdmitsFacts DEF RequestOK, Serving
<1>6. worker[w].op = "start" => j \in On(worker[w].printer)
  BY <1>1, <1>3, <1>5, OnFacts DEF Holds
<1> QED
  BY <1>1, <1>2, <1>5, <1>6

(* The only steps that write a status.                                     *)
LEMMA StatusSteps ==
  ASSUME IInv, [Next]_vars, NEW j \in Jobs, rows'[j].status # rows[j].status
  PROVE  \E w \in Workers : (SyncCommit(w) \/ Finish(w)) /\ worker[w].job = j
<1>1. ASSUME NEW w \in Workers, SyncCommit(w) \/ Finish(w) PROVE worker[w].job = j
  <2>1. PICK row \in Row : rows' = [rows EXCEPT ![worker[w].job] = row]
    BY <1>1, SyncCommitStep, FinishStep DEF IInv
  <2> QED
    BY <2>1 DEF IInv, Base, TypeOK
<1>2. ASSUME NEW w \in Workers, Proceed(w), ~SyncCommit(w), ~Finish(w) PROVE rows' = rows
  BY <1>2 DEF Proceed, SyncRead, Call, Answer, FinishFails
<1>3. ASSUME NEW w \in Workers, Arrive(w) \/ Abort(w) PROVE rows' = rows
  BY <1>3 DEF Arrive, Poll, Steer, Start, Load, Abort
<1>4. ASSUME NEW p \in Printers, DeletePrinter(p) \/ UpdatePrinter(p) \/ Environment(p)
      PROVE  rows'[j].status = rows[j].status
  BY <1>4 DEF DeletePrinter, UpdatePrinter, Environment, Outside, IInv, Base, TypeOK, Row
<1>5. Restart \/ UNCHANGED vars => rows' = rows
  BY DEF Restart, vars
<1> QED
  BY <1>1, <1>2, <1>3, <1>4, <1>5 DEF Next

(* No job that nothing has come between changes its status once it is over.*)
THEOREM FinalStatusStays == Spec => FinalStatusIsFinal
<1>1. ASSUME IInv, [Next]_vars, NEW j \in Jobs \ astray, rows[j].status \in Final,
             rows'[j].status # rows[j].status
      PROVE  FALSE
  <2>1. PICK w \in Workers : (SyncCommit(w) \/ Finish(w)) /\ worker[w].job = j
    BY <1>1, StatusSteps
  <2>2. rows[j].status \notin Active /\ rows[j].status # "QUEUED"
    BY <1>1 DEF Final, Active
  <2>3. CASE SyncCommit(w)
    BY <1>1, <2>1, <2>2, <2>3, SyncCommitEnds
  <2>4. CASE Finish(w)
    BY <1>1, <2>1, <2>2, <2>4, FinishMoves DEF Active
  <2> QED
    BY <2>1, <2>3, <2>4
<1>2. IInv /\ [Next]_vars =>
        [\A j \in Jobs \ astray : rows[j].status \in Final => rows'[j].status = rows[j].status]_vars
  BY <1>1
<1> QED
  BY <1>2, Invariance, PTL DEF Spec, FinalStatusIsFinal

(* On a simulated printer, such a job moves along the table of transitions.*)
THEOREM ReportsFollowTheTable == Spec => StatusFollowsTheTable
<1>1. ASSUME IInv, [Next]_vars, NEW j \in Jobs \ astray
      PROVE  \/ rows'[j].status = rows[j].status
             \/ rows[j].printer \in Lan
             \/ Allowed(rows[j].status, rows'[j].status)
             \/ rows[j].status = "QUEUED" /\ rows'[j].status = "PRINTING"
  <2> SUFFICES ASSUME rows'[j].status # rows[j].status, rows[j].printer \notin Lan
               PROVE  \/ Allowed(rows[j].status, rows'[j].status)
                      \/ rows[j].status = "QUEUED" /\ rows'[j].status = "PRINTING"
    OBVIOUS
  <2>1. PICK w \in Workers : (SyncCommit(w) \/ Finish(w)) /\ worker[w].job = j
    BY <1>1, StatusSteps
  <2>2. /\ Allowed("PRINTING", "FINISHED") /\ Allowed("PRINTING", "PAUSED")
        /\ Allowed("PAUSED", "PRINTING")
        /\ Allowed("PRINTING", "CANCELLED") /\ Allowed("PAUSED", "CANCELLED")
    BY DEF Allowed, AllowedTransitions
  <2>3. CASE SyncCommit(w)
    BY <1>1, <2>1, <2>2, <2>3, SyncCommitEnds
  <2>4. CASE Finish(w)
    BY <1>1, <2>1, <2>2, <2>4, FinishMoves DEF Outcome, Active
  <2> QED
    BY <2>1, <2>3, <2>4
<1>2. IInv /\ [Next]_vars =>
        [\A j \in Jobs \ astray :
           \/ rows'[j].status = rows[j].status
           \/ rows[j].printer \in Lan
           \/ Allowed(rows[j].status, rows'[j].status)
           \/ rows[j].status = "QUEUED" /\ rows'[j].status = "PRINTING"]_vars
  BY <1>1
<1> QED
  BY <1>2, Invariance, PTL DEF Spec, StatusFollowsTheTable

-----------------------------------------------------------------------------
(* The board behind the print service.                                     *)

(* The board sees no job on a printer that is not there.                   *)
LEMMA OnBoard ==
  ASSUME NEW p
  PROVE  /\ Board!On(p) = {j \in Jobs : OnPrinter(rows[j], p)}
         /\ p \in Printers => Board!On(p) \subseteq On(p)
BY DEF Board!On, Board!Active, Active, On, OnPrinter

(* A sync is a job that ends, wanders, or stays as it is.                  *)
LEMMA SyncCommitOnBoard ==
  ASSUME IInv, NEW w \in Workers, SyncCommit(w)
  PROVE  Board!Next \/ UNCHANGED Board!vars
<1>1. PICK j \in Jobs : j = worker[w].job
  BY SyncCommitStep, ServingFacts DEF IInv
<1>2. printed' = printed /\ astray' = astray
  BY SyncCommitStep DEF IInv, tables, driverVars
<1>3. CASE j \in astray
  <2>1. PICK row \in Row : /\ rows' = [rows EXCEPT ![j] = row]
                           /\ row.status = Ended(worker[w].answer)
    BY <1>1, SyncCommitStep DEF IInv
  <2>2. row.status \notin Board!Active /\ row \in Board!Entry
    BY <2>1 DEF Ended, Board!Active, Board!Entry, Row, Final, Active, Board!Final
  <2>3. Board!Wander(j)
    BY <1>2, <1>3, <2>1, <2>2 DEF Board!Wander
  <2> QED
    BY <2>3 DEF Board!Next
<1>4. CASE j \notin astray
  <2>1. rows \in [Jobs -> Row]
    BY DEF IInv, Base, TypeOK
  <2>2. /\ rows'[j] \in Row /\ rows' = [rows EXCEPT ![j] = rows'[j]]
        /\ rows'[j].printer = rows[j].printer
        /\ \/ rows'[j] = rows[j]
           \/ /\ rows[j].status \in Active
              /\ \/ rows'[j].status = "FINISHED" /\ j \in printed'
                 \/ rows'[j].status = "FAILED" /\ rows[j].printer \in Lan
              /\ rows[j].printer \in Lan \/ rows[j].status = "PRINTING"
    BY <1>1, <1>4, SyncCommitEnds
  <2>3. CASE rows'[j] = rows[j]
    BY <1>2, <2>1, <2>2, <2>3 DEF Board!vars
  <2>4. rows' = [rows EXCEPT ![j].status = rows'[j].status]
    BY <2>1, <2>2 DEF Row
  <2>5. CASE /\ rows[j].status \in Active /\ rows'[j].status = "FINISHED" /\ j \in printed'
             /\ rows[j].printer \in Lan \/ rows[j].status = "PRINTING"
    <3>1. Board!Finish(j)
      BY <1>2, <2>4, <2>5 DEF Board!Finish, Board!Moves, Board!Ongoing, Board!Active, Active
    <3> QED
      BY <3>1 DEF Board!Next
  <2>6. CASE rows[j].status \in Active /\ rows'[j].status = "FAILED" /\ rows[j].printer \in Lan
    <3>1. Board!Fail(j)
      BY <1>2, <2>4, <2>6 DEF Board!Fail, Board!Moves, Board!Active, Active
    <3> QED
      BY <3>1 DEF Board!Next
  <2> QED
    BY <2>2, <2>3, <2>5, <2>6
<1> QED
  BY <1>3, <1>4

(* A commit of a handler begins, pauses, resumes or cancels a print, on a  *)
(* printer that the job has to itself; or it is of a job gone astray.      *)
LEMMA FinishOnBoard ==
  ASSUME IInv, NEW w \in Workers, Finish(w)
  PROVE  Board!Next
<1>1. PICK j \in Jobs : j = worker[w].job
  BY FinishStep, ServingFacts DEF IInv
<1>2. printed' = printed /\ astray' = astray /\ rows \in [Jobs -> Row]
  BY FinishStep DEF IInv, tables, driverVars, Base, TypeOK
<1>3. CASE j \in astray
  <2>1. PICK row \in Row :
          /\ rows' = [rows EXCEPT ![j] = row]
          /\ row.printer = IF worker[w].op = "start" THEN worker[w].printer ELSE rows[j].printer
    BY <1>1, FinishStep DEF IInv
  <2>2. row \in Board!Entry
    BY <2>1 DEF Board!Entry, Row, Board!Active, Board!Final, Active, Final
  <2>3. /\ worker[w] \in Serving /\ RequestOK(worker[w]) /\ worker[w].at = "commit"
        /\ Admits(worker[w].op, worker[w].loaded) /\ Serves(w, j)
    BY <1>1, FinishStep, ServingFacts DEF IInv, Serves
  <2>4. worker[w].op # "start" => worker[w].loaded.status \in Active
    BY <2>3, AdmitsFacts DEF Serving
  <2>5. ASSUME NEW k \in Board!On(row.printer) PROVE k \in astray
    <3>1. k \in Jobs /\ OnPrinter(rows[k], row.printer)
      BY OnBoard
    <3> SUFFICES ASSUME k \notin astray PROVE FALSE
      OBVIOUS
    <3>2. InOrder(k) /\ row.printer \in Printers
      BY <3>1 DEF IInv, InOrder, Placed, OnPrinter
    <3>3. k \in On(row.printer) /\ On(row.printer) \subseteq {k}
      BY <3>1, <3>2, OnFacts DEF InOrder, HasToItself
    <3>4. Holds(worker[w], row.printer)
      BY <1>1, <2>1, <2>3, <2>4 DEF Holds
    <3>5. j \in On(row.printer)
      BY <2>3, <3>2, <3>4, OnFacts
    <3> QED
      BY <1>3, <3>3, <3>5
  <2>6. Board!Wander(j)
    BY <1>2, <1>3, <2>1, <2>2, <2>5 DEF Board!Wander
  <2> QED
    BY <2>6 DEF Board!Next
<1>4. CASE j \notin astray
  <2>1. /\ rows' = [rows EXCEPT ![j] = rows'[j]] /\ rows'[j] \in Row /\ rows[j] \in Row
        /\ rows'[j].status = Outcome[worker[w].op]
        /\ worker[w].op # "start" => rows'[j].printer = rows[j].printer
        /\ \/ /\ worker[w].op = "start" /\ rows[j].status = "QUEUED"
              /\ rows'[j].printer \in Printers /\ j \in On(rows'[j].printer)
           \/ worker[w].op = "pause" /\ rows[j].status = "PRINTING"
           \/ worker[w].op = "resume" /\ rows[j].status = "PAUSED"
           \/ worker[w].op = "cancel" /\ rows[j].status \in Active
    BY <1>1, <1>4, FinishMoves
  <2>2. ASSUME worker[w].op # "start"
        PROVE  rows' = [rows EXCEPT ![j].status = Outcome[worker[w].op]]
    BY <1>2, <2>1, <2>2 DEF Row
  <2>3. CASE worker[w].op = "start"
    <3>1. PICK p \in Printers : p = rows'[j].printer /\ j \in On(p)
      BY <2>1, <2>3
    <3>2. On(p) \subseteq {j}
      BY <1>4, <3>1 DEF IInv, InOrder, HasToItself
    <3>3. Board!On(p) = {}
      BY <2>1, <2>3, <3>2, OnBoard DEF OnPrinter, Active
    <3>4. rows'[j] = [status |-> "PRINTING", printer |-> p]
      BY <2>1, <2>3, <3>1 DEF Row, Outcome
    <3>5. Board!Begin(j, p)
      BY <1>2, <2>1, <2>3, <3>3, <3>4 DEF Board!Begin
    <3> QED
      BY <3>5 DEF Board!Next
  <2>4. CASE worker[w].op = "pause"
    <3>1. Board!Pause(j)
      BY <1>2, <2>1, <2>2, <2>4 DEF Board!Pause, Board!Moves, Outcome
    <3> QED
      BY <3>1 DEF Board!Next
  <2>5. CASE worker[w].op = "resume"
    <3>1. Board!Resume(j)
      BY <1>2, <2>1, <2>2, <2>5 DEF Board!Resume, Board!Moves, Outcome
    <3> QED
      BY <3>1 DEF Board!Next
  <2>6. CASE worker[w].op = "cancel"
    <3>1. Board!Cancel(j)
      BY <1>2, <2>1, <2>2, <2>6 DEF Board!Cancel, Board!Moves, Outcome, Board!Active, Active
    <3> QED
      BY <3>1 DEF Board!Next
  <2> QED
    BY <2>1, <2>3, <2>4, <2>5, <2>6
<1> QED
  BY <1>3, <1>4

(* What a dummy prints of a job in order is not over yet.                  *)
LEMMA PrintEndsOnBoard ==
  ASSUME IInv, NEW p \in Printers, PrintEnds(p), UNCHANGED <<rows, worker, tables>>
  PROVE  Board!Next
<1>1. PICK j : j = machine[p].job
  OBVIOUS
<1>2. j \in Jobs /\ Busy(machine[p]) /\ machine[p].status = "PRINTING"
      /\ printed' = printed \cup {j} /\ astray' = astray
  BY <1>1, EndOK, PrinterFacts DEF PrintEnds, Busy, IInv, Base, tables
<1>3. \/ j \in astray
      \/ rows[j].status \in {"QUEUED"} \cup Active
      \/ rows[j].printer \notin Printers \ Lan
  <2> SUFFICES ASSUME j \notin astray, rows[j].status \notin {"QUEUED"} \cup Active,
                      rows[j].printer \in Printers \ Lan
               PROVE  FALSE
    OBVIOUS
  <2>1. InOrder(j)
    BY <1>2 DEF IInv
  <2>2. rows[j].printer = p
    BY <1>1, <2>1, NoPrinterAssumption DEF InOrder, KnownAtHome, Knows
  <2>3. j \in On(p)
    BY <1>1, <1>2, <2>1, <2>2 DEF InOrder, NotForgotten
  <2>4. PICK w \in Workers : Serves(w, j) /\ Holds(worker[w], p)
    BY <1>2, <2>3, OnFacts DEF OnPrinter
  <2>5. worker[w] \in Serving /\ RequestOK(worker[w]) /\ worker[w].loaded \in Row
    BY <2>4, ServingFacts DEF IInv, Serves
  <2>6. worker[w].loaded.status \in {"QUEUED"} \cup Active
    BY <2>4, <2>5, AdmitsFacts, NoPrinterAssumption DEF Holds, RequestOK
  <2>7. CASE Steers(w, j)
    BY <2>1, <2>6, <2>7 DEF InOrder, Current
  <2>8. CASE ~Steers(w, j)
    BY <1>2, <2>1, <2>2, <2>4, <2>6, <2>8 DEF InOrder, Polled, EndOf
  <2> QED
    BY <2>7, <2>8
<1>4. Board!ComesOut(j)
  BY <1>2, <1>3 DEF Board!ComesOut, Board!Active, Active
<1> QED
  BY <1>2, <1>4 DEF Board!Next

(* Every step of the print service is one of the board, or none.           *)
LEMMA BoardStep ==
  ASSUME IInv, [Next]_vars
  PROVE  Board!Next \/ UNCHANGED Board!vars
<1>0. astray' \subseteq Jobs
  BY BaseStep DEF IInv, Base, TypeOK
<1>1. ASSUME UNCHANGED <<rows, printed>>, astray \subseteq astray'
      PROVE  Board!Next
  <2>1. Board!GoAstray
    BY <1>0, <1>1 DEF Board!GoAstray
  <2> QED
    BY <2>1 DEF Board!Next
<1>2. ASSUME NEW w \in Workers, Arrive(w) \/ Abort(w) PROVE Board!Next
  BY <1>1, <1>2 DEF Arrive, Poll, Steer, Start, Load, Abort, Stray, driverVars
<1>3. ASSUME NEW w \in Workers, Proceed(w), ~SyncCommit(w), ~Finish(w) PROVE Board!Next
  <2>1. ASSUME Call(w) PROVE Board!Next
    <3>1. UNCHANGED <<rows, printed>> /\ astray \subseteq astray'
      BY <2>1, CallStep DEF IInv, Call, Stray
    <3> QED
      BY <1>1, <3>1
  <2> QED
    BY <1>1, <1>3, <2>1 DEF Proceed, SyncRead, Answer, FinishFails, Stray, tables, driverVars
<1>4. ASSUME NEW p \in Printers, DeletePrinter(p) PROVE Board!Next
  <2>1. Board!On(p) \subseteq On(p) /\ On(p) \subseteq Jobs
    BY OnBoard DEF On
  <2>2. Board!Unplug(p)
    BY <1>4, <2>1 DEF DeletePrinter, Stray, driverVars, Board!Unplug
  <2> QED
    BY <2>2 DEF Board!Next
<1>5. ASSUME NEW p \in Printers, UpdatePrinter(p) PROVE Board!Next
  BY <1>1, <1>5 DEF UpdatePrinter, driverVars
<1>6. ASSUME NEW p \in Printers, Environment(p) PROVE Board!Next
  <2>1. CASE Outside(PrintEnds(p))
    BY <2>1, PrintEndsOnBoard DEF Outside
  <2>2. CASE ~Outside(PrintEnds(p))
    BY <1>1, <1>6, <2>2 DEF Environment, Outside, Receive, PrintFails, Lose, tables
  <2> QED
    BY <2>1, <2>2
<1>7. CASE Restart
  BY <1>1, <1>7 DEF Restart, ForgetDummies, Stray
<1>8. CASE UNCHANGED vars
  BY <1>8 DEF vars, driverVars, Board!vars
<1> QED
  BY <1>2, <1>3, <1>4, <1>5, <1>6, <1>7, <1>8, SyncCommitOnBoard, FinishOnBoard DEF Next

(* The print service, with requests, drivers and printers, implements the  *)
(* board of jobs.                                                          *)
THEOREM PrintServiceImplementsPrintBoard == Spec => ImplementsPrintBoard
<1>1. Init => Board!Init
  BY DEF Init, DriversInit, Board!Init
<1>2. IInv /\ [Next]_vars => [Board!Next]_(Board!vars)
  BY BoardStep
<1> QED
  BY <1>1, <1>2, Invariance, PTL DEF Spec, ImplementsPrintBoard, Board!Spec
=============================================================================
