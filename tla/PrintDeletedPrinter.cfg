SPECIFICATION Spec
CONSTANTS
  Jobs = {j1}
  Printers = {p1}
  Workers = {w1}
  NoJob = NoJob
  NoPrinter = NoPrinter
  MailboxSize = 0
  Lan <- NoPrinters
  Requests <- AllRequests
  Faults <- NoFaults
INVARIANTS
  ActiveJobsHaveAPrinter
CHECK_DEADLOCK FALSE
