SPECIFICATION Spec
CONSTANTS
  Jobs = {j1, j2}
  Printers = {p1}
  Workers = {w1}
  NoJob = NoJob
  NoPrinter = NoPrinter
  MailboxSize = 1
  Lan <- AllPrinters
  Requests <- PrintRequests
  Faults <- NoFaults
INVARIANTS
  FinishedJobsWerePrinted
CHECK_DEADLOCK FALSE
