SPECIFICATION Spec
CONSTANTS
  Jobs = {j1, j2}
  Printers = {p1}
  Workers = {w1, w2}
  NoJob = NoJob
  NoPrinter = NoPrinter
  MailboxSize = 0
  Lan <- NoPrinters
  Requests <- AllRequests
  Faults <- ProcessFaults
SYMMETRY Symmetry
INVARIANTS
  TypeOK
  OwnPrintsAreReported
  JobAndPrinterAgree
PROPERTIES
  FinalStatusIsFinal
  StatusFollowsTheTable
  ImplementsPrintBoard
CHECK_DEADLOCK FALSE
