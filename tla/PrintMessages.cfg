SPECIFICATION FairSpec
CONSTANTS
  Jobs = {j1, j2}
  Printers = {p1}
  Workers = {w1}
  NoJob = NoJob
  NoPrinter = NoPrinter
  MailboxSize = 1
  Lan <- AllPrinters
  Requests <- PageRequests
  Faults <- MessageFaults
INVARIANTS
  OwnPrintsAreReported
PROPERTIES
  ImplementsPrintBoard
  PrintsSettle
CHECK_DEADLOCK FALSE
