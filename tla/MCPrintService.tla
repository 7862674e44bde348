---------------------------- MODULE MCPrintService ----------------------------
(* Instances of PrintService for TLC. *)
EXTENDS PrintService, TLC

\* Everything but the edits of the registry.
PrintRequests == Handlers

AllRequests == Handlers \cup {"delete", "update"}

\* What the liveness run leaves out: resume, for its size, and delete_printer.
PageRequests == {"poll", "start", "pause", "cancel", "update"}

NoFaults == {}

ProcessFaults == {"abort", "restart"}

MessageFaults == {"abort", "lose"}

AllPrinters == Printers

NoPrinters == {}

Symmetry == Permutations(Jobs) \cup Permutations(Workers)
=============================================================================
