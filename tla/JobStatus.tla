------------------------------- MODULE JobStatus -------------------------------
(***************************************************************************)
(* The status machine of a print job: the values of PrintJobStatus and the *)
(* table of transitions the services consult before they change a status.  *)
(***************************************************************************)

AllowedTransitions ==
  [ SUBMITTED      |-> {"APPROVED", "REJECTED"},
    REJECTED       |-> {"DELETED"},
    APPROVED       |-> {"SUBMITTED", "SLICING", "QUEUED"},
    SLICING        |-> {"SLICED", "FAILED"},
    SLICED         |-> {"QUEUED"},
    QUEUED         |-> {"READY_TO_PRINT", "APPROVED"},
    READY_TO_PRINT |-> {"PRINTING", "QUEUED"},
    PRINTING       |-> {"PAUSED", "FINISHED", "FAILED", "CANCELLED"},
    PAUSED         |-> {"PRINTING", "CANCELLED"},
    FINISHED       |-> {"EXPIRED", "DELETED"},
    FAILED         |-> {"EXPIRED", "DELETED"},
    CANCELLED      |-> {"EXPIRED", "DELETED"},
    EXPIRED        |-> {"DELETED"},
    DELETED        |-> {} ]

Statuses == { "SUBMITTED", "REJECTED", "APPROVED", "SLICING", "SLICED", "QUEUED",
              "READY_TO_PRINT", "PRINTING", "PAUSED", "FINISHED", "FAILED",
              "CANCELLED", "EXPIRED", "DELETED" }

\* assert_transition_allowed(current, target) raises unless this holds.
Allowed(current, target) == target \in AllowedTransitions[current]

=============================================================================
