------------------------------- MODULE FileStore -------------------------------
(***************************************************************************)
(* What the storage promises about the files of jobs, with no runs, rows   *)
(* or transactions: a job gets files until it falls due, its files may be  *)
(* removed from then on, one by one, and a job is erased for good when     *)
(* none is left.                                                           *)
(***************************************************************************)
CONSTANTS Jobs,   \* the print jobs
          Files   \* the files they may have, with the job of each

VARIABLES stored,  \* the files kept for jobs
          due,     \* the jobs that have been over for long enough
          erased   \* the jobs without a trace on disk

vars == <<stored, due, erased>>

Init == stored = {} /\ due = {} /\ erased = {}

Store(f) == /\ f.job \notin due \cup erased
            /\ stored' = stored \cup {f}
            /\ UNCHANGED <<due, erased>>

FallDue(j) == /\ j \notin erased
              /\ due' = due \cup {j}
              /\ UNCHANGED <<stored, erased>>

Remove(f) == /\ f.job \in due
             /\ stored' = stored \ {f}
             /\ UNCHANGED <<due, erased>>

Erase(J) == /\ J \subseteq due
            /\ \A f \in stored : f.job \notin J
            /\ erased' = erased \cup J
            /\ UNCHANGED <<stored, due>>

Next == \/ \E f \in Files : Store(f) \/ Remove(f)
        \/ \E j \in Jobs : FallDue(j)
        \/ \E J \in SUBSET Jobs : Erase(J)

Spec == Init /\ [][Next]_vars
================================================================================
