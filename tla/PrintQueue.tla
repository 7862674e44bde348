------------------------------ MODULE PrintQueue ------------------------------
(***************************************************************************)
(* What the print queue promises its users, with no positions, rows or     *)
(* transactions: a list of distinct jobs.  A job joins at the end, leaves  *)
(* from any place without disturbing the order of the others, or is taken  *)
(* to be printed, which happens to a job once and for all.  A teacher may  *)
(* rearrange the list but neither adds nor loses a job by doing so.        *)
(***************************************************************************)
EXTENDS Sequences, SequencesExt

CONSTANT Jobs

VARIABLES queue,     \* the jobs waiting, next one first
          started    \* the jobs whose print was started at some time

vars == <<queue, started>>

Waiting == ToSet(queue)

Init == /\ queue = <<>>
        /\ started = {}

Join(j) == /\ j \notin Waiting \cup started
           /\ queue' = Append(queue, j)
           /\ UNCHANGED started

Ahead(a, b) == \E i, k \in DOMAIN queue : i < k /\ queue[i] = a /\ queue[k] = b

\* The list loses j, and the others keep their order.
Drop(j) == /\ queue' \in SetToSeqs(Waiting \ {j})
           /\ \A a, b \in Waiting \ {j} : Ahead(a, b)' <=> Ahead(a, b)

Leave(j) == /\ j \in Waiting
            /\ Drop(j)
            /\ UNCHANGED started

Start(j) == /\ j \in Waiting \ started
            /\ Drop(j)
            /\ started' = started \cup {j}

Rearrange == /\ queue' \in SetToSeqs(Waiting)
             /\ UNCHANGED started

Next == \/ \E j \in Jobs : Join(j) \/ Leave(j) \/ Start(j)
        \/ Rearrange

Spec == Init /\ [][Next]_vars
=============================================================================
