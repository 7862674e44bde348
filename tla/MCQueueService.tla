---------------------------- MODULE MCQueueService ----------------------------
(* Instances of QueueService for TLC. *)
EXTENDS QueueService

\* Lists of ids: parts of the queue, and lists that repeat an id, are among them.
Lists == BoundedSeq(Jobs, Cardinality(Jobs))

NoLists == {}

EveryRequest == {"approve", "reject", "unapprove", "sync", "slice", "enqueue",
                 "remove", "start", "reorder", "move"}

\* The requests that write a status or a position of a job in the queue.
QueueRequests == {"approve", "unapprove", "enqueue", "remove", "start", "sync", "move"}

\* Teachers who only approve and enqueue.
EnqueueRequests == {"approve", "enqueue"}

Symmetry == Permutations(Jobs) \cup Permutations(Workers)
=============================================================================
