---------------------------- MODULE MCQueueWorker ----------------------------
(* The queues of the QueueWorker run. *)
EXTENDS QueueWorker

CONSTANTS w1, w2

TwoWorkers == {w1, w2}

\* Two workers on three pages, nothing goes wrong (Passed, before its fault)
Pages == [pageSize |-> 1, maxAttempts |-> 1, throws |-> FALSE, skew |-> FALSE, erases |-> FALSE,
          workers |-> TwoWorkers, jobs |-> 3, faults |-> 0]

\* Two workers on two pages: throwing and missing handlers, and a fault
Faulty == [Pages EXCEPT !.throws = TRUE, !.jobs = 2, !.faults = 1]

\* One worker on one page: retries, appends out of order, erasure, and a fault
Erased == [Faulty EXCEPT !.pageSize = 2, !.maxAttempts = 2, !.skew = TRUE, !.erases = TRUE, !.workers = {w1}]

\* Two workers on three pages, and a crash, a stall or a lost renewal
Passed == [Pages EXCEPT !.faults = 1]

\* One worker on three pages: appends out of order and erasure shift the offsets
Shifted == [Pages EXCEPT !.skew = TRUE, !.erases = TRUE, !.workers = {w1}]

\* Two workers on one job that is erased
Under == [Pages EXCEPT !.jobs = 1, !.erases = TRUE]

MCSettings == {Faulty, Erased, Passed, Shifted, Under}
=============================================================================
