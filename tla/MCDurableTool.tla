---------------------------- MODULE MCDurableTool ----------------------------
(* The tools of the DurableTool runs.                                        *)
EXTENDS DurableTool

CONSTANTS w1, w2

TwoWorkers == {w1, w2}

\* A side-effect tool without hooks or gates, resumed by one worker
Plain == [mode |-> "call", sideEffect |-> TRUE, recover |-> FALSE, lookup |-> FALSE,
          timeouts |-> FALSE, gate |-> "none", attemptScope |-> FALSE, workers |-> {w1},
          maxAnswers |-> 0]

\* A tool declared idempotent: it is retried without asking anybody
Idempotent == [Plain EXCEPT !.sideEffect = FALSE]

MCTools == {[Plain EXCEPT !.workers = TwoWorkers],
            [Plain EXCEPT !.workers = TwoWorkers, !.mode = "args"],
            [Plain EXCEPT !.recover = TRUE],
            [Plain EXCEPT !.attemptScope = TRUE, !.maxAnswers = 2],
            [Plain EXCEPT !.gate = "fresh", !.attemptScope = TRUE, !.timeouts = TRUE,
                         !.maxAnswers = 3],
            [Plain EXCEPT !.gate = "any", !.attemptScope = TRUE, !.lookup = TRUE,
                         !.maxAnswers = 3],
            Idempotent}
=============================================================================
