----------------------------- MODULE MCLimits -----------------------------
(* The limited runs of the Limits check. *)
EXTENDS Limits

\* Two calls at a time that may fail, and a cap on them
Capped == [width |-> 2, steps |-> 3, kinds |-> {"a", "agent"}, old |-> <<>>, maxTokens |-> 0, maxToolCalls |-> 3,
           maxRepeats |-> 0, resumes |-> 2, crashes |-> 0, reflect |-> FALSE, confirm |-> FALSE,
           sideEffect |-> TRUE, fails |-> TRUE]
\* One call at a time, a nudge before the block, and a history
Nudged == [Capped EXCEPT !.width = 1, !.steps = 4, !.kinds = {"a", "b"}, !.old = <<"b", "a">>,
                         !.maxToolCalls = 0, !.maxRepeats = 2, !.reflect = TRUE]
\* Two identical or different calls at a time
Looping == [Capped EXCEPT !.kinds = {"a", "b"}, !.maxToolCalls = 0, !.maxRepeats = 3, !.fails = FALSE, !.resumes = 1]
\* Tokens of the run and of its sub-agents, and limits that came late
Spending == [Capped EXCEPT !.old = <<"a", "agent">>, !.steps = 2, !.maxTokens = 4, !.maxToolCalls = 5, !.fails = FALSE]
\* Processes that die, with a history and without one
Dying == [Spending EXCEPT !.kinds = {"a"}, !.old = <<"a", "a">>, !.crashes = 1, !.maxToolCalls = 0]
Reborn == [Capped EXCEPT !.steps = 2, !.maxTokens = 3, !.crashes = 2, !.maxToolCalls = 1, !.fails = FALSE]
\* Three calls that a human is asked about
Asked == [Capped EXCEPT !.width = 3, !.steps = 1, !.kinds = {"a"}, !.maxToolCalls = 2, !.confirm = TRUE, !.fails = FALSE]
\* One call at a time that a human is asked about
Approved == [Nudged EXCEPT !.steps = 3, !.old = <<>>, !.resumes = 4, !.confirm = TRUE, !.fails = FALSE]
\* No limit that needs a count: the outcome hook seeds
Hooked == [Capped EXCEPT !.width = 3, !.steps = 1, !.kinds = {"a"}, !.maxToolCalls = 0, !.resumes = 1, !.fails = FALSE]
\* As many parallel calls as the chain's compare-and-set can bear
Crowded == [Spending EXCEPT !.width = 4, !.steps = 1, !.kinds = {"a"}, !.old = <<"a", "a", "a", "a">>,
                            !.maxToolCalls = 0, !.resumes = 1]

MCPlans == {Capped, Nudged, Looping, Spending, Dying, Reborn, Asked, Approved, Hooked,
            Crowded}
=============================================================================
