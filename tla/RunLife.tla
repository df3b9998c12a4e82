------------------------------ MODULE RunLife ------------------------------
(***************************************************************************)
(* The life of one agent run (packages/durable/src): admission and the     *)
(* agent loop (run.ts, durable-model.ts), the outcome record (outcome.ts), *)
(* cancelAgentRun (cancel.ts) and compensateRun (compensation.ts).         *)
(*                                                                         *)
(* The run alternates model steps 1 .. n+1 with one side-effect call after *)
(* each of the first n.  It runs under its lock (module RunLock), which    *)
(* lapses when its holder is gone; a call's own protocol is the subject of *)
(* module DurableTool and is reduced to claim, probe, execute and save.    *)
(* recover() answers truthfully.                                           *)
(***************************************************************************)
EXTENDS Naturals, FiniteSets

CONSTANTS Workers,      \* attempts at the run
          Operators,    \* callers of compensateRun
          Canceler,     \* the caller of cancelAgentRun
          Plans         \* a run's calls, who acts on it; bound: the faults

ASSUME RunLifeAssumption ==
    /\ IsFiniteSet(Workers) /\ IsFiniteSet(Operators) /\ Canceler \notin Workers /\ "free" \notin Workers
    /\ \A p \in Plans : /\ p.calls \in Nat \ {0} /\ p.faults \in Nat /\ p.attempts \in Nat
                        /\ p.cancels \in BOOLEAN /\ p.unwinds \in Nat

VARIABLES plan,         \* the element of Plans this behaviour is about
          model,        \* the journaled model steps
          tool,         \* the record of call i
          canceled,     \* the flag `__gnl_canceled`
          condemned,    \* the tombstone `__gnl_compensated`
          outcome,      \* the record `:outcome`
          clock,        \* the journal's clock
          lock,         \* the holder of the run's lock
          pc, loc,      \* a worker's and the canceler's place, and local variables
          comp,         \* the record `:comp:` of call i
          op,           \* an operator's place and local variables
          effects, refunds, \* the external world
          faults, attempts, unwinds,
          late,         \* history: a worker's model calls after the flag was set, and its
                        \* effects after the tombstone
          outlived      \* history: the calls whose claim ran out under a living operator

journal == <<model, tool, canceled, condemned, outcome>>
world == <<effects, refunds>>
bounds == <<plan, faults, attempts, unwinds>>
vars == <<journal, clock, lock, pc, loc, comp, op, world, bounds, late, outlived>>
-----------------------------------------------------------------------------
Actors == Workers \cup {Canceler}
Calls == 1 .. plan.calls

NoOutcome == [is |-> "none", at |-> 0]
NoLocals == [i |-> 1, next |-> "none", at |-> 0, raw |-> NoOutcome, tries |-> 0]
NoComp == [is |-> "none", by |-> "none"]
NoWork == [pc |-> "idle", at |-> 0, seen |-> [i \in Calls |-> "none"], found |-> NoComp]

Init ==
    /\ plan \in Plans
    /\ model = {}
    /\ tool = [i \in Calls |-> "none"]
    /\ canceled = FALSE /\ condemned = FALSE
    /\ outcome = NoOutcome /\ clock = 1
    /\ lock = "free"
    /\ pc = [a \in Actors |-> "idle"]
    /\ loc = [a \in Actors |-> NoLocals]
    /\ comp = [i \in Calls |-> NoComp]
    /\ op = [o \in Operators |-> NoWork]
    /\ effects = [i \in Calls |-> 0] /\ refunds = [i \in Calls |-> 0]
    /\ faults = 0 /\ attempts = 0 /\ unwinds = 0
    /\ late = [a \in Actors |-> [steps |-> 0, effects |-> 0]]
    /\ outlived = {}

Go(a, label) == pc' = [pc EXCEPT ![a] = label]

Return(a) == Go(a, "idle") /\ loc' = [loc EXCEPT ![a] = NoLocals]

Fault == faults < plan.faults /\ faults' = faults + 1
-----------------------------------------------------------------------------
(* recordRunOutcome *)

\* at = journal.now(); two stamps may fall into one millisecond
Stamp(a) ==
    /\ pc[a] = "stamp"
    /\ \E t \in {clock, clock + 1} : clock' = t /\ loc' = [loc EXCEPT ![a].at = t]
    /\ Go(a, "read")
    /\ UNCHANGED <<journal, lock, comp, op, world, bounds, late, outlived>>

\* mutant: a start marker replaces a cancellation
YieldsRunning(a, cur) ==
    /\ cur # NoOutcome
    /\ \/ a = Canceler /\ cur.is # "running"
       \/ cur.at > loc[a].at

\* The verdict that stands is kept: it is newer, the cancellation came after an
\* end, or the new record is only a start.
Yields(a, cur) ==
    /\ cur # NoOutcome
    /\ \/ a = Canceler /\ cur.is # "running"
       \/ cur.at > loc[a].at
       \/ loc[a].next = "running" /\ cur.is = "canceled"
       \/ loc[a].next = "running" /\ cur.is # "running" /\ cur.at = loc[a].at

\* Where an actor goes on after its outcome is recorded, or given up
Recorded(a) ==
    IF loc[a].next = "running" THEN Go(a, "model") /\ UNCHANGED loc
    ELSE IF loc[a].next = "completed" THEN Go(a, "unlock") /\ loc' = [loc EXCEPT ![a] = NoLocals]
    ELSE Return(a)

GetOutcome(a) ==
    /\ pc[a] = "read"
    /\ \/ Yields(a, outcome) /\ Recorded(a)
       \/ ~Yields(a, outcome) /\ loc' = [loc EXCEPT ![a].raw = outcome] /\ Go(a, "put")
    /\ UNCHANGED <<journal, clock, lock, comp, op, world, bounds, late, outlived>>

\* putIfAbsent or putIfMatch; after three lost races the writer yields
PutOutcome(a) ==
    /\ pc[a] = "put"
    /\ \/ /\ outcome = loc[a].raw
          /\ outcome' = [is |-> loc[a].next, at |-> loc[a].at]
          /\ Recorded(a)
       \/ /\ outcome # loc[a].raw
          /\ UNCHANGED outcome
          /\ \/ loc[a].tries < 2 /\ loc' = [loc EXCEPT ![a].tries = @ + 1] /\ Go(a, "read")
             \/ loc[a].tries = 2 /\ Recorded(a)
    /\ UNCHANGED <<model, tool, canceled, condemned, clock, lock, comp, op, world, bounds, late, outlived>>

RecordRunOutcome(a) == Stamp(a) \/ GetOutcome(a) \/ PutOutcome(a)

Record(a, status) == Go(a, "stamp") /\ loc' = [loc EXCEPT ![a].next = status]
-----------------------------------------------------------------------------
(* runDurable *)

\* runDurable or resumeRun: assertNotCompensated
Enter(w) ==
    /\ pc[w] = "idle" /\ attempts < plan.attempts /\ lock # w
    /\ attempts' = attempts + 1
    /\ Go(w, IF condemned THEN "idle" ELSE "canceled?")
    /\ UNCHANGED <<journal, clock, lock, loc, comp, op, world, plan, faults, unwinds, late, outlived>>

AssertNotCanceled(w) ==
    /\ pc[w] = "canceled?"
    /\ Go(w, IF canceled THEN "idle" ELSE "lock")
    /\ UNCHANGED <<journal, clock, lock, loc, comp, op, world, bounds, late, outlived>>

\* acquireRunLock, or RunBusyError; then the write-ahead start marker
AcquireLock(w) ==
    /\ pc[w] = "lock"
    /\ \/ lock = "free" /\ lock' = w /\ Record(w, "running")
       \/ lock # "free" /\ Return(w) /\ UNCHANGED lock
    /\ UNCHANGED <<journal, clock, comp, op, world, bounds, late, outlived>>

\* wrapGenerate: a journaled step is replayed, without a look at the flag; after
\* the last one the run is completed
ModelStep(w) ==
    /\ pc[w] = "model"
    /\ \/ loc[w].i \notin model /\ Go(w, "gate") /\ UNCHANGED loc
       \/ loc[w].i \in model /\ loc[w].i <= plan.calls /\ Go(w, "tool") /\ UNCHANGED loc
       \/ loc[w].i \in model /\ loc[w].i > plan.calls /\ Record(w, "completed")
    /\ UNCHANGED <<journal, clock, lock, comp, op, world, bounds, late, outlived>>

\* assertNotCanceled before every fresh step
CancelGate(w) ==
    /\ pc[w] = "gate"
    /\ Go(w, IF canceled THEN "unlock" ELSE "call")
    /\ UNCHANGED <<journal, clock, lock, loc, comp, op, world, bounds, late, outlived>>

\* doGenerate, then put the step; or it throws, and the run fails
CallModel(w) ==
    /\ pc[w] = "call"
    /\ late' = [late EXCEPT ![w].steps = IF canceled THEN @ + 1 ELSE @]
    /\ \/ /\ model' = model \cup {loc[w].i}
          /\ Go(w, "model") /\ UNCHANGED <<loc, faults>>
       \/ /\ Fault
          /\ loc' = [loc EXCEPT ![w].next = "failed"] /\ Go(w, "unlock")
          /\ UNCHANGED model
    /\ UNCHANGED <<tool, canceled, condemned, outcome, clock, lock, comp, op, world, plan, attempts, unwinds, outlived>>

\* durableTool: a recorded result is replayed
GetTool(w) ==
    /\ pc[w] = "tool"
    /\ \/ /\ tool[loc[w].i] = "succeeded"
          /\ loc' = [loc EXCEPT ![w].i = @ + 1] /\ Go(w, "model")
       \/ tool[loc[w].i] # "succeeded" /\ Go(w, "tombstone?") /\ UNCHANGED loc
    /\ UNCHANGED <<journal, clock, lock, comp, op, world, bounds, late, outlived>>

\* mutant: a worker inside the loop does not see the tombstone
CompensationGateOpen(w) ==
    /\ pc[w] = "tombstone?"
    /\ Go(w, "claim")
    /\ UNCHANGED <<journal, clock, lock, loc, comp, op, world, bounds, late, outlived>>

\* the mid-flight gate: no new side effect in a condemned run
CompensationGate(w) ==
    /\ pc[w] = "tombstone?"
    /\ Go(w, IF condemned THEN "unlock" ELSE "claim")
    /\ UNCHANGED <<journal, clock, lock, loc, comp, op, world, bounds, late, outlived>>

\* the write-ahead claim; the call of an attempt that is gone is probed first
ClaimTool(w) ==
    /\ pc[w] = "claim"
    /\ tool' = [tool EXCEPT ![loc[w].i] = "running"]
    /\ Go(w, IF tool[loc[w].i] # "none" /\ effects[loc[w].i] > 0 THEN "save" ELSE "execute")
    /\ UNCHANGED <<model, canceled, condemned, outcome, clock, lock, loc, comp, op, world, bounds, late, outlived>>

Happen(w) ==
    /\ effects' = [effects EXCEPT ![loc[w].i] = @ + 1]
    /\ late' = [late EXCEPT ![w].effects = IF condemned THEN @ + 1 ELSE @]

\* the effect happens, or the call throws before or after it; the model is told
Execute(w) ==
    /\ pc[w] = "execute"
    /\ \/ Happen(w) /\ Go(w, "save") /\ UNCHANGED faults
       \/ Happen(w) /\ Fault /\ Go(w, "fail")
       \/ Fault /\ Go(w, "fail") /\ UNCHANGED <<effects, late>>
    /\ UNCHANGED <<journal, clock, lock, loc, comp, op, refunds, plan, attempts, unwinds, outlived>>

SaveTool(w) ==
    /\ pc[w] \in {"save", "fail"}
    /\ tool' = [tool EXCEPT ![loc[w].i] = IF pc[w] = "save" THEN "succeeded" ELSE "failed"]
    /\ loc' = [loc EXCEPT ![w].i = @ + 1] /\ Go(w, "model")
    /\ UNCHANGED <<model, canceled, condemned, outcome, clock, lock, comp, op, world, bounds, late, outlived>>

\* The lock is released on the way out; only then is a failure recorded.
Release(w) ==
    /\ pc[w] = "unlock"
    /\ lock' = IF lock = w THEN "free" ELSE lock
    /\ \/ loc[w].next = "failed" /\ Record(w, "failed")
       \/ loc[w].next # "failed" /\ Return(w)
    /\ UNCHANGED <<journal, clock, comp, op, world, bounds, late, outlived>>

RunDurable(w) ==
    \/ AssertNotCanceled(w) \/ AcquireLock(w) \/ ModelStep(w) \/ CancelGate(w) \/ CallModel(w)
    \/ GetTool(w) \/ CompensationGate(w) \/ ClaimTool(w) \/ Execute(w) \/ SaveTool(w) \/ Release(w)
    \/ RecordRunOutcome(w)
-----------------------------------------------------------------------------
(* cancelAgentRun *)

\* putIfAbsent of the flag, then the outcome
Cancel ==
    /\ pc[Canceler] = "idle" /\ plan.cancels /\ ~canceled
    /\ canceled' = TRUE
    /\ Record(Canceler, "canceled")
    /\ UNCHANGED <<model, tool, condemned, outcome, clock, lock, comp, op, world, bounds, late, outlived>>
-----------------------------------------------------------------------------
(* compensateRun *)

OpAt(o, label) == op' = [op EXCEPT ![o].pc = label]

\* readRun: the calls that were executed or may have been are unwound, latest first
CompensateRun(o) ==
    /\ op[o].pc = "idle" /\ unwinds < plan.unwinds
    /\ unwinds' = unwinds + 1
    /\ op' = [op EXCEPT ![o] = [pc |-> "condemn", at |-> plan.calls, seen |-> tool, found |-> NoComp]]
    /\ UNCHANGED <<journal, clock, lock, pc, loc, comp, world, plan, faults, attempts, late, outlived>>

\* claim of the tombstone
Condemn(o) ==
    /\ op[o].pc = "condemn"
    /\ condemned' = TRUE
    /\ OpAt(o, "entry")
    /\ UNCHANGED <<model, tool, canceled, outcome, clock, lock, pc, loc, comp, world, bounds, late, outlived>>

\* The call in hand
This(o) == op[o].at

NextEntry(o) == op' = [op EXCEPT ![o].at = @ - 1, ![o].pc = "entry", ![o].found = NoComp]

Stop(o) == op' = [op EXCEPT ![o] = NoWork]

\* the worklist has no call that was not executed; an uncertain record is resolved by
\* recover(), and what never happened is skipped
Entry(o) ==
    LET was == op[o].seen[This(o)]
        skips == was = "none" \/ (was # "succeeded" /\ effects[This(o)] = 0) IN
    /\ op[o].pc = "entry"
    /\ \/ This(o) = 0 /\ Stop(o)
       \/ This(o) > 0 /\ skips /\ NextEntry(o)
       \/ This(o) > 0 /\ ~skips /\ OpAt(o, "get")
    /\ UNCHANGED <<journal, clock, lock, pc, loc, comp, world, bounds, late, outlived>>

\* mutant: an entry that another operator has in hand is passed over
GetCompPasses(o) ==
    LET c == comp[This(o)] IN
    /\ op[o].pc = "get"
    /\ \/ c.is \in {"compensated", "running"} /\ NextEntry(o)
       \/ c.is \notin {"compensated", "running"} /\ op' = [op EXCEPT ![o].found = c, ![o].pc = "claim"]
    /\ UNCHANGED <<journal, clock, lock, pc, loc, comp, world, bounds, late, outlived>>

\* get the comp record: done, in the hands of a live operator, or to be claimed
GetComp(o) ==
    LET c == comp[This(o)] IN
    /\ op[o].pc = "get"
    /\ \/ c.is = "compensated" /\ NextEntry(o)
       \/ c.is = "running" /\ Stop(o)
       \/ /\ c.is \notin {"compensated", "running"}
          /\ op' = [op EXCEPT ![o].found = c, ![o].pc = "claim"]
    /\ UNCHANGED <<journal, clock, lock, pc, loc, comp, world, bounds, late, outlived>>

\* mutant: the claim is a plain put
ClaimCompBlind(o) ==
    /\ op[o].pc = "claim"
    /\ comp' = [comp EXCEPT ![This(o)] = [is |-> "running", by |-> o]]
    /\ OpAt(o, "hook")
    /\ UNCHANGED <<journal, clock, lock, pc, loc, world, bounds, late, outlived>>

\* putIfAbsent, or, over a failed or a stale record, a plain put
ClaimComp(o) ==
    /\ op[o].pc = "claim"
    /\ \/ /\ op[o].found = NoComp /\ comp[This(o)] # NoComp
          /\ Stop(o) /\ UNCHANGED comp
       \/ /\ op[o].found # NoComp \/ comp[This(o)] = NoComp
          /\ comp' = [comp EXCEPT ![This(o)] = [is |-> "running", by |-> o]]
          /\ OpAt(o, "hook")
    /\ UNCHANGED <<journal, clock, lock, pc, loc, world, bounds, late, outlived>>

\* the tool's compensate(): it refunds, or throws before or after that
Hook(o) ==
    /\ op[o].pc = "hook"
    /\ \/ refunds' = [refunds EXCEPT ![This(o)] = @ + 1] /\ OpAt(o, "compensated") /\ UNCHANGED faults
       \/ refunds' = [refunds EXCEPT ![This(o)] = @ + 1] /\ OpAt(o, "comp-failed") /\ Fault
       \/ OpAt(o, "comp-failed") /\ Fault /\ UNCHANGED refunds
    /\ UNCHANGED <<journal, clock, lock, pc, loc, comp, effects, plan, attempts, unwinds, late, outlived>>

\* put the terminal record; a failure stops the unwind
PutComp(o) ==
    /\ op[o].pc \in {"compensated", "comp-failed"}
    /\ comp' = [comp EXCEPT ![This(o)] = [is |-> op[o].pc, by |-> o]]
    /\ IF op[o].pc = "compensated" THEN NextEntry(o) ELSE Stop(o)
    /\ UNCHANGED <<journal, clock, lock, pc, loc, world, bounds, late, outlived>>

Unwind(o) == Condemn(o) \/ Entry(o) \/ GetComp(o) \/ ClaimComp(o) \/ Hook(o) \/ PutComp(o)
-----------------------------------------------------------------------------
(* The environment *)

Crash(w) ==
    /\ pc[w] # "idle" /\ Fault
    /\ Return(w)
    /\ UNCHANGED <<journal, clock, lock, comp, op, world, plan, attempts, unwinds, late, outlived>>

\* The lock of a worker that is gone runs out.
LapseLock ==
    /\ lock \in Workers /\ pc[lock] = "idle"
    /\ lock' = "free"
    /\ UNCHANGED <<journal, clock, pc, loc, comp, op, world, bounds, late, outlived>>

CrashOperator(o) ==
    /\ op[o].pc # "idle" /\ Fault
    /\ Stop(o)
    /\ UNCHANGED <<journal, clock, lock, pc, loc, comp, world, plan, attempts, unwinds, late, outlived>>

\* COMP_CLAIM_TTL_MS after its stamp a claim is stale. Nothing renews it: its operator
\* may be gone, or in a hook that takes longer.
StaleComp(i) ==
    /\ comp[i].is = "running"
    /\ comp' = [comp EXCEPT ![i].is = "stale"]
    /\ outlived' = IF op[comp[i].by].pc = "idle" THEN outlived ELSE outlived \cup {i}
    /\ UNCHANGED <<journal, clock, lock, pc, loc, op, world, bounds, late>>

Next ==
    \/ \E w \in Workers : Enter(w) \/ RunDurable(w) \/ Crash(w)
    \/ Cancel \/ RecordRunOutcome(Canceler) \/ LapseLock
    \/ \E o \in Operators : CompensateRun(o) \/ Unwind(o) \/ CrashOperator(o)
    \/ \E i \in Calls : StaleComp(i)

Spec == Init /\ [][Next]_vars
-----------------------------------------------------------------------------
(* Properties *)

\* Records and local variables have their types; what is saved was executed, and
\* the lock is a worker's.
TypeOK ==
    /\ model \subseteq 1 .. plan.calls + 1
    /\ \A i \in Calls : /\ tool[i] \in {"none", "running", "succeeded", "failed"}
                         /\ comp[i].is \in {"none", "running", "stale", "compensated", "comp-failed"}
                         /\ tool[i] = "succeeded" => effects[i] > 0
    /\ outcome.is \in {"none", "running", "completed", "failed", "canceled"} /\ outcome.at \in 0 .. clock
    /\ lock \in Workers \cup {"free"}
    /\ \A a \in Actors : loc[a].i \in 1 .. plan.calls + 1 /\ loc[a].tries \in 0 .. 2

\* A cancellation stops the spending: after the flag is set a worker makes at
\* most the model call it was about to make, whatever it replays before that.
CancelStopsSpending == \A w \in Workers : late[w].steps <= 1

\* A condemnation stops the effects: a worker inside the loop produces at most
\* the side effect it was about to produce.
CondemnStopsEffects == \A w \in Workers : late[w].effects <= 1

\* The lock and the journal keep the effects exactly once across attempts.
EffectOnce == \A i \in Calls : effects[i] <= 1

\* Nothing is compensated on a guess: only what happened is refunded.
RefundsEarned == \A i \in Calls : refunds[i] > 0 => effects[i] > 0

\* Operators who unwind at the same time do not refund a call twice, as long as no
\* unwind fails or crashes and the call's own hook ends within the claim's 30 seconds;
\* a hook of another call that takes longer changes nothing for this one.
RefundOnce == faults = 0 => \A i \in Calls \ outlived : refunds[i] <= 1

\* Reverse order: when a call is refunded, every later call the operator had read
\* as succeeded is refunded already, whoever unwound it.
ReverseOrder ==
    [][\A o \in Operators : op[o].pc = "hook" /\ refunds' # refunds =>
          \A i \in Calls : i > This(o) /\ op[o].seen[i] = "succeeded" => refunds[i] > 0]_vars

\* Outcomes are monotone: no verdict is replaced by an older one, and no start
\* marker buries a cancellation.
OutcomeMonotone ==
    [][/\ outcome'.at >= outcome.at
       /\ outcome.is = "canceled" => outcome'.is # "running"]_vars

\* A cancellation and a condemnation reach a worker at its next boundary.
StopsReach == CancelStopsSpending /\ CondemnStopsEffects

\* Effects and refunds are exact: one effect per call, a refund only of what
\* happened and, where neither a fault nor a slow hook breaks the claim, once
\* (and the records have their types).
EffectsExact == TypeOK /\ EffectOnce /\ RefundsEarned /\ RefundOnce
-----------------------------------------------------------------------------
(* Said in the code's comments and not true of it (README, Disagreements)  *)

\* compensation.ts:13-14, "a refund can never run twice": after a crash of the
\* operator or a hook that threw, it does, as nobody asks what the hook did. It does
\* without any fault when a hook takes longer than the claim's 30 seconds and a second
\* operator comes by, or two who both read the claim as stale.
RefundNeverTwice == \A i \in Calls : refunds[i] <= 1

\* outcome.ts:122-127: a run that succeeded never comes to read `failed`; an attempt
\* that failed, and takes its time stamp after the lock is gone, makes it so.
CompletedStands == [][outcome.is = "completed" => outcome'.is # "failed"]_vars

\* outcome.ts:142-150: no start marker leaves a canceled run reading `running`; one
\* that lands before the cancellation's own record, stamped later, does.
CanceledIsNotRunning ==
    canceled /\ faults = 0 /\ (\A a \in Actors : pc[a] = "idle") => outcome.is # "running"
=============================================================================
