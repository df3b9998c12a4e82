----------------------------- MODULE DurableTool -----------------------------
(***************************************************************************)
(* One tool call under durableTool (packages/durable/src/durable-tool.ts): *)
(* the journal record of its key, the human decision about it             *)
(* (run.ts resolveApprovals) and the workers that execute it.  Two workers *)
(* meet on one key when a run is resumed twice without a run lock, or when *)
(* parallel calls share an args-keyed record.                              *)
(*                                                                         *)
(* The external system is the counter `applied`: how often the side effect *)
(* has happened.  A worker may crash before or after it, and a call may    *)
(* throw before or after it.                                               *)
(***************************************************************************)
EXTENDS Naturals, FiniteSets

CONSTANTS Workers,
          Tools,         \* the tools, with their options and the run's
          MaxRetries, TTL,
          MaxStarts      \* bound: calls of execute() in a behaviour

\* mode: the tool's idempotency mode; sideEffect: tool.sideEffect ?? tool.idempotent !== true;
\* recover, lookup: the tool has that hook; timeouts: timeoutMs is set, a call may be
\* abandoned in flight; gate: which calls a gate asks a human about; attemptScope:
\* limits.approvalScope === 'attempt'; workers: those that may meet on the key;
\* maxAnswers: bound on the answers humans give about it.
ToolOptions == [mode : {"call", "args"}, sideEffect : BOOLEAN, recover : BOOLEAN,
                lookup : BOOLEAN, timeouts : BOOLEAN, gate : {"none", "fresh", "any"},
                attemptScope : BOOLEAN, workers : SUBSET Workers, maxAnswers : Nat]

ASSUME DurableToolAssumption ==
    /\ IsFiniteSet(Workers)
    /\ Tools \subseteq ToolOptions
    /\ {MaxRetries, TTL, MaxStarts} \subseteq Nat

VARIABLES tool,      \* the tool that is called; never changes
          rec,       \* the ToolJournalRecord of the call's key
          decision,  \* the approval record: "none" | "yes" | "no" | "spent"
          now,       \* journal.now()
          pc,        \* where a worker is in execute()
          loc,       \* a worker's local variables
          applied,   \* how often the side effect has happened
          orphans,   \* abandoned calls whose effect may still happen
          pending,   \* a differing answer between its probe and its write
          answers,   \* the human answers given, and how many of them said yes
          starts     \* calls of execute() so far

\* The journal, and the world outside the worker that takes the step
world == <<tool, now, applied, orphans, pending, answers, starts>>
vars == <<rec, decision, pc, loc, world>>
-----------------------------------------------------------------------------
Mode == tool.mode
SideEffect == tool.sideEffect
Recover == tool.recover
Gate == tool.gate
AttemptScope == tool.attemptScope

Absent == [st |-> "absent", at |-> 0, n |-> 0]
Running(n) == [st |-> "running", at |-> now, n |-> n]
Failed(n) == [st |-> "failed", at |-> 0, n |-> n]
Final(s) == [st |-> s, at |-> 0, n |-> 0]

\* "denied" stands for denied and reflected: terminal, the tool did not run.
Terminal == {"succeeded", "denied"}

\* A claim is live until it is older than claimTtl on the shared clock.
Fresh(r) == r.st = "running" /\ now - r.at <= TTL

Attempts(r) == IF r.st \in {"running", "failed"} THEN r.n ELSE 0

\* `record`, `approved`, the answer of recover() and `rawBefore`
NoLocals == [record |-> Absent, approved |-> "none", probe |-> "unasked", before |-> Absent]

Init ==
    /\ tool \in Tools
    /\ rec = Absent
    /\ decision = "none"
    /\ now = 0
    /\ pc = [w \in Workers |-> "idle"]
    /\ loc = [w \in Workers |-> NoLocals]
    /\ applied = 0
    /\ orphans = 0
    /\ pending = "none"
    /\ answers = [given |-> 0, yes |-> 0]
    /\ starts = 0

Go(w, label) == pc' = [pc EXCEPT ![w] = label]

\* execute() returns (an output, a sentinel or an error)
Return(w) == Go(w, "idle") /\ loc' = [loc EXCEPT ![w] = NoLocals]

Set(w, r) == loc' = [loc EXCEPT ![w].record = r]
-----------------------------------------------------------------------------
(* The replay fast path and the gates *)

\* The run (re)starts: resolveApprovals reads the journalled decision once.
Start(w) ==
    /\ pc[w] = "idle" /\ w \in tool.workers
    /\ starts < MaxStarts
    /\ starts' = starts + 1
    /\ loc' = [loc EXCEPT ![w].approved = IF decision = "spent" THEN "none" ELSE decision]
    /\ Go(w, "read")
    /\ UNCHANGED <<tool, rec, decision, now, applied, orphans, pending, answers>>

\* mutant: the confirm arm loses its `record === undefined`
AsksAlways(r) == Gate # "none"

\* Does a gate (confirm and the semantic gate: fresh calls only; guard,
\* duplicate and taint policies: any call) ask a human about this record?
Asks(r) == \/ Gate = "any"
           \/ Gate = "fresh" /\ r = Absent

\* ctxGet(key), then the suspended arm or the gates
Read(w) ==
    LET r == rec   ok == loc[w].approved IN
    /\ pc[w] = "read"
    /\ \/ r.st \in Terminal /\ Return(w)
       \/ r.st = "suspended" /\ ok = "no" /\ Set(w, r) /\ Go(w, "deny")
       \/ r.st = "suspended" /\ ok = "none" /\ Return(w)
       \/ r.st = "suspended" /\ ok = "yes" /\ Set(w, r) /\ Go(w, "ladder")
       \/ /\ r.st \in {"absent", "running", "failed"}
          /\ Set(w, r)
          /\ \/ Asks(r) /\ ok = "no" /\ Go(w, "deny")
             \/ Asks(r) /\ ok = "none" /\ Go(w, "suspend")
             \/ Asks(r) /\ ok = "yes" /\ Go(w, "ladder")
             \/ ~Asks(r) /\ Go(w, "ladder")
             \/ Gate = "any" /\ Go(w, "deny")  \* a guard's own 'deny'
    /\ UNCHANGED <<rec, decision, world>>

\* writeToolTerminal of a refusal: a plain put
Deny(w) ==
    /\ pc[w] = "deny"
    /\ rec' = Final("denied")
    /\ Return(w)
    /\ UNCHANGED <<decision, world>>

\* writeToolTerminal of a question: a plain put
Suspend(w) ==
    /\ pc[w] = "suspend"
    /\ rec' = Final("suspended")
    /\ Return(w)
    /\ UNCHANGED <<decision, world>>
-----------------------------------------------------------------------------
(* The claim loop *)

\* mutant: a plain put instead of putIfAbsent
ClaimBlind(w) ==
    /\ pc[w] = "ladder"
    /\ loc[w].record = Absent
    /\ rec' = Running(1) /\ Go(w, "spend")
    /\ UNCHANGED <<decision, loc, world>>

\* claim(key, {running, attempts: 1}): putIfAbsent
Claim(w) ==
    /\ pc[w] = "ladder"
    /\ loc[w].record = Absent
    /\ IF rec = Absent
       THEN rec' = Running(1) /\ Go(w, "spend")
       ELSE Go(w, "lost") /\ UNCHANGED rec
    /\ UNCHANGED <<decision, loc, world>>

\* The claim or the takeover was lost, or a poll interval passed: read again.
\* Only args mode stays in the loop.
Reread(w) ==
    /\ pc[w] \in {"lost", "poll"}
    /\ \/ rec.st \in Terminal \cup {"suspended"} /\ Return(w)
       \/ rec.st \notin Terminal \cup {"suspended"} /\ Mode = "call" /\ Return(w)
       \/ /\ rec.st \notin Terminal \cup {"suspended"} /\ Mode = "args"
          /\ Set(w, rec) /\ Go(w, "ladder")
    /\ UNCHANGED <<rec, decision, world>>

\* mutant: an args-mode waiter does not age the claim it waits for
BusyForever(w) ==
    /\ pc[w] = "ladder"
    /\ loc[w].record.st = "running"
    /\ IF Mode = "args" THEN Go(w, "poll") /\ UNCHANGED loc ELSE Return(w)
    /\ UNCHANGED <<rec, decision, world>>

\* Another executor's claim is live: busy in call mode, wait in args mode.
Busy(w) ==
    /\ pc[w] = "ladder"
    /\ Fresh(loc[w].record)
    /\ IF Mode = "args" THEN Go(w, "poll") /\ UNCHANGED loc ELSE Return(w)
    /\ UNCHANGED <<rec, decision, world>>

InDoubt(r) == r.st \in {"running", "failed"}

\* The record the ladder judges: failed, approved-suspended or stale-running.
Reclaimable(w) == loc[w].record # Absent /\ ~Fresh(loc[w].record)

\* recover() asks the external system; it may also be unreachable.
Probe(w) ==
    /\ pc[w] = "ladder"
    /\ Reclaimable(w)
    /\ SideEffect /\ InDoubt(loc[w].record) /\ loc[w].approved # "yes"
    /\ Recover /\ loc[w].probe # "down"
    /\ \/ applied > 0 /\ Go(w, "found") /\ UNCHANGED loc
       \/ applied = 0 /\ Go(w, "judge") /\ loc' = [loc EXCEPT ![w].probe = "undone"]
       \/ Go(w, "judge") /\ loc' = [loc EXCEPT ![w].probe = "down"]
    /\ UNCHANGED <<rec, decision, world>>

\* The probe is skipped: no hook, nothing to doubt, or a human said yes.
SkipProbe(w) ==
    /\ pc[w] = "ladder"
    /\ Reclaimable(w)
    /\ ~(SideEffect /\ InDoubt(loc[w].record) /\ loc[w].approved # "yes"
           /\ Recover /\ loc[w].probe # "down")
    /\ Go(w, "judge")
    /\ UNCHANGED <<rec, decision, loc, world>>

\* mutant: the crash gate forgets stale-running records
BlockedOnlyFailed(w) ==
    /\ loc[w].record.st = "failed" /\ SideEffect
    /\ loc[w].approved # "yes"
    /\ ~(Recover /\ loc[w].probe # "down")

\* SideEffectRetryBlockedError: nobody vouches for running it again
Blocked(w) ==
    /\ InDoubt(loc[w].record) /\ SideEffect
    /\ loc[w].approved # "yes"
    /\ ~(Recover /\ loc[w].probe # "down")

\* RetryLimitExceededError
Exhausted(w) == InDoubt(loc[w].record) /\ loc[w].record.n >= MaxRetries

\* The verdict on the record, and the re-read the takeover is based on
Judge(w) ==
    /\ pc[w] = "judge"
    /\ \/ (Blocked(w) \/ Exhausted(w)) /\ Return(w)
       \/ ~Blocked(w) /\ ~Exhausted(w) /\ rec.st \in Terminal /\ Return(w)
       \/ /\ ~Blocked(w) /\ ~Exhausted(w) /\ rec.st \notin Terminal
          /\ loc' = [loc EXCEPT ![w].before = rec,
                                ![w].record = IF InDoubt(rec) THEN rec ELSE @]
          /\ Go(w, "takeover")
    /\ UNCHANGED <<rec, decision, world>>

\* putIfMatch(key, rawBefore, {running, attempts + 1})
Takeover(w) ==
    /\ pc[w] = "takeover"
    /\ IF rec = loc[w].before
       THEN rec' = Running(Attempts(loc[w].before) + 1) /\ Go(w, "spend")
       ELSE Go(w, "lost") /\ UNCHANGED rec
    /\ UNCHANGED <<decision, loc, world>>
-----------------------------------------------------------------------------
(* Execution *)

\* approvalScope 'attempt': put the spent sentinel, before the effect
Spend(w) ==
    /\ pc[w] = "spend"
    /\ decision' = IF AttemptScope /\ SideEffect /\ loc[w].approved = "yes"
                   THEN "spent" ELSE decision
    /\ Go(w, "exec")
    /\ UNCHANGED <<rec, loc, world>>

\* lookup() finds the effect: on a first attempt only, and best effort
LookUp(w) ==
    /\ pc[w] = "exec"
    /\ tool.lookup /\ SideEffect
    /\ ~InDoubt(loc[w].record)
    /\ applied > 0
    /\ Go(w, "found")
    /\ UNCHANGED <<rec, decision, loc, world>>

\* original(input): succeeds, throws without the effect or after it, or is
\* abandoned by withTimeout while it may still go through
Execute(w) ==
    /\ pc[w] = "exec"
    /\ \/ applied' = applied + 1 /\ Go(w, "finish") /\ UNCHANGED orphans
       \/ applied' = applied + 1 /\ Go(w, "fail") /\ UNCHANGED orphans
       \/ Go(w, "fail") /\ UNCHANGED <<applied, orphans>>
       \/ tool.timeouts /\ orphans' = orphans + 1 /\ Go(w, "fail") /\ UNCHANGED applied
    /\ UNCHANGED <<tool, rec, decision, loc, now, pending, answers, starts>>

\* The effect of an abandoned call happens after all.
Land ==
    /\ orphans > 0
    /\ orphans' = orphans - 1
    /\ applied' = applied + 1
    /\ UNCHANGED <<tool, rec, decision, pc, loc, now, pending, answers, starts>>

\* writeToolTerminal 'succeeded', of an execution or of an effect found: a plain put
Finish(w) ==
    /\ pc[w] \in {"finish", "found"}
    /\ rec' = Final("succeeded")
    /\ Return(w)
    /\ UNCHANGED <<decision, world>>

\* the catch: writeToolTerminal 'failed', counting from `record`
Fail(w) ==
    /\ pc[w] = "fail"
    /\ rec' = Failed(Attempts(loc[w].record) + 1)
    /\ Return(w)
    /\ UNCHANGED <<decision, world>>

Crash(w) ==
    /\ pc[w] # "idle"
    /\ Return(w)
    /\ UNCHANGED <<rec, decision, world>>
-----------------------------------------------------------------------------
(* The human and the clock *)

\* hasRunProbe: terminal, or executing under a live claim
HasRun == rec.st \in Terminal \/ Fresh(rec)

\* resolveApprovals: an empty or a spent slot takes the answer.
Answer(d) ==
    /\ pending = "none" /\ answers.given < tool.maxAnswers
    /\ decision \in {"none", "spent"}
    /\ decision' = d
    /\ answers' = [given |-> answers.given + 1,
                   yes |-> answers.yes + IF d = "yes" THEN 1 ELSE 0]
    /\ UNCHANGED <<tool, rec, pc, loc, now, applied, orphans, pending, starts>>

\* resolveApprovals: a differing answer is refused once the call has run ...
ChangeMind(d) ==
    /\ pending = "none" /\ answers.given < tool.maxAnswers
    /\ decision \in {"yes", "no"} \ {d}
    /\ ~HasRun
    /\ pending' = d
    /\ answers' = [given |-> answers.given + 1,
                   yes |-> answers.yes + IF d = "yes" THEN 1 ELSE 0]
    /\ UNCHANGED <<tool, rec, decision, pc, loc, now, applied, orphans, starts>>

\* ... and replaces the old one by compare-and-set.
Amend ==
    /\ pending # "none"
    /\ decision' = IF decision = "spent" THEN decision ELSE pending
    /\ pending' = "none"
    /\ UNCHANGED <<tool, rec, pc, loc, now, applied, orphans, answers, starts>>

\* The worker holds the key: it claimed and has not yet written the outcome.
Executing(w) == pc[w] \in {"spend", "exec", "finish", "fail"}

\* The clock moves while a claim's age matters.  A claim outlives the work it
\* covers: claimTtl is at least the declared timeout of the call.
Tick ==
    /\ Fresh(rec)
    /\ now - rec.at < TTL \/ ~\E w \in Workers : Executing(w)
    /\ now' = now + 1
    /\ UNCHANGED <<tool, rec, decision, pc, loc, applied, orphans, pending, answers, starts>>

Work(w) ==
    \/ Read(w) \/ Deny(w) \/ Suspend(w) \/ Claim(w) \/ Reread(w) \/ Busy(w)
    \/ Probe(w) \/ SkipProbe(w) \/ Judge(w) \/ Takeover(w)
    \/ Spend(w) \/ LookUp(w) \/ Execute(w) \/ Finish(w) \/ Fail(w)

Next ==
    \/ \E w \in Workers : Start(w) \/ Work(w) \/ Crash(w)
    \/ \E d \in {"yes", "no"} : Answer(d) \/ ChangeMind(d)
    \/ Amend \/ Land \/ Tick

Spec == Init /\ [][Next]_vars

\* The event loop runs every call on until it returns, and time passes.
FairSpec == Spec /\ WF_vars(Tick) /\ \A w \in Workers : WF_vars(Work(w))
-----------------------------------------------------------------------------
(* Properties *)

Record == [st : {"absent", "running", "failed", "suspended"} \cup Terminal, at : Nat, n : Nat]

\* Every variable has its type; only a claim carries a time, and only a claim
\* or a failure an attempt count, which is at least one.
TypeOK ==
    /\ tool \in Tools
    /\ rec \in Record
    /\ InDoubt(rec) <=> rec.n > 0
    /\ decision \in {"none", "yes", "no", "spent"}
    /\ now \in Nat /\ applied \in Nat /\ orphans \in Nat /\ starts \in Nat
    /\ pc \in [Workers -> {"idle", "read", "deny", "suspend", "ladder", "lost", "poll", "judge",
                            "takeover", "spend", "exec", "finish", "found", "fail"}]
    /\ loc \in [Workers -> [record : Record, approved : {"none", "yes", "no"},
                             probe : {"unasked", "undone", "down"}, before : Record]]
    /\ pending \in {"none", "yes", "no"}
    /\ answers \in [given : Nat, yes : Nat]

\* One worker at a time calls execute(), which is what the run lock is for, or
\* several meet on the key of a side effect that no gate, hook or human vouches for.
\* (Elsewhere the verdicts on an older read open the windows that README section 3 names.)
Alone == \A v, w \in tool.workers : v = w
Bare == SideEffect /\ Gate = "none" /\ ~Recover /\ ~tool.lookup /\ tool.maxAnswers = 0
Sole == Alone \/ Bare

\* What vouches for an effect does so once: an answer covers one attempt, and
\* recover() is asked about calls that are not abandoned in flight.
Vouched == (AttemptScope \/ tool.maxAnswers = 0) /\ ~(Recover /\ tool.timeouts)

\* Two workers never execute one call at the same time (durable-tool.ts, the
\* claim and the compare-and-set takeover).
ExecutorUnique == Cardinality({w \in Workers : Executing(w)}) <= 1

\* The side effect happens no more often than somebody vouched for it: once
\* for an ungated call, and once for every human yes (H7, H9 and
\* approvalScope 'attempt').
EffectsAuthorised ==
    Sole /\ Vouched /\ SideEffect => applied <= answers.yes + IF Gate = "none" THEN 1 ELSE 0

\* A finished call stays finished: no takeover or late failure overwrites it.
SucceededStable == rec.st = "succeeded" => rec'.st = "succeeded"

\* A record that says the effect may have happened is overwritten by a question only
\* where a policy asks about any call: guard, duplicate and taint put theirs over whatever
\* they read (QuestionHidesNothing below).  The tool's own confirm never does, its
\* `record === undefined` sees to that, and without a gate there is no question.
NeverHidesAttempt == InDoubt(rec) /\ rec'.st = "suspended" => Gate = "any"

\* The attempt counter never walks backwards between takeover and catch.
AttemptsNeverDecrease == InDoubt(rec) /\ InDoubt(rec') => rec'.n >= rec.n

\* maxRetries bounds the attempts; the first one is made in any case.
RetryCeiling == rec.n <= IF MaxRetries = 0 THEN 1 ELSE MaxRetries

\* Every call of execute() returns: an args-mode waiter does not wait forever.
CallReturns == \A w \in Workers : pc[w] # "idle" ~> pc[w] = "idle"

\* What holds of one call at any time: the types, one executor, and no more
\* attempts than the ceiling allows.
CallInv == TypeOK /\ (Sole => ExecutorUnique /\ RetryCeiling)

\* The journal's record of a call moves forward where one worker calls it, or several
\* a bare side effect: a success stands, confirm covers no attempt that may have had its
\* effect (a policy's question may), and from one attempt to the next the count grows.
RecordNeverRegresses == [][Sole => SucceededStable /\ NeverHidesAttempt /\ AttemptsNeverDecrease]_vars
-----------------------------------------------------------------------------
(* Said in the code's comments and not true of it (README, Disagreements)  *)

\* durable-tool.ts:697, "A human REFUSED this call - it did NOT run": a refusal that
\* answers a crashed attempt covers an effect that happened.
DenialHidesNothing == rec.st = "denied" => applied = 0

\* durable-tool.ts:772-776: a question over a crashed attempt hides that it may have run
\* and bypasses recover(), so confirm asks about fresh calls only; the guard's question,
\* in the next arm, is put over a running or failed record all the same.
QuestionHidesNothing == [][InDoubt(rec) => rec'.st # "suspended"]_vars
=============================================================================
