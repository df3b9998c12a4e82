------------------------------- MODULE Limits -------------------------------
(* durable/src/limits.ts: the limits of one run (maxTokens, maxToolCalls,  *)
(* loop detection), its counters and its loop chain, while the tool calls  *)
(* of a model step run in parallel, calls suspend and the run is resumed   *)
(* or its process dies. A model step and a sub-agent cost one token each,  *)
(* and a sub-agent makes one call of its own.                              *)
EXTENDS Integers, FiniteSets, SequencesExt

CONSTANTS Plans,            \* what is limited: see PlanType
          ChainCasAttempts  \* 3 in the code

PlanType(p) ==
    /\ p.width \in Nat \ {0} /\ p.steps \in Nat           \* calls of a model step; model steps
    /\ p.kinds \subseteq {"a", "b", "agent"}              \* tool and arguments of a call
    /\ p.old \in Seq(p.kinds) /\ Len(p.old) % p.width = 0 \* calls from before the limits
    /\ {p.maxTokens, p.maxToolCalls, p.maxRepeats, p.resumes, p.crashes} \subseteq Nat  \* 0: no limit
    /\ {p.reflect, p.confirm, p.sideEffect, p.fails} \subseteq BOOLEAN

ASSUME LimitsAssumption == ChainCasAttempts \in Nat /\ \A p \in Plans : PlanType(p)

VARIABLES plan,      \* the element of Plans this behaviour is about
          asked,     \* the calls of the journaled model steps, in order
          rec,       \* the record of a call
          order,     \* the calls in the order of their first record
          counters,  \* __gnl_limits_counters
          chain,     \* __gnl_limits_state
          sub,       \* the calls whose nested run has counters
          absent,    \* this process's cache absentNestedRuns
          step,      \* the model step the agent loop is at
          pc, loc,   \* the places of the loop (Main) and of the calls of its step
          resumes, crashes,
          log,       \* history: the outcomes in the order of their records
          begun      \* history: the attempts made before the calls of this step

vars == <<plan, asked, rec, order, counters, chain, sub, absent, step, pc, loc, resumes, crashes,
          log, begun>>
-----------------------------------------------------------------------------
Main == 0
Slots == 1 .. plan.width
Actors == {Main} \cup Slots
Calls == 1 .. plan.width * (plan.steps + Len(plan.old))

StepsDone == Len(asked) \div plan.width
Call(s) == (step - 1) * plan.width + s
Limited == plan.maxToolCalls > 0 \/ plan.maxRepeats > 0

NoChain == [some |-> FALSE, last |-> "none", repeats |-> 0, reflected |-> FALSE, ids |-> {}]
EmptyChain == [NoChain EXCEPT !.some = TRUE]
NoCounters == [steps |-> 0, tokens |-> 0, calls |-> 0]
Idle == [seed |-> EmptyChain, add |-> NoCounters, read |-> NoChain, tries |-> 0, st |-> "none", stop |-> FALSE]

Counts(st) == st = "succeeded" \/ (st = "failed" /\ plan.sideEffect)

\* mutant: the nudge breaks the chain it is about
ToChainReset(ch, c, st) ==
    IF st = "succeeded"
      THEN [ch EXCEPT !.last = asked[c], !.repeats = IF ch.last = asked[c] THEN @ + 1 ELSE 1, !.ids = @ \cup {c}]
      ELSE [EmptyChain EXCEPT !.ids = ch.ids \cup {c}]
\* applyToolOutcomeToChain
ToChain(ch, c, st) ==
    LET same == ch.last = asked[c]
        ids == ch.ids \cup {c}
    IN CASE st = "succeeded" /\ same -> [ch EXCEPT !.repeats = @ + 1, !.ids = ids]
         [] st = "succeeded" /\ ~same -> [EmptyChain EXCEPT !.last = asked[c], !.repeats = 1, !.ids = ids]
         [] st = "reflected" -> [ch EXCEPT !.reflected = @ \/ same, !.ids = ids]
         [] OTHER -> [EmptyChain EXCEPT !.ids = ids]

\* seedFromHistory: one pass over the run's records
SeedChain == FoldLeft(LAMBDA ch, c : ToChain(ch, c, rec[c]), EmptyChain, order)
SeedCounters == [steps |-> StepsDone, tokens |-> StepsDone,
                 calls |-> Cardinality({c \in Calls : Counts(rec[c])})]

Plus(m, n) == [k \in DOMAIN m |-> m[k] + n[k]]

\* The calls made so far: the run's own outcomes and those of its sub-agents.
Attempts == Len(SelectSeq(log, LAMBDA o : Counts(o.st))) + Cardinality(sub)

Init ==
    /\ plan \in Plans
    /\ asked = plan.old
    /\ rec = [c \in Calls |-> IF c <= Len(plan.old) THEN "succeeded" ELSE "none"]
    /\ order = [c \in 1 .. Len(plan.old) |-> c]
    /\ counters = NoCounters /\ chain = NoChain
    /\ sub = {c \in 1 .. Len(plan.old) : plan.old[c] = "agent"} /\ absent = {}
    /\ step = 1 /\ resumes = 0 /\ crashes = 0 /\ begun = 0
    /\ pc = [a \in 0 .. plan.width |-> "idle"] /\ loc = [a \in 0 .. plan.width |-> Idle]
    /\ log = [c \in 1 .. Len(plan.old) |-> [kind |-> plan.old[c], st |-> "succeeded"]]

Go(a, place) == pc' = [pc EXCEPT ![a] = place]

journal == <<asked, rec, order, counters, chain, sub>>
bounds == <<plan, step, resumes, crashes>>
history == <<log, begun>>
-----------------------------------------------------------------------------
(* ensureSeeded, called by the step check, the tool gate and the outcome hook *)

\* Where a call of ensureSeeded returns to; `won` is its answer. An outcome that
\* the winner's own scan has counted is not counted again.
Seeded(a, won) ==
    CASE a = Main -> "counters"
      [] a # Main /\ loc[a].st = "none" -> "gate"
      [] OTHER -> IF won THEN "done" ELSE "count"

\* recordToolOutcome's look at the chain and this one are one: only what the last
\* of them finds matters.
ReadChain(a) ==
    /\ pc[a] = "seed"
    /\ Go(a, IF chain.some THEN Seeded(a, FALSE) ELSE "scan")
    /\ UNCHANGED <<journal, absent, loc, bounds, history>>

Scan(a) ==
    /\ pc[a] = "scan"
    /\ loc' = [loc EXCEPT ![a].seed = SeedChain, ![a].add = SeedCounters]
    /\ Go(a, "claim")
    /\ UNCHANGED <<journal, absent, bounds, history>>

ClaimSeed(a) ==
    /\ pc[a] = "claim"
    /\ \/ ~chain.some /\ chain' = loc[a].seed /\ Go(a, "add")
       \/ chain.some /\ Go(a, Seeded(a, FALSE)) /\ UNCHANGED chain
    /\ UNCHANGED <<asked, rec, order, counters, sub, absent, loc, bounds, history>>

AddSeed(a) ==
    /\ pc[a] = "add"
    /\ counters' = Plus(counters, loc[a].add)
    /\ Go(a, Seeded(a, TRUE))
    /\ UNCHANGED <<asked, rec, order, chain, sub, absent, loc, bounds, history>>

EnsureSeeded(a) == ReadChain(a) \/ Scan(a) \/ ClaimSeed(a) \/ AddSeed(a)

\* sumSubRuns: the nested runs it finds; a miss is remembered for good.
Found(ids) == Cardinality((ids \cap sub) \ absent)
Missed(ids) == absent \cup (ids \ sub)
-----------------------------------------------------------------------------
(* The agent loop: a model step, its check, the calls it asks for *)

Resume ==
    /\ pc[Main] = "idle" /\ resumes < plan.resumes
    /\ resumes' = resumes + 1 /\ step' = 1
    /\ absent' \in {absent, {}}   \* in the same process or in another
    /\ pc' = [a \in Actors |-> IF a = Main THEN "model" ELSE "idle"]
    /\ loc' = [a \in Actors |-> Idle]
    /\ UNCHANGED <<journal, plan, crashes, history>>

\* A journaled step is replayed, and checked again.
Model ==
    /\ pc[Main] = "model"
    /\ \/ step <= StepsDone /\ UNCHANGED asked
       \/ /\ step > StepsDone /\ step <= plan.steps + Len(plan.old) \div plan.width
          /\ \E kinds \in [Slots -> plan.kinds] : asked' = asked \o kinds
    /\ Go(Main, IF plan.maxTokens > 0 THEN "seed" ELSE "tools")
    /\ UNCHANGED <<rec, order, counters, chain, sub, absent, loc, bounds, history>>

\* The provider throws, or the model asks for no more calls.
EndRun ==
    /\ pc[Main] = "model"
    /\ Go(Main, "idle")
    /\ UNCHANGED <<journal, absent, loc, bounds, history>>

\* computeModelStepsDelta: the steps that are not counted yet. They are written
\* once, and nothing writes them meanwhile.
ReadCounters ==
    /\ pc[Main] = "counters"
    /\ LET new == StepsDone - counters.steps
       IN loc' = [loc EXCEPT ![Main].add = [steps |-> new, tokens |-> new, calls |-> 0]]
    /\ Go(Main, "delta")
    /\ UNCHANGED <<journal, absent, bounds, history>>

AddDelta ==
    /\ pc[Main] = "delta"
    /\ counters' = Plus(counters, loc[Main].add)
    /\ Go(Main, "sum")
    /\ UNCHANGED <<asked, rec, order, chain, sub, absent, loc, bounds, history>>

\* Nothing else runs while the step is checked: the reads of the chain and of
\* the nested counters are one.
CheckStep ==
    /\ pc[Main] = "sum"
    /\ absent' = Missed(chain.ids)
    /\ Go(Main, IF counters.tokens + Found(chain.ids) > plan.maxTokens THEN "idle" ELSE "tools")
    /\ UNCHANGED <<journal, loc, bounds, history>>

\* Promise.all over the calls of the step
StartCalls ==
    /\ pc[Main] = "tools"
    /\ begun' = Attempts
    /\ pc' = [a \in Actors |-> IF a = Main THEN "wait" ELSE "read"]
    /\ loc' = [a \in Actors |-> Idle]
    /\ UNCHANGED <<journal, absent, bounds, log>>

EndCalls ==
    /\ pc[Main] = "wait" /\ \A s \in Slots : pc[s] = "done"
    /\ Go(Main, IF \E s \in Slots : loc[s].stop THEN "idle" ELSE "model")
    /\ step' = IF \E s \in Slots : loc[s].stop THEN step ELSE step + 1
    /\ UNCHANGED <<journal, absent, loc, plan, resumes, crashes, history>>

Loop == Resume \/ Model \/ EndRun \/ ReadCounters \/ AddDelta \/ CheckStep \/ StartCalls \/ EndCalls
-----------------------------------------------------------------------------
(* One call: replay, gate, claim, execution, outcome *)

FirstRecord(c) == order' = IF rec[c] = "none" THEN Append(order, c) ELSE order

\* writeToolTerminal: the record, then the hook recordToolOutcome
Write(s, st) ==
    /\ rec' = [rec EXCEPT ![Call(s)] = st]
    /\ FirstRecord(Call(s))
    /\ log' = Append(log, [kind |-> asked[Call(s)], st |-> st])
    /\ loc' = [loc EXCEPT ![s] = [Idle EXCEPT !.st = st, !.stop = st = "suspended"]]
    /\ Go(s, "seed")

Enter == IF Limited THEN "seed" ELSE "run"

Read(s) ==
    /\ pc[s] = "read"
    /\ LET st == rec[Call(s)]
       IN \/ st \in {"succeeded", "denied", "reflected"} /\ Go(s, "done") /\ UNCHANGED <<rec, order, loc, log>>
          \/ st = "none" /\ plan.confirm /\ Write(s, "suspended")
          \/ /\ (st = "none" /\ ~plan.confirm) \/ st \in {"failed", "running", "suspended"}  \* suspended: approved
             /\ Go(s, Enter) /\ UNCHANGED <<rec, order, loc, log>>
          \/ st = "suspended" /\ Write(s, "denied")
          \/ /\ st = "suspended"                                    \* not answered yet
             /\ loc' = [loc EXCEPT ![s].stop = TRUE] /\ Go(s, "done") /\ UNCHANGED <<rec, order, log>>
    /\ UNCHANGED <<asked, counters, chain, sub, absent, bounds, begun>>

PriorRepeats(s) == IF chain.last = asked[Call(s)] THEN chain.repeats ELSE 0

\* checkToolGate's loop detection
GateLoop(s) ==
    /\ pc[s] = "gate"
    /\ LET looping == plan.maxRepeats > 0 /\ PriorRepeats(s) >= plan.maxRepeats
       IN \/ looping /\ plan.reflect /\ ~chain.reflected /\ Write(s, "reflected")
          \/ /\ looping /\ ~(plan.reflect /\ ~chain.reflected)
             /\ loc' = [loc EXCEPT ![s].stop = TRUE] /\ Go(s, "done") /\ UNCHANGED <<rec, order, log>>
          \/ /\ ~looping
             /\ loc' = [loc EXCEPT ![s].read = chain]
             /\ Go(s, IF plan.maxToolCalls > 0 THEN "calls" ELSE "run") /\ UNCHANGED <<rec, order, log>>
    /\ UNCHANGED <<asked, counters, chain, sub, absent, bounds, begun>>

\* mutant: the calls of the sub-agents are not added
GateCallsOwn(s) ==
    /\ pc[s] = "calls"
    /\ absent' = Missed(loc[s].read.ids)
    /\ LET full == counters.calls >= plan.maxToolCalls
       IN Go(s, IF full THEN "done" ELSE "run") /\ loc' = [loc EXCEPT ![s].stop = full]
    /\ UNCHANGED <<journal, bounds, history>>
\* checkToolGate's maxToolCalls
GateCalls(s) ==
    /\ pc[s] = "calls"
    /\ absent' = Missed(loc[s].read.ids)
    /\ LET full == counters.calls + Found(loc[s].read.ids) >= plan.maxToolCalls
       IN Go(s, IF full THEN "done" ELSE "run") /\ loc' = [loc EXCEPT ![s].stop = full]
    /\ UNCHANGED <<journal, bounds, history>>

ClaimCall(s) ==
    /\ pc[s] = "run"
    /\ rec' = [rec EXCEPT ![Call(s)] = "running"]
    /\ FirstRecord(Call(s))
    /\ Go(s, "execute")
    /\ UNCHANGED <<asked, counters, chain, sub, absent, loc, bounds, history>>

Execute(s) ==
    /\ pc[s] = "execute"
    /\ \E st \in {"succeeded"} \cup (IF plan.fails THEN {"failed"} ELSE {}) : Write(s, st)
    /\ sub' = IF asked[Call(s)] = "agent" THEN sub \cup {Call(s)} ELSE sub
    /\ UNCHANGED <<asked, counters, chain, absent, bounds, begun>>

AddCall(s) ==
    /\ pc[s] = "count"
    /\ counters' = IF Counts(loc[s].st) THEN [counters EXCEPT !.calls = @ + 1] ELSE counters
    /\ Go(s, "get")
    /\ UNCHANGED <<asked, rec, order, chain, sub, absent, loc, bounds, history>>

\* writeChainCas
GetChain(s) ==
    /\ pc[s] = "get"
    /\ loc' = [loc EXCEPT ![s].read = chain]
    /\ Go(s, "put")
    /\ UNCHANGED <<journal, absent, bounds, history>>

\* mutant: the chain is put without looking
PutChainBlind(s) ==
    /\ pc[s] = "put"
    /\ chain' = ToChain([loc[s].read EXCEPT !.some = TRUE], Call(s), loc[s].st)
    /\ Go(s, "done")
    /\ UNCHANGED <<asked, rec, order, counters, sub, absent, loc, bounds, history>>
PutChain(s) ==
    /\ pc[s] = "put"
    /\ \/ /\ chain = loc[s].read \/ loc[s].tries = ChainCasAttempts  \* the last put is a plain one
          /\ chain' = ToChain([loc[s].read EXCEPT !.some = TRUE], Call(s), loc[s].st)
          /\ Go(s, "done") /\ UNCHANGED loc
       \/ /\ chain # loc[s].read /\ loc[s].tries < ChainCasAttempts
          /\ loc' = [loc EXCEPT ![s].tries = @ + 1]
          /\ Go(s, "get") /\ UNCHANGED chain
    /\ UNCHANGED <<asked, rec, order, counters, sub, absent, bounds, history>>

ToolCall(s) ==
    \/ Read(s) \/ GateLoop(s) \/ GateCalls(s) \/ ClaimCall(s) \/ Execute(s)
    \/ AddCall(s) \/ GetChain(s) \/ PutChain(s)

\* The process dies; what is journaled stays.
Crash ==
    /\ pc[Main] # "idle" /\ crashes < plan.crashes
    /\ crashes' = crashes + 1
    /\ pc' = [a \in Actors |-> "idle"] /\ absent' = {}
    /\ UNCHANGED <<journal, loc, plan, step, resumes, history>>

Next ==
    \/ Loop \/ Crash
    \/ \E a \in Actors : EnsureSeeded(a)
    \/ \E s \in Slots : ToolCall(s)

Spec == Init /\ [][Next]_vars
-----------------------------------------------------------------------------
(* Properties *)

\* Records, counters and the calls in progress have their types.
TypeOK ==
    /\ Len(asked) % plan.width = 0 /\ Len(asked) <= Cardinality(Calls)
    /\ rec \in [Calls -> {"none", "running", "suspended", "succeeded", "failed", "denied", "reflected"}]
    /\ {order[i] : i \in DOMAIN order} = {c \in Calls : rec[c] # "none"}
    /\ counters \in [{"steps", "tokens", "calls"} -> Nat]
    /\ chain.repeats \in Nat /\ chain.ids \cup sub \cup absent \subseteq Calls
    /\ \A s \in Slots : loc[s].tries \in 0 .. ChainCasAttempts

\* No check and no call is in progress.
AtRest == pc[Main] \in {"idle", "model"} /\ chain.some
Outcomes == Len(SelectSeq(log, LAMBDA o : Counts(o.st)))
\* A process that dies loses the outcomes that are journaled and not yet counted.
Lost == plan.width * crashes
\* A history is added in one request, after its claim: dying in between loses all of it.
HistorySafe == plan.old = <<>> \/ crashes = 0

\* However the parallel calls, the first scan and the live increments of a run
\* interleave, no outcome is lost or counted twice where a limit is enforced; where
\* none is, a loser of the first scan may count again what the scan has counted.
OutcomesCounted ==
    AtRest /\ HistorySafe =>
        counters.calls - Outcomes \in -Lost .. (IF Limited \/ plan.maxTokens > 0 THEN 0 ELSE plan.width - 1)
\* Every model step is counted once before the step's calls start, even if the process
\* died inside an earlier check: what is missing is found again by its number.
StepsCounted == pc[Main] = "tools" /\ plan.maxTokens > 0 => counters.tokens = StepsDone
\* The compare-and-set of the chain loses no call's id (the candidates for sub-agents)
\* before so many calls run in parallel that two are left after it has given up.
IdsKept ==
    AtRest /\ crashes = 0 /\ plan.width <= ChainCasAttempts + 1 =>
        \A c \in Calls : rec[c] # "none" => c \in chain.ids

CountsExact == TypeOK /\ OutcomesCounted /\ StepsCounted /\ IdsKept

\* The equal successes at the end of a sequence of outcomes, nudges left out
Trailing(outcomes) ==
    LET seq == SelectSeq(outcomes, LAMBDA o : o.st # "reflected")
    IN Cardinality({n \in 1 .. Len(seq) :
           \A k \in Len(seq) - n + 1 .. Len(seq) : seq[k] = [kind |-> seq[Len(seq)].kind, st |-> "succeeded"]})
\* The journal: a call's record stands where it was first put and says how it ended last.
Records == [i \in DOMAIN order |-> [kind |-> asked[order[i]], st |-> rec[order[i]]]]

\* One call at a time: the rolling chain is what a backward scan of the journal's records
\* counts as long as no record was overwritten, and of the outcomes in their order when
\* one was (a failed call that is retried, a suspended one that is answered). Then it may
\* differ from the records; where no call fails, never by more than they say. And a kind
\* of call is nudged once only while its chain lasts.
ChainIsScan ==
    plan.width = 1 /\ crashes = 0 /\ AtRest =>
        /\ Len(log) = Len(order) => chain.repeats = Trailing(Records)
        /\ chain.repeats = Trailing(log)
        /\ ~plan.fails => chain.repeats <= Trailing(Records)
        /\ \A i, j \in DOMAIN log :
              i < j /\ log[i] = log[j] /\ log[i].st = "reflected" =>
                \E k \in i .. j : log[k].st # "reflected" /\ log[k] # [kind |-> log[i].kind, st |-> "succeeded"]
\* No more identical outcomes in a row than the limit, all successes, but for the calls
\* that passed the gate together, and those whose outcomes reached the chain in another
\* order. (A suspension is an outcome too: an approved call begins a new chain.)
LoopBounded ==
    plan.maxRepeats > 0 /\ crashes = 0 => Trailing(log) <= plan.maxRepeats + 2 * (plan.width - 1)

LoopStops == ChainIsScan /\ LoopBounded

\* No call is executed in a step that began with maxToolCalls attempts made, sub-agents'
\* included, and no calls start when the run and its sub-agents have spent more than
\* maxTokens; a death adds no more than the calls it interrupts and their sub-agents. (The
\* calls of a run whose limits came late are capped from the first checked step on.)
CallsCapped ==
    HistorySafe /\ (plan.old = <<>> \/ plan.maxTokens > 0) =>
        \A s \in Slots : pc[s] = "execute" /\ plan.maxToolCalls > 0 => begun < plan.maxToolCalls + 2 * Lost
TokensCapped ==
    pc[Main] = "tools" /\ plan.maxTokens > 0 => StepsDone + Cardinality(sub) <= plan.maxTokens + Lost
CeilingsHold == HistorySafe /\ ~(plan.confirm /\ "agent" \in plan.kinds) => CallsCapped /\ TokensCapped
-----------------------------------------------------------------------------
(* Said in the code's comments and not true of it (README, Disagreements)  *)

\* limits.ts:459-461, "MATHEMATICALLY IDENTICAL" to counting the records backward from
\* the journal's end: the suspension of every approved call has broken the chain before.
ChainIsJournal == plan.width = 1 /\ crashes = 0 /\ AtRest => chain.repeats = Trailing(Records)

\* limits.ts:67-68, "never LONGER": a call that failed is retried by a resume when later
\* calls are journaled, and its success is chained to theirs.
ChainNeverLonger == plan.width = 1 /\ crashes = 0 /\ AtRest => chain.repeats <= Trailing(Records)

\* agent-tool.ts:53, "can NEVER bypass the parent's ceiling", and limits.ts:768, "neither
\* ever will": a call that was suspended before it ran is remembered as no sub-agent.
SubAgentsCapped == HistorySafe => TokensCapped

\* limits.ts:14-16, "correct count on an old run's resume": while one call has claimed the
\* seeding and not yet added its counters, the others find no counters.
OldRunCapped ==
    crashes = 0 => \A s \in Slots : pc[s] = "execute" /\ plan.maxToolCalls > 0 => begun < plan.maxToolCalls

\* limits.ts:76-77, "resume/replay still produces the SAME result": an outcome whose
\* process died before the hook is never counted, nor a history whose claimant died.
OutcomesSurvive == AtRest => counters.calls >= Outcomes
=============================================================================
