# A TLA+ verification of gnldev's durable core

gnldev is a TypeScript monorepo for AI agents whose effects survive crashes. Its packages `durable`, `queue`,
`events`, `scheduler` and `workflow` keep all state in a journal or a work store (SQLite, Postgres, Redis or memory)
and coordinate any number of processes through a few atomic requests of that store: `get`, `put`, `putIfAbsent`,
`putIfMatch` (compare-and-set) and `incrBy`. Nothing else is atomic: every `await` between two requests is a point at
which another worker, a timer or a crash may come in. This project models the protocols built from those requests, one
action per request, and asks what they keep under every interleaving.

## 1. Inventory

| Component | State | Operations | What makes it correct |
|---|---|---|---|
| run lock (`durable/src/run-lock.ts`) | one record: expiry and fencing token | acquire (claim, read, takeover), renew (heartbeat), release | at most one live lease; only expired leases change hands; a late renewal neither shortens nor revives |
| durable tool call (`durable/src/durable-tool.ts`, approvals in `run.ts`) | one `ToolJournalRecord` per call, one approval record | replay, gates, claim, recover, verdict, takeover, execute, terminal writes; a human's answers | the side effect happens no more often than somebody vouched for it; a success stays; every call returns |
| duplicate-effect marker (`durable-tool.ts`) | one `DupMarker` per (tool, arguments) | gate, claim, finalize, release | identical calls do not run the effect twice; first success wins |
| job queue (`queue/src/index.ts`) | append-only job log, markers qdone/qfail/qatt/qown, persisted cursor, one lease per job | enqueue, retryJob, jobEraser, the worker's runOnce with heartbeat | no job is lost behind the cursor, runs twice at once, or is left unfinished |
| poll loop (`durable/src/polling.ts`) | timer handle, overlap flag, interval | start, stop, tick | no overlap, the chain never dies |
| event bus (`events/src/index.ts`) | event log; per consumer a cursor, acks, attempts, dead letters, rescan flag | emit, poll, retryDeadEvent, listDeadEvents | every event is delivered or quarantined where an operator sees it; a release brings it back |
| workflow engine (`workflow/src/workflow.ts`) | step outputs, step claims, status record, cancel flag | runResumable, recover, takeover, cancelWorkflowRun | a side effect happens at most once; all resumes go on from the same outputs |
| workflow waker (`scheduler/src/workflow-waker.ts`) | wake tickets | tick | a sleeper wakes |
| scheduler (`scheduler/src/index.ts`, `cron.ts`) | trigger definition and state, fire locks | scheduleWorkflow, pollScheduler, moveTrigger | every fire becomes one run; no trigger is forgotten |
| run life cycle, durable model, compensation (`run.ts`, `outcome.ts`, `cancel.ts`, `durable-model.ts`, `compensation.ts`) | model steps, tool records, outcome record, tombstone, cancel flag, compensation records | runDurable, cancelAgentRun, compensateRun | a stopped run does next to nothing more; unwinding is in reverse order and once |
| agent network (`durable/src/network.ts`) | frozen routes, vetoes, steps and final answer | runNetwork | any number of hosts follow one history and give one answer |
| usage and budget (`durable/src/budget.ts`, `retention.ts`, `cost.ts`) | usage counters, per-run markers | recordRunUsage, getOrgUsage with backfill, checkBudget, uncountUsage | usage is counted once, and the gate sees it |
| limits (`durable/src/limits.ts`) | per run: additive counters, the loop chain; per process: the cache of absent nested runs | enforceStepLimits, checkToolGate, recordToolOutcome, seeding from history | the counts are the journal's; ceilings are passed only by the calls that were let through together |
| lease election (`lease.ts`), retention, rollover and batch, memory, registry, adapters, identity, servers, UI | see section 5 and `PROJECT.json` | | |

How they interact: the tool call, the model steps, the network and the workflow's steps run inside `runDurable`, which
may hold the run lock; a queue job, a scheduler fire and an event's handler call into `runDurable` or `runResumable`,
the first two under a lease of `acquireRunLock`; queue, events, scheduler, waker and retention are driven by the poll
loop; a finished run is counted for its organization, and the budget gate reads that count before the next run; an
operator cancels, unwinds, releases, purges and moves at any time, without a lock.

What is hard: several workers on one record with a read and a write in separate requests; a lease that expires under a
slow but living holder; a crash between an effect and its record; a human's decision that changes while a worker runs
on the older one; a position (cursor) persisted on an older judgement; an operator's two writes with a crash between
them. `PROJECT.json` lists the hazards with their lines and the properties that would notice.

## 2. Modules

| Module | Models | Run |
|---|---|---|
| `RunLock`, `StandaloneProofs` | the run lock and its heartbeats | `run_lock` |
| `DurableTool`, `DurableToolProofs` | one tool call, its approval and its workers | `tool` |
| `DupMarker`, `StandaloneProofs` | the duplicate-effect marker | `dup_marker` |
| `QueueWorker`, `QueueWorkerProofs` | the job queue and its workers | `queue` |
| `PollLoop`, `StandaloneProofs` | the poll loop | `poll_loop` |
| `Delivery` | what an event bus promises of an event's status | (abstract) |
| `EventConsumer`, `EventConsumerProofs` | the event consumer and the release of dead letters; implements `Delivery` | `events` |
| `Workflow`, `WorkflowProofs` | runResumable, its status registry and the waker | `workflow` |
| `Scheduler`, `SchedulerProofs` | triggers, fires and moveTrigger | `scheduler` |
| `RunLife`, `RunLifeProofs` | a run with its model steps, calls, outcome, cancellation and unwinding | `run_life` |
| `Network`, `StandaloneProofs` | the agent network's frozen decisions | `network` |
| `OrgUsage`, `OrgUsageProofs` | the organization's usage counter, the budget's reader and the purge | `usage` |
| `Limits` | the limits of one run with parallel calls, sub-agents, resumes and deaths | `limits` |

Every component has an `MC` module that names its instances and a `.cfg` that gives the constants their values. The
options of a tool, a queue, a trigger or a run are a constant record of the component (`tool`, `setting`, `plan`,
`team`) chosen in `Init` from a set, so that one run covers all its variants. Operators whose comment begins with
"mutant:" are plausible bugs of the definition that follows them; no specification uses them, they show that the
property they stand for notices the bug.

`StandaloneProofs` extends four components that call no other one and have no name in common. Therefore `DupMarker`,
`PollLoop` and `Network` begin the names that every specification has with their own (`MarkerInit`, `LoopNext`,
`NetSpec`), and their names for a clock, a crash or a place differ from `RunLock`'s.

**RunLock.** `rec` is the record under `<runId>:lock`; `acq`, `ren` and `rel` are the calls in progress of each process
with what they have read so far. A token is a number handed out once (`randomUUID`). `granted` is what the holder was
told, not what the record says: "two holders" is stated from the holders' point of view. Several renewals of one holder
may be in flight (`Beats`), because the heartbeat is an interval that does not wait. `AwaitsRenew` distinguishes
`run.ts`, which awaits its last renewal before it releases, from the queue worker, which awaits none. `Purge` is
retention deleting the run's keys; it withdraws the lease.

**DurableTool.** `rec` is the record of one key, `decision` the approval, `loc` a worker's local variables (`record`,
`approved`, `rawBefore`, recover's answer), `applied` the external world's count of the effect, `orphans` the calls
abandoned by a timeout. The policies behind the gates (confirm, guard, duplicate, taint, semantic) are reduced to
whether the gate asks on a fresh record only or on any record; the guard may also deny by itself. `Read`, `Claim`,
`Reread`, `Busy`, `Probe`, `SkipProbe`, `Judge` and `Takeover` are the claim ladder; `Spend`, `LookUp`, `Execute`,
`Finish` and `Fail` the execution. `Answer`, `ChangeMind` and `Amend` are `resolveApprovals`, whose probe and
compare-and-set are two steps. `Sole` says where the safety claims are made: one worker (`Alone`), which is what the run
lock gives, or any number on the key of a side effect without gates, hooks and answers (`Bare`). `Vouched` excludes an
answer that by design covers every later attempt, and a recover() asked about a call abandoned by a timeout. A policy's
question (guard, duplicate, taint) is put over whatever record it read, a crashed attempt's too; `RecordNeverRegresses`
says that nothing else covers an attempt, confirm's question above all, and not that nothing does.

**DupMarker.** Calls with equal arguments under `sideEffectDuplicates: 'block'` without a window. A call a human
approved (`Approved`) skips gate and claim. `Record` is the put of the succeeded tool record that comes before the
marker's finalization; `Die` may come between. A crashed call does not come back in this module.

**QueueWorker.** `log` is the job list in list order, `cursor` the offset in `qcursor` (all adapters' cursors are
offsets), `lease` the run lock of a job, reduced to what `RunLock` guarantees. `loc` holds the page, `allTerminal`, the
token and `lockLost`. `MaxJobs` bounds the ids over all settings. `jobEraser` deletes the lease with the job, under
whoever holds it: a worker that listed the page before may claim the erased job again, so `OneHandler` speaks of jobs in
the log. `UnclaimedStaysAhead` is claimed while producers' clocks agree and nothing is erased, since either shifts rows
under an offset cursor. `JobsFinish` holds without exception while workers merely race: `allTerminal` is reset on every
page, and yet a job the cursor passed is finished by who holds it. Once its attempt threw, a worker failed, or offsets
shift (`Hindered`), a job behind the cursor (`Behind`) may stay there for good, and the property says no more than that
it has to be there. `Stall` is a lease that runs out under a living worker; `Renew` and `RenewFails` the heartbeat.

**PollLoop.** One action per callback; handles of timers are model values.

**EventConsumer and Delivery.** A pass reads the cursor and the rescan flag, goes page by page and event by event (ack,
dead letter, backoff, handler, attempts, ack or quarantine), moves the cursor as long as nothing before it is pending
(`frozen`) and clears the flag it reacted to. An operator's release is a compare-and-set on the dead letter and then a
put of the flag. Attempts carry the release they were counted under (`gen`), as the code's stamp of `releases` and
`releasedAt` does; `releasedAt` comes from a `clock` that ticks between two releases. `team` says who takes part.
`Delivery` knows an event's status only (`pending`, `quarantined`, `released`, `delivered`); `Status` maps the store's
records to it, and `ImplementsDelivery` is checked as a property of the run.

**Workflow.** One run of a chain of steps. A side-effect step is claimed before it runs (`claim`), and its output is a
`putIfAbsent`; a resume that finds a foreign claim asks `recover()`, waits or takes it over. An output is the number of
the call that produced it, so that "all resumes see the same outputs" can be said. `status` is the registry record whose
`at` the waker's ticket is keyed by; `Wake` is the waker's tick with its listing, ticket and resume. `effects` is
the external world.

**Scheduler.** A trigger under one of two ids (`sys`, and `owned` after moveTrigger). A fire is numbered by `fireCount`;
its run id, and its lock, are that number's. `loc` is what a poller has read: state, `now`, and what the run answered. A
host that boots keeps the time it was called with (`host[h].now`), as scheduleWorkflow's parameter does. Its put of the
state is a plain one. `host[h].late` notes that another host has put the state since this one found none, and `clobbers`
counts the late puts that met a trigger which had moved on: the one step that `FiresExact` and `NoRollback` exempt. The
delay after a failure doubles up to `MaxBackoff`. `done` collects the fires whose workflow has finished; `failures`,
`commits` and `grid` are history. `MaxFires` bounds the fire count.

**RunLife.** The journal of one run: `model` and `tool` say how far it has come, `outcome` is the verdict record with
its time stamp, `canceled` and `condemned` are the two stop flags, `comp` the compensation records. `effects` and
`refunds` are what really happened, `late` what a worker still did after a stop flag was set. Workers go through
admission, lock, loop and verdict; operators through `compensateRun`. An operator's worklist is the records it read
(`seen`) and a position that goes down from the last call (`at`); calls without a record are passed over. A compensation
claim is stale 30 s after its stamp, and nothing renews it: `StaleComp` may come while its operator is gone or while its
hook still runs. `outlived` notes the calls of the second kind, for which no single refund is claimed.

**Network.** `route`, `veto` and `step` are the frozen records, positions 1 to `MaxIterations` and the forced final;
`loc` is a caller's local list of steps, the registered agents it knows, and ghost fields noting what was frozen when
its call began. `returned` collects the answers.

**OrgUsage.** `ctr` is the sharded counter and `legacy` the older record, both as what each has of each run; `marker`
are the runs with a `:usage-counted` marker. A worker finishes runs, a reader is `checkBudget` (O(1) read, top-up,
full scan and backfill), a purger is `uncountUsage` with the deletion that follows. A backfill writes its document from a
listing that may be old by then; `overtaken` notes the runs executed or purged while one was on its way, `repurged` those
whose purge was begun a second time. What the code does to these is refuted below (`BilledOnce`, `NeverNegative`);
`CountedExactly` speaks of the others, under every setting.

**Limits.** `counters` and `chain` are the two records under `__gnl_limits_*`, `rec` and `order` the run's tool records
in the order `readRun` returns them, `sub` the calls whose nested run has counters and `absent` the process's cache of
those that have none. `Main` is the agent loop, a slot is one of the calls the AI SDK runs in parallel. The first of
them to need a count seeds from history (`ReadChain`, `Scan`, `ClaimSeed`, `AddSeed`: four requests); a step is then
checked (`ReadCounters`, `AddDelta`, `CheckStep`), a call gated (`GateLoop`, `GateCalls`), executed and counted
(`AddCall`, `GetChain`, `PutChain`). A model step and a sub-agent cost one token each. `EndRun` is the provider's error
or the model's last answer, after which a resume may come. `log` and `begun` are history: what was recorded in which
order, and how many attempts had been made when the step's calls were started. A record keeps its place when a retry or
an answer overwrites it, so that `Records` (the journal) and `log` (the outcomes) differ from then on; the rolling chain
follows the second.

## 3. What the runs check

| Run | Question | Bounds |
|---|---|---|
| `run_lock` | Mutual exclusion as the holders see it (`LeaseExclusive`), a live holder finds its own record (`HolderInv`), fencing (`TakeoverOnlyOfExpired`), and what renewals that land late may do (`LateRenewals`), with crashes, purges and rejected requests anywhere | 2 processes with 2 renewals in flight, 2 tokens, 4 ticks, TTL 1 |
| `tool` | At most one executor and never more than maxRetries takeovers (`CallInv`); effects at most as often as vouched for; a success stays, confirm covers no attempt and attempts only grow (`RecordNeverRegresses`); every call returns | 7 tools (2 workers on the plain ones, 1 on those with hooks and questions), 6 calls of execute(), maxRetries 3, TTL 1, up to 3 answers |
| `dup_marker` | One executor at a time, a success is marked for good, no effect after it | 4 calls, one approved, crashes, TTL 1 |
| `queue` | No job behind the cursor that nobody claimed; one handler per job while leases are renewed; every job ends, but for those the cursor passed before a throw, a fault or a shift of rows | 5 settings: 2 workers on 3 pages, 1 fault; 2 workers on 2 pages, throws, 1 fault; 2 workers on a job that is erased; 1 worker, erasure and clocks that differ, with 2 jobs on a page, retries and 1 fault, or on 3 pages |
| `poll_loop` | No overlap, the chain stays alive, the interval stays in its bounds; a started loop polls again | 4 timer handles, interval 2 up to 7 |
| `events` | What lies behind the cursor is delivered or visible (`PassedIsVisible`), attempts and releases are accounted exactly (`Accounts`), a release stands while one instance works, every event settles, and the whole implements `Delivery` | 3 teams: 2 instances; 1 instance and 2 operators at once; 1 instance, 1 operator, 1 crash; 2 events on 2 pages |
| `workflow` | A side effect happens at most once, resumes agree on the outputs (`RunInv`), a cancel lets a worker run at most the step it is in (`RunInv` too), sleepers wake if nothing fails | 2 workers, 5 shapes of one or two steps, up to 2 faults, up to 3 calls |
| `scheduler` | Each fire has finished before it is passed and is recorded once (`FiresExact`), attempts are spent by failures only and polls do not shift the grid (`PlanKept`), overtaken pollers and booting hosts take nothing back but by a late put (`NoRollback`), triggers live on or end | 9 plans (one-shot, one try, periodic, catch-up, lost state with 2 pollers or with 2 hosts and a fault, 2 hosts at once, moved, cron), 2 pollers, 2 hosts, clock to 4, 4 fires, backoff capped at 2 |
| `run_life` | After a stop flag a worker makes at most one more model call or effect (`StopsReach`), effects happen once, and refunds where no fault and no slow hook breaks the claim (`EffectsExact`), unwinding is in reverse order, no verdict is replaced by an older one | 3 plans (canceled; unwound by 2 operators; resumed and unwound), 2 workers, up to 2 calls and 2 faults |
| `network` | One frozen history, one answer, replays ask nobody, a veto stands | 2 hosts that may know different agents, 2 agents, 2 iterations, 4 calls that may fail anywhere |
| `usage` | But for runs executed or purged while a reader backfills: no run is billed twice, by counter and document together, none is lost, an erased one leaves no cost (`CountedExactly`); the gate sees what is spent (`GateSeesSpending`) | 5 settings: in service with a purge; two readers upgrade an old journal, at rest, while runs are executed, or while one is purged; first use; 2 runs, 2 workers, 2 readers, 1 purger, up to 2 crashes |
| `limits` | After a step the counters and the chain are what the journal says (`CountsExact`); one call at a time the chain is a backward scan of the records, or of the outcomes once a record was overwritten, and repeats are bounded (`LoopStops`); no call starts in a step that began at its ceiling, no step above the token ceiling (`CeilingsHold`) | 10 plans: 1 to 4 parallel calls, up to 4 steps, tools that fail, sub-agents, a history, a nudge, questions about one call at a time or two, up to 4 resumes and 2 deaths; 3 tries of the chain's compare-and-set, as in the code |

Why the bounds are enough to be interesting: two workers suffice for every race of a read and a write, a third would
mostly repeat one of them; TTL 1 lets a lease be fresh, at its last instant and expired; one or two faults reach every
point between two requests. Two pages are the least on which a cursor moves, three the least on which it can pass a page
that was judged earlier; the queue has faults, erasure and clocks that differ there too. Where one instance would be too
large for all of it, the settings of one run split the cases (`Canceled`, `Unwound` and `Resumed` in `run_life`, say).
Every bound is a constant, or a field of a plan, with a name.

Where a behaviour ends because a bound or the work is used up the configuration says `CHECK_DEADLOCK FALSE`; queue,
events, scheduler and poll loop are checked for deadlock.

Some properties are conjunctions of parts that share one subject and are named separately in their module: `CallInv`,
`WorkerInv`, `Accounts`, `RunInv` and the other names with `Inv` have the module's type invariant as their first part.

### Fairness

| Specification | Weak fairness of | Because | None for |
|---|---|---|---|
| `QueueWorker!FairSpec` | each worker's `RunOnce`, the expiry of a lease nobody renews | the poll loop calls again, storage answers, handlers settle, time passes | faults, renewals, producers, erasure |
| `DurableTool!FairSpec` | each worker's `Work`, `Tick` | a call that was started goes on; time passes | starts, crashes, answers |
| `PollLoop!FairLoop` | `Fire(h)`, `Settle` | armed timers fire, `fn()` settles | start, stop |
| `EventConsumer!FairSpec` | each process's `Step`, `Elapse(e)` (backoff) | the poll loop; a call that was made goes on | releases, crashes, emit |
| `Workflow!FairSpec` | each worker's `RunResumable \/ Wake`, `TimeUp` | the waker's poll loop; the sleep ends | faults, cancel, calls by hand |
| `Scheduler!FairSpec` | each poller's `PollScheduler`, each host's `ScheduleWorkflow` once called, `Tick`, `Lapse` of a dead poller's lock | the poll loop; time passes | faults, losses, moves |

The runs of `RunLock`, `DupMarker`, `RunLife`, `Network`, `Limits` and `OrgUsage` claim safety only and have no fairness.

### Disagreements between code and comments

The modules end with the statements that the code's comments make and TLC refutes, each with the quoted comment. To see
a counterexample, name the definition in the component's `.cfg` (as INVARIANT, or as PROPERTY for the action formulas);
the finite instances there are large enough except where a change is given.

| Definition | Comment | What happens |
|---|---|---|
| `RunLock!ReleasedNeverRenewed` | run-lock.ts:25-27 "a lost/released lock is NEVER renewed" | `run.ts` awaits the last renewal only; an earlier one that is still in flight passes its read, and its compare-and-set revives a lock released in between |
| `DurableTool!DenialHidesNothing` | durable-tool.ts:697 "A human REFUSED this call - it did NOT run" | the question was asked about an attempt that had crashed after its effect; the refusal then hides it |
| `DurableTool!QuestionHidesNothing` | durable-tool.ts:772-776, on why confirm asks about fresh calls only: a question over a crashed attempt hides that it may have run | the guard's arm (durable-tool.ts:911) puts its question over a running or failed record all the same |
| `QueueWorker!CursorPassesNoWork` | the comment on QCURSOR: what is before the cursor is terminal | `allTerminal` is reset on every page: the cursor passes a page on which another worker still holds a job. The event consumer's `frozen` flag, kept across pages, is the remedy next door |
| `QueueWorker!RetryPreserved` | index.ts:522 "the cursor is NOT advanced permanently (retry preserved)" | the end of a later page persists the cursor past a job skipped as locked; its holder crashes, or its handler throws, and nobody lists the job again |
| `EventConsumer!ReleaseStands` | index.ts:547-549 "nothing to race with" | with two instances under one name, one that read no dead letter quarantines over a release; add the team `[Scaled EXCEPT !.operators = {o1}, !.maxReleases = 1]` |
| `Scheduler!NoDrift` | index.ts:63 "no drift accumulates" | a retried fire plans the next from the retry's time |
| `Scheduler!FencedAlways` | packages/scheduler/README.md:4 "every write to the trigger's state is CAS-fenced" | scheduleWorkflow's two puts are plain: of two hosts that boot at once, or repair at once, the later one takes the count back |
| `Scheduler!MoveDoesNotDouble` | index.ts:669-670 "without doubling it" | a poll between the new state and the retirement of the old trigger fires both |
| `RunLife!RefundNeverTwice` | compensation.ts:13-14 "a refund can never run twice" | after the operator's crash, or a hook that threw, the hook is called again; and without any fault where a hook takes longer than the claim's 30 s, which nothing renews, and a second operator comes by |
| `RunLife!CompletedStands` | outcome.ts:122-127 | an attempt that failed takes its time stamp after another one's success |
| `RunLife!CanceledIsNotRunning` | outcome.ts:142-150 | a start marker stamped after the cancellation and written before its record |
| `Network!FallbackStands` | network.ts:360 "derived from frozen steps -> deterministic" | the fallback is not frozen; a later call asks the router again |
| `OrgUsage!BilledOnce` | budget.ts:269-270 "never overbills" | a run counted between a reader's look at the counter and its backfill is in both |
| `OrgUsage!NeverNegative` | retention.ts:153-156 | a purge done again after a crash subtracts twice |
| `Workflow!SleepersWake` | workflow-waker.ts:139-143 "correctness does NOT depend on this CAS" | the wake ticket is keyed by the run's updatedAt and never taken back: after a resume that throws or dies without touching the status record, every later tick finds the ticket taken, and the run sleeps past its time for ever |
| `Limits!SubAgentsCapped` | agent-tool.ts:53 "can NEVER bypass the parent's ceiling", limits.ts:768 "neither ever will" | a sub-agent's call that was suspended for approval enters the chain before it has run, is cached as absent, and its tokens are then never added in this process; add the plan `[Asked EXCEPT !.width = 1, !.kinds = {"agent"}, !.maxTokens = 2, !.maxToolCalls = 0, !.steps = 3, !.resumes = 4]` |
| `Limits!OldRunCapped` | limits.ts:14-16 "correct count on an old run's resume" | between the seeding's claim and its addition the other calls of the step find no counters and pass the gate; add the plan `[Capped EXCEPT !.old = <<"a", "a", "a", "a">>, !.steps = 1]` |
| `Limits!ChainIsJournal` | limits.ts:459-461 "MATHEMATICALLY IDENTICAL" to a backward scan of the records | every approved call was suspended first, and its suspension has broken the chain: a loop of confirmed calls is never seen |
| `Limits!ChainNeverLonger` | limits.ts:67-68 "SHORTER than it is (never LONGER)" | a call that failed is retried by a resume when later calls are journaled; its success is chained to theirs, while its record stands before them |
| `Limits!OutcomesSurvive` | limits.ts:76-77 "resume/replay still produces the SAME result" | an outcome whose process died between the record and the hook is never counted; neither is a history whose claimant died before it added the counters |

Further weaknesses are hazards with a note in `PROJECT.json`. They can be seen by changing one constant: `Stalls = TRUE`
in `DupMarker.cfg` (two executors after a takeover, a late release that erases a foreign completed marker), a tool with
`recover` and `timeouts` (an
abandoned call lands after recover() denied it), two workers on one tool outside `Bare`. In that last case every verdict
reached on an older read is a window: both replay or probe first and execute then (an idempotent tool, `lookup`,
`recover`), both hold one yes, or a gate's plain put of a question or a refusal overwrites the claim, or the success, of
the other worker. The claim of one executor is therefore the run lock's to keep, and `DurableTool` makes it for one
worker, or for the bare side effect whose claim is a `putIfAbsent`.

Two more, in the counters: the budget gate reads the counter and then lists the live runs, and misses a run that
finishes in between (budget.ts:306-307 says it can only reject earlier); and where the outcome hook is the first to need
the counters, the losers of the seeding count again what the winner's scan has counted, one for each call running beside
it (`OutcomesCounted` states that bound and `Hooked` reaches it), where limits.ts:58 speaks of one event.

And what the exemptions of two properties stand for, each reached by its run:

- `OrgUsage`, a run in `overtaken`: a worker counts it while a reader is on its way to put a document that has it as
  well, and it is billed twice; or one reader's marker keeps the worker from counting it, while a second reader, which
  listed it as running, replaces the first one's document by one without it, and the completed run is in no counter any
  more. A purge that comes in between subtracts from a document that is then replaced.
- `Scheduler`, a step counted by `clobbers`: one host repairs a state that the other is just creating; it finds the lock
  of a fire in progress and puts a count beyond it, so that the fire is passed before its run has finished; or a late
  put takes the count back, and fires are recorded again. A second host whose put meets the trigger as the first one
  left it, though late, does no harm, and neither does one host that boots, boots again and repairs.

## 4. What is proved

`StandaloneProofs`: the run lock, for any set of processes, any set of heartbeats in flight, any TTL, with and without
the awaited renewal, from `RunLockAssumption` alone (the numbers are natural):

- `TypeCorrect`: `Spec => []TypeOK`; `HolderOwnsRecord`: `Spec => []HolderInv`;
- `Exclusion`: `Spec => []LeaseExclusive`; `Fencing`: `Spec => TakeoverOnlyOfExpired`;
- `LateHolds`: `Spec => LateRenewals`, which assumes `AwaitsRenew`: run.ts waits for its last renewal, the queue does
  not.

`LeaseExclusive` is not inductive: it speaks of two holders and not of the record they were granted. The invariant
`IInv` adds that a live holder finds exactly its own token and expiry in the record (from which exclusion follows, since
tokens differ), that tokens in handles, calls and records were handed out (`TokensFresh`) and belong to one process
each (`TokensOwned`), and that what a call remembers of the record, and when it sampled the clock, was true at some
earlier time (`CallsInformed`): a takeover whose compare-and-set succeeds finds the very record whose expiry it judged,
and the clock has not gone back since.
`LateHolds` needs more (`LateInv`): no lease reaches further than a TTL from now, and what a renewal read reaches no
further than a TTL from its own clock reading, so that its write never shortens the lease; and a released lock is
nobody's, with the awaited renewal of its former holder already returned.

The duplicate marker, for any calls, approved or not, any TTL and clock, where no execution outlasts its claim
(`~Stalls`; with `Stalls` TLC refutes both): `MarkerHolds` (`MarkerSpec => []MarkerInv`) and `SuccessHolds`
(`MarkerSpec => SuccessIsFinal`). The invariant (`PlacesInv`) says what a call finds at its place: who executes under a
claim finds its own claim in the marker, younger than the TTL, hence it is the only one and nobody can take it over;
and when it is about to complete it has read exactly that row, so that its compare-and-set succeeds, also with approved
calls beside it, which overwrite no claim.

The poll loop, for any timers and intervals: `LoopCorrect`, `LoopSpec => []LoopInv`. That fn() does not overlap itself
needs that the flag says exactly whether a call is in flight (`FlagTells`).

The agent network, for any sets of hosts and agents and any numbers of iterations and calls: `History`
(`[]FrozenHistory`), `Agreement` (`[]AnswersAgree`), `Replay` (`[]ReplayAsksNobody`) and `Vetoes` (`[]VetoStands`).
None of the four is inductive. The invariant joins the types with: frozen routes are routes to an agent or an answer
(`RoutesValid`); the frozen records have no gap, and none lies behind an answer (`FrozenInOrder`); every answer that was
returned is the frozen one with the frozen steps (`ReturnedFrozen`); and for each caller (`HostInv`) its list of steps is
the frozen prefix, its decision is the frozen route of its position, and what it noted at its start has stayed frozen.
The frozen records only grow, so that `HostInv` of the callers that do not move survives everybody's steps; that is the
one lemma the action proofs share.

`EventConsumerProofs`, for any teams of instances and operators (disjoint, finite), any page size, attempts, events,
releases and crashes:

- `NothingLost` (`[]PassedIsVisible`). The invariant says what an instance knows of the log at its place in poll()
  (`PollInv`): while it has seen nothing retryable, every event before its local cursor is settled or still on the page
  in hand; and settled events stay settled whoever moves (`Grows`). An operator's part is `RetryInv`: the dead letter it
  read does not disappear.
- `Refinement` (`Spec => ImplementsDelivery`): `Status` maps each step to a step of `Delivery` or to a stutter. It needs
  the same invariant, for the dead letter of a release that is on its way.
- `AccountsRight` (`[]Accounts`) and `ReleaseHolds` (`ReleaseStandsAlone`), where one instance polls, with any number of
  operators. The strengthening `SoloInv` relates the counter the instance read to the one in the store: only a release
  changes it meanwhile, and no release has an earlier one's stamp.

`WorkflowProofs`, for every workflow (any sequence of steps with or without side effect, recover() and sleep), any
finite set of workers and any number of calls, crashes and throws: `EffectOnce` (`[]EffectAtMostOnce`) and `RunHolds`
(`[]RunInv`). A call's claims lie on steps it has passed or on the one it stands at (`ClaimsInv`); who holds the claim
may still run the effect, and what a worker judged about a foreign claim stands as long as the claim does (`EffectInv`);
and nobody keeps what it read of a claim whose call goes on (`ReadsInv`), so that an adoption never takes a claim whose
owner has come back.

`QueueWorkerProofs`, for any workers and settings and any number of jobs, pages, faults and grants: `WorkersHold`
(`[]WorkerInv`) and `NothingSkipped` (`[]UnclaimedStaysAhead`). The first needs that tokens are per job, never ahead of
the lease, and have one worker (`TokensInv`, `TokenInv`, `HolderInv`); the second, with clocks that agree and nothing
erased, that the log is the ids in order and that every worker's scan has passed only jobs that are finished or were
claimed once (`ScanInv`), which survives the other workers because both are for good.

`DurableToolProofs`, for any tools, finite set of workers, `MaxRetries`, TTL and number of starts:

- `CallHolds` (`[]CallInv`) and `RecordForward` (`RecordNeverRegresses`), under `Sole`. The second is not that no
  question covers an attempt (`QuestionHidesNothing` is false): only a gate that asks about any call puts one there. For
  one worker the invariant is that what it has read is what the journal holds at every place where it acts on it
  (`AloneInv`); for many on a bare side effect, that only the one that made the first claim executes (`BareInv`,
  `OnceInv`).
- `EffectsVouched` (`[]EffectsAuthorised`), under `Sole` and `Vouched`. `applied <= yes + 1` is not inductive: the
  invariant is a balance (`Balance`) of effects that happened, may still happen or are about to, and of answers not yet
  spent or on their way, against the answers given and the free first attempt; `Doubt` keeps one unit for an attempt
  that may have had its effect, and `Unasked` says why a worker without an answer may go for one.

`RunLifeProofs`, for any plans, workers and operators (finite; the canceler and the mark `"free"` are no workers), any
number of attempts, unwinds, crashes and failures:

- `StopsHold` (`[]StopsReach`): once a worker has been late it is past its last gate (`LateInv`).
- `EffectsHold` (`[]EffectsExact`): who is in the loop holds the lock, so that it is alone there (`LoopInv`); it
  executes only what has not happened, and a record says what has (`CallInv`). An operator has only calls in hand that
  happened (`UnwindInv`); without faults the compensation record of a call whose hook does not outlive the claim is a
  lock that is never broken (`ClaimInv`, `HolderInv`), hence one refund, whatever becomes of the other calls' claims.
  The lock itself is what `Exclusion` proves, reduced: it lapses only when its holder is gone.
- `ReverseHolds` (`ReverseOrder`): every later call read as succeeded is refunded when the position passes it, and
  refunds are not taken back; faults do not matter here.
- `Monotone` (`OutcomeMonotone`): what an actor read as the standing verdict is no newer than its own stamp
  (`VerdictInv`), and the conditional put succeeds only over what was read.

`OrgUsageProofs`, for any runs, workers, readers and purgers (the run has one purger, the theorem any number) and any
number of executions, reads, purges and crashes:

- `CountedHolds` (`[]CountedExactly`), for every setting, an upgrade under load included. No run is billed twice because
  at most one worker is about to add its cost, and only while nothing is billed (`BillInv`); no completion is lost
  because a marked run is billed or somebody is just adding it (`DoneInv`); the erasure's progress says whether there is
  still data to bill (`DataInv`), and a purge that met no worker has taken out what was in (`PurgeInv`, `GhostInv`). What
  a backfill holds of a run that nobody overtook is what the journal has of it (`ScanInv`), so that any number of them
  put the same of it, whoever comes last.
- `GateHolds` (`[]GateSeesSpending`), for every setting. `Owed` says what a reader has already seen, or will still find
  when it reads on, of every run it must not miss, at each of its places.

The attempt with two purgers showed that `Delete` must not turn a run whose purge was raced by a worker into one erased
alone; the model now keeps it.

`SchedulerProofs`, for every plan, any hosts, pollers, delays and bounds: `FiresHold` (`[]FiresExact`), `PlanHolds`
(`[]PlanKept`) and `Fenced` (`NoRollback`). The invariant has a part for each actor: what was recorded as fired lies
behind the trigger's count, and a trigger without a state was never fired while nothing was lost (`TriggerInv`); a host
that is not late writes a state only where there is none, with a count ahead of all that was recorded (`HostInv`), and
one that is late either finds the trigger as another host left it or adds to `clobbers`; a poller holds a pending state
it has read, and a result that tells of that fire's run (`PollerInv`); the mover's copy is of a state whose earlier
fires had finished (`MoverInv`). Attempts are compared with the failures of the fire (`Earned`) and fire times with the
grid (`Slot`), which needs a little arithmetic of division (`NextSlot`, for both misfire policies). The proof uses
nothing of who holds a fire lock: the compare-and-set against the state that was read is enough for safety, as the
code's comment says. Only that the lock's key was ever written matters, for the count of a repaired trigger.

In all of them the steps of one actor are proved against a frame: a lemma says what remains of the invariant to be
shown for the one that moves, and that the others' parts survive (`Turn`, `OpTurn`, `Grows`, `PollerFrame` and their
like).

Only model-checked: `Limits`, whose counts are lengths of filtered sequences, cardinalities and a fold over the run's
records, that is, inductions over data; and all liveness, which rests on fairness. Both are out of the prover's reach.

## 5. What is not modelled

- Storage adapters: taken at their interface's word. The fallbacks for adapters without `putIfMatch` or `incrBy` are
  left out (the code documents that they lose exclusion), as are storage requests that reject, except in the run lock.
- Tool calls: the policies behind the gates, mirrors, windows of the duplicate marker, `warn` and `reflect`, nested
  suspensions and the list of resolved call ids.
- Queue and events: `moveJob` (an offline upgrade), `drain` (a bounded loop over `runOnce`), `maxDepth`, owners and
  payloads; in the event bus also the eraser and clocks that differ, which act as they do in the queue.
- Workflow: parallel legs, loops, nested workflows, forks, maxSteps, resume payloads, waking for events.
- Scheduler: listing, pausing and erasing of triggers, diagnostics, the calendar behind a cron expression.
- Run life: streaming, ownership, processors, memory, the retry ladder, and suspension, which `DurableTool` has.
- Network: notifications, prompts and the parsing of the router's answer, and what a sub-agent does in its own run.
- Usage: the price table, the cost cache and the reads that do not gate.
- Clocks are one logical clock; a process's sample of it may be old.
- Lease election, retention sweeps, rollover and batch: protocols of the same kind, planned.
- Servers, protocols, user interfaces, command line, registry, hashing, pricing, formatting: no shared state of their
  own, or read models and pure data. They are most of the repository's lines, which is why the map covers a small share
  of them.

## 6. Plan

The modules above came in this order: the lock and the tool call, on which the rest builds; the queue and the poll
loop; the event bus with its abstract specification; workflow, scheduler and run life; network, usage and limits. Next:

1. `Limits` with its history as counters instead of sequences, so that `CountsExact` without deaths can be proved;
2. an abstract mutex with leases, `RunLock` shown to implement it, and `QueueWorker`'s `lease` replaced by its interface;
3. lease election (`lease.ts`), a lock with a renewing leader, composed with `PollLoop`;
4. the retention sweeps, with the erasure of jobs and events across pages; rollover and batch.
