----------------------------- MODULE Scheduler -----------------------------
(***************************************************************************)
(* One trigger of the scheduler (packages/scheduler/src/index.ts): hosts   *)
(* that call scheduleWorkflow at boot, pollers that fire it, moveTrigger,  *)
(* and a purge that takes the trigger's state.  "sys" is the trigger,      *)
(* "owned" the one moveTrigger puts in its place.                          *)
(*                                                                         *)
(* The run of a fire is durable: exactly once per run id, that is, per     *)
(* fireCount; running a finished one again replays it.  The fire lock is   *)
(* the RunLock of module RunLock: here it has a holder, and lapses when    *)
(* the holder is gone or, as a fault, stalled.                             *)
(***************************************************************************)
EXTENDS Integers

CONSTANTS Hosts, Pollers,
          Plans,      \* a trigger's definition, who boots and who polls; bounds: boots, faults,
                      \* losses of its state, moves
          RetryMs,    \* the delay of a deferral
          MaxBackoff, \* the cap of the delay after a failure
          MaxTime,    \* bound on the clock
          MaxFires    \* bound on fireCount

ASSUME SchedulerAssumption ==
    /\ {"absent", "free"} \cap Pollers = {}
    /\ RetryMs \in Nat \ {0} /\ MaxBackoff \in Nat \ {0} /\ MaxTime \in Nat /\ MaxFires \in Nat
    /\ \A p \in Plans :
          /\ p.kind \in {"at", "every", "cron"} /\ p.misfire \in {"skip", "catchup"}
          /\ p.value \in Nat \ {0} /\ p.maxAttempts \in Nat \ {0} /\ p.hosts \subseteq Hosts /\ p.pollers \subseteq Pollers
          /\ \A f \in {"boots", "faults", "losses", "moves"} : p[f] \in Nat

VARIABLES plan,       \* the element of Plans this behaviour is about
          now,        \* the clock
          def,        \* the triggers whose definition `sched:def:<id>` is there
          state,      \* the record `sched:state:<id>`
          fireLock,   \* the fire locks `sched:<id>:<n>:fire:lock` ever taken, and who holds them
          done,       \* the fires whose durable run has finished
          host, boots,  \* a host's place in scheduleWorkflow, and its local variables
          pc, loc,    \* a poller's place in pollScheduler, and its local variables
          mover, moved,
          faults, losses,
          failures,   \* history: how often the run of a fire failed
          commits,    \* history: how often a fire was recorded as fired
          grid,       \* history: the fire time a trigger was planned with
          clobbers    \* history: the puts of a host that came late (see PutState)

trigger == <<def, state>>
polling == <<pc, loc>>
history == <<failures, commits, grid, clobbers>>
env == <<plan, mover, moved, faults, losses>>
vars == <<trigger, now, fireLock, done, host, boots, polling, env, history>>
-----------------------------------------------------------------------------
Ids == {"sys", "owned"}
Fires == 0 .. MaxFires

NoState == [nextRunAt |-> 0, attempts |-> 0, fireCount |-> 0, status |-> "none"]
\* history: late, another host has put the state since this one found none
NoBoot == [pc |-> "idle", id |-> "sys", now |-> 0, count |-> 0, late |-> FALSE]
NoLocals == [todo |-> {}, now |-> 0, id |-> "sys", state |-> NoState, result |-> "none"]

Init ==
    /\ plan \in Plans
    /\ now = 0
    /\ def = {}
    /\ state = [id \in Ids |-> NoState]
    /\ fireLock = [id \in Ids |-> [n \in Fires |-> "absent"]]
    /\ done = [id \in Ids |-> {}]
    /\ host = [h \in Hosts |-> NoBoot]
    /\ boots = 0
    /\ pc = [p \in Pollers |-> "idle"]
    /\ loc = [p \in Pollers |-> NoLocals]
    /\ mover = [pc |-> "idle", state |-> NoState] /\ moved = 0
    /\ faults = 0 /\ losses = 0
    /\ failures = [n \in Fires |-> 0]
    /\ commits = [id \in Ids |-> [n \in Fires |-> 0]]
    /\ grid = [id \in Ids |-> 0] /\ clobbers = [id \in Ids |-> 0]

Fault == faults < plan.faults /\ faults' = faults + 1

\* The absolute grid a cron expression stands for: every plan.value units.
NextCron(t) == (t \div plan.value + 1) * plan.value

FirstRunAt(t) ==
    CASE plan.kind = "at" -> plan.value
      [] plan.kind = "every" -> t + plan.value
      [] plan.kind = "cron" -> NextCron(t)

ComputeNext(prevSlot, t) ==
    CASE plan.kind = "every" /\ plan.misfire = "catchup" -> prevSlot + plan.value
      [] plan.kind = "every" /\ plan.misfire = "skip" ->
            prevSlot + plan.value * ((t - prevSlot) \div plan.value + 1)
      [] plan.kind = "cron" -> NextCron(IF plan.misfire = "catchup" THEN prevSlot ELSE t)

\* min(2 ^ (attempts - 1), MaxBackoff)
Backoff(attempts) ==
    IF 2 ^ (attempts - 1) \in 1 .. MaxBackoff THEN 2 ^ (attempts - 1) ELSE MaxBackoff
-----------------------------------------------------------------------------
(* scheduleWorkflow, called at every boot *)

HostAt(h, label) == host' = [host EXCEPT ![h].pc = label]

\* the time is taken, get DEF: after a move, the spec names its owner
Boot(h, id) ==
    /\ host[h].pc = "idle" /\ h \in plan.hosts
    /\ \/ id = "sys" /\ mover.pc = "idle" /\ boots < plan.boots
       \/ id = "owned" /\ mover.pc = "done" /\ boots <= plan.boots
    /\ boots' = boots + 1
    /\ host' = [host EXCEPT ![h] = [NoBoot EXCEPT !.pc = IF id \in def THEN "state" ELSE "def", !.id = id, !.now = now]]
    /\ UNCHANGED <<trigger, now, fireLock, done, polling, env, history>>

PutDef(h) ==
    /\ host[h].pc = "def"
    /\ def' = def \cup {host[h].id}
    /\ HostAt(h, "put")
    /\ UNCHANGED <<state, now, fireLock, done, boots, polling, env, history>>

\* get STATE: both halves are there, or the state was lost
GetState(h) ==
    /\ host[h].pc = "state"
    /\ \/ state[host[h].id] = NoState /\ HostAt(h, "list")
       \/ state[host[h].id] # NoState /\ host' = [host EXCEPT ![h] = NoBoot]
    /\ UNCHANGED <<trigger, now, fireLock, done, boots, polling, env, history>>

\* mutant: the repaired trigger starts counting at 0
FireCountAfterLossZero(h) ==
    /\ host[h].pc = "list"
    /\ host' = [host EXCEPT ![h].pc = "put", ![h].count = 0]
    /\ UNCHANGED <<trigger, now, fireLock, done, boots, polling, env, history>>

\* fireCountAfterLoss: the highest fire the journal has a key of, plus one
FireCountAfterLoss(h) ==
    LET known == {n \in Fires : fireLock[host[h].id][n] # "absent"} IN
    /\ host[h].pc = "list"
    /\ \E n \in Fires :
          /\ n = 0 \/ n - 1 \in known
          /\ \A k \in known : k < n
          /\ host' = [host EXCEPT ![h].pc = "put", ![h].count = n]
    /\ UNCHANGED <<trigger, now, fireLock, done, boots, polling, env, history>>

\* Another host has put the state, and the trigger has moved on from it or lost it.
Clobbers(h) ==
    LET id == host[h].id IN
    host[h].late /\ ~(state[id].status = "pending" /\ state[id].fireCount = host[h].count)

\* put STATE, the new trigger's or the repaired one's: a plain put, whoever put it meanwhile
PutState(h) ==
    /\ host[h].pc = "put"
    /\ state' = [state EXCEPT ![host[h].id] =
                    [nextRunAt |-> FirstRunAt(host[h].now), attempts |-> 0, fireCount |-> host[h].count,
                     status |-> "pending"]]
    /\ grid' = [grid EXCEPT ![host[h].id] = FirstRunAt(host[h].now)]
    /\ host' = [g \in Hosts |->
                  IF g = h THEN NoBoot
                  ELSE IF host[g].id = host[h].id /\ host[g].pc \in {"def", "list", "put"}
                         THEN [host[g] EXCEPT !.late = TRUE] ELSE host[g]]
    /\ clobbers' = IF Clobbers(h) THEN [clobbers EXCEPT ![host[h].id] = @ + 1] ELSE clobbers
    /\ UNCHANGED <<def, now, fireLock, done, boots, polling, env, failures, commits>>
-----------------------------------------------------------------------------
(* pollScheduler *)

Go(p, label) == pc' = [pc EXCEPT ![p] = label]

\* on to the next trigger of the listing
NextTrigger(p) ==
    /\ loc' = [loc EXCEPT ![p] = [NoLocals EXCEPT !.todo = loc[p].todo \ {loc[p].id}, !.now = loc[p].now]]
    /\ Go(p, "next")

\* listKeys; the pass takes the time once
PollStart(p) ==
    /\ pc[p] = "idle" /\ p \in plan.pollers /\ def # {}
    /\ loc' = [loc EXCEPT ![p] = [NoLocals EXCEPT !.todo = def, !.now = now]]
    /\ Go(p, "next")
    /\ UNCHANGED <<trigger, now, fireLock, done, host, boots, env, history>>

Due(id, t) == state[id].status = "pending" /\ t >= state[id].nextRunAt

\* get DEF and STATE of the listed triggers: only a pending one that is due is fired
GetTrigger(p) ==
    /\ pc[p] = "next"
    /\ \/ \E id \in loc[p].todo :
             /\ Due(id, loc[p].now)
             /\ loc' = [loc EXCEPT ![p].id = id, ![p].state = state[id]]
             /\ Go(p, "acquire")
       \/ /\ \A id \in loc[p].todo : ~Due(id, loc[p].now)
          /\ Go(p, "idle") /\ loc' = [loc EXCEPT ![p] = NoLocals]
    /\ UNCHANGED <<trigger, now, fireLock, done, host, boots, env, history>>

Fire(p) == loc[p].state.fireCount

\* mutant: a lock that was released counts as taken
AcquireOnlyAbsent(p) ==
    /\ pc[p] = "acquire"
    /\ \/ /\ fireLock[loc[p].id][Fire(p)] = "absent"
          /\ fireLock' = [fireLock EXCEPT ![loc[p].id][Fire(p)] = p]
          /\ Go(p, "run") /\ UNCHANGED loc
       \/ fireLock[loc[p].id][Fire(p)] # "absent" /\ NextTrigger(p) /\ UNCHANGED fireLock
    /\ UNCHANGED <<trigger, now, done, host, boots, env, history>>

\* acquireRunLock of the fire, or another poller has it
Acquire(p) ==
    /\ pc[p] = "acquire"
    /\ \/ /\ fireLock[loc[p].id][Fire(p)] \in {"absent", "free"}
          /\ fireLock' = [fireLock EXCEPT ![loc[p].id][Fire(p)] = p]
          /\ Go(p, "run") /\ UNCHANGED loc
       \/ /\ fireLock[loc[p].id][Fire(p)] \notin {"absent", "free"}
          /\ NextTrigger(p) /\ UNCHANGED fireLock
    /\ UNCHANGED <<trigger, now, done, host, boots, env, history>>

\* the budget's guard throws, or runWorkflow finishes (replays, if it already
\* did), suspends, is busy elsewhere, or fails
RunWorkflow(p) ==
    /\ pc[p] = "run"
    /\ \/ /\ done' = [done EXCEPT ![loc[p].id] = @ \cup {Fire(p)}]
          /\ loc' = [loc EXCEPT ![p].result = "done"]
          /\ UNCHANGED <<faults, failures>>
       \/ /\ Fault /\ \E r \in {"budget", "busy", "suspended"} : loc' = [loc EXCEPT ![p].result = r]
          /\ UNCHANGED <<done, failures>>
       \/ /\ Fault /\ loc' = [loc EXCEPT ![p].result = "failed"]
          /\ Fire(p) \notin done[loc[p].id]
          /\ failures' = [failures EXCEPT ![Fire(p)] = @ + 1]
          /\ UNCHANGED done
    /\ Go(p, "commit")
    /\ UNCHANGED <<trigger, now, fireLock, host, boots, plan, mover, moved, losses, commits, grid, clobbers>>

\* mutant: a deferral counts as an attempt
OutcomeCountsDeferrals(s, t, result) ==
    CASE result = "done" /\ plan.kind = "at" -> [s EXCEPT !.status = "done"]
      [] result = "done" /\ plan.kind # "at" ->
            [nextRunAt |-> ComputeNext(s.nextRunAt, t), attempts |-> 0, fireCount |-> s.fireCount + 1,
             status |-> "pending"]
      [] result # "done" /\ s.attempts + 1 >= plan.maxAttempts ->
            [s EXCEPT !.attempts = @ + 1, !.status = "failed"]
      [] result # "done" /\ s.attempts + 1 < plan.maxAttempts ->
            [s EXCEPT !.attempts = @ + 1, !.nextRunAt = t + Backoff(s.attempts + 1)]

\* The state that records how the fire went
Outcome(s, t, result) ==
    CASE result = "done" /\ plan.kind = "at" -> [s EXCEPT !.status = "done"]
      [] result = "done" /\ plan.kind # "at" ->
            [nextRunAt |-> ComputeNext(s.nextRunAt, t), attempts |-> 0, fireCount |-> s.fireCount + 1,
             status |-> "pending"]
      [] result \in {"budget", "busy", "suspended"} -> [s EXCEPT !.nextRunAt = t + RetryMs]
      [] result = "failed" /\ s.attempts + 1 >= plan.maxAttempts ->
            [s EXCEPT !.attempts = @ + 1, !.status = "failed"]
      [] result = "failed" /\ s.attempts + 1 < plan.maxAttempts ->
            [s EXCEPT !.attempts = @ + 1, !.nextRunAt = t + Backoff(s.attempts + 1)]

Record(p) ==
    /\ Outcome(loc[p].state, loc[p].now, loc[p].result).fireCount \in Fires
    /\ state' = [state EXCEPT ![loc[p].id] = Outcome(loc[p].state, loc[p].now, loc[p].result)]
    /\ commits' = IF loc[p].result # "done" THEN commits
                  ELSE [commits EXCEPT ![loc[p].id][Fire(p)] = @ + 1]

\* mutant: the state is written whoever advanced the trigger meanwhile
CommitBlind(p) ==
    /\ pc[p] = "commit"
    /\ Record(p)
    /\ Go(p, "release")
    /\ UNCHANGED <<def, now, fireLock, done, host, boots, loc, env, failures, grid, clobbers>>

\* commit: putIfMatch against the state read at the start of the fire
Commit(p) ==
    /\ pc[p] = "commit"
    /\ \/ state[loc[p].id] = loc[p].state /\ Record(p)
       \/ state[loc[p].id] # loc[p].state /\ UNCHANGED <<state, commits>>
    /\ Go(p, "release")
    /\ UNCHANGED <<def, now, fireLock, done, host, boots, loc, env, failures, grid, clobbers>>

\* release, fenced by the token
Release(p) ==
    /\ pc[p] = "release"
    /\ fireLock' = IF fireLock[loc[p].id][Fire(p)] # p THEN fireLock
                   ELSE [fireLock EXCEPT ![loc[p].id][Fire(p)] = "free"]
    /\ NextTrigger(p)
    /\ UNCHANGED <<trigger, now, done, host, boots, env, history>>
-----------------------------------------------------------------------------
(* moveTrigger; it may be run again after it threw or crashed *)

MoverAt(label) == mover' = [mover EXCEPT !.pc = label]

\* get DEF and STATE of the trigger, and DEF of the owned one
MoveRead ==
    /\ mover.pc \in {"idle", "stopped"} /\ moved < plan.moves
    /\ \A h \in Hosts : host[h].pc = "idle"
    /\ "sys" \in def /\ state["sys"] # NoState
    /\ moved' = moved + 1
    /\ mover' = [state |-> state["sys"],
                 pc |-> IF "owned" \notin def THEN "def" ELSE IF state["sys"].status = "pending" THEN "retire" ELSE "done"]
    /\ UNCHANGED <<trigger, now, fireLock, done, host, boots, polling, plan, faults, losses, history>>

MovePutDef ==
    /\ mover.pc = "def"
    /\ def' = def \cup {"owned"}
    /\ MoverAt("state")
    /\ UNCHANGED <<state, now, fireLock, done, host, boots, polling, plan, moved, faults, losses, history>>

MovePutState ==
    /\ mover.pc = "state"
    /\ state' = [state EXCEPT !["owned"] = mover.state]
    /\ grid' = [grid EXCEPT !["owned"] = grid["sys"]]
    /\ MoverAt(IF mover.state.status = "pending" THEN "retire" ELSE "done")
    /\ UNCHANGED <<def, now, fireLock, done, host, boots, polling, plan, moved, faults, losses, failures, commits, clobbers>>

\* putIfMatch of the retired state, or it throws
MoveRetire ==
    /\ mover.pc = "retire"
    /\ \/ /\ state["sys"] = mover.state
          /\ state' = [state EXCEPT !["sys"].status = "done"]
          /\ MoverAt("done")
       \/ state["sys"] # mover.state /\ MoverAt("stopped") /\ UNCHANGED state
    /\ UNCHANGED <<def, now, fireLock, done, host, boots, polling, plan, moved, faults, losses, history>>
-----------------------------------------------------------------------------
(* The environment *)

Tick ==
    /\ now < MaxTime
    /\ now' = now + 1
    /\ UNCHANGED <<trigger, fireLock, done, host, boots, polling, env, history>>

\* a purge or a sweep takes the trigger's state
Lose(id) ==
    /\ losses < plan.losses /\ state[id] # NoState
    /\ losses' = losses + 1
    /\ state' = [state EXCEPT ![id] = NoState]
    /\ UNCHANGED <<def, now, fireLock, done, host, boots, polling, plan, mover, moved, faults, history>>

Crash(p) ==
    /\ pc[p] # "idle" /\ Fault
    /\ Go(p, "idle") /\ loc' = [loc EXCEPT ![p] = NoLocals]
    /\ UNCHANGED <<trigger, now, fireLock, done, host, boots, plan, mover, moved, losses, history>>

CrashMove ==
    /\ mover.pc \in {"def", "state", "retire"} /\ Fault
    /\ MoverAt("stopped")
    /\ UNCHANGED <<trigger, now, fireLock, done, host, boots, polling, plan, moved, losses, history>>

Holds(p, id, n) == loc[p].id = id /\ Fire(p) = n /\ pc[p] \in {"run", "commit", "release"}

\* the TTL runs out on a lock nobody renews
Lapse(id, n) ==
    /\ fireLock[id][n] \in Pollers /\ ~Holds(fireLock[id][n], id, n)
    /\ fireLock' = [fireLock EXCEPT ![id][n] = "free"]
    /\ UNCHANGED <<trigger, now, done, host, boots, polling, env, history>>

\* ... or on that of a poller that stalls, or took the lock with an old clock
LapseStalled(id, n) ==
    /\ fireLock[id][n] \in Pollers /\ Holds(fireLock[id][n], id, n) /\ Fault
    /\ fireLock' = [fireLock EXCEPT ![id][n] = "free"]
    /\ UNCHANGED <<trigger, now, done, host, boots, polling, plan, mover, moved, losses, history>>

ScheduleWorkflow(h) ==
    (\E id \in Ids : Boot(h, id)) \/ PutDef(h) \/ GetState(h) \/ FireCountAfterLoss(h) \/ PutState(h)
PollScheduler(p) ==
    PollStart(p) \/ GetTrigger(p) \/ Acquire(p) \/ RunWorkflow(p) \/ Commit(p) \/ Release(p)
MoveTrigger == MoveRead \/ MovePutDef \/ MovePutState \/ MoveRetire

Next ==
    \/ \E h \in Hosts : ScheduleWorkflow(h)
    \/ \E p \in Pollers : PollScheduler(p) \/ Crash(p)
    \/ MoveTrigger \/ CrashMove \/ Tick
    \/ \E id \in Ids : \/ Lose(id)
                       \/ \E n \in Fires : Lapse(id, n) \/ LapseStalled(id, n)

Spec == Init /\ [][Next]_vars

\* The loop polls, time passes, locks lapse, a host that boots goes on, and one
\* boots after the upgrade; nobody has to move, fail or purge.
FairSpec ==
    /\ Spec
    /\ WF_vars(Tick)
    /\ \A p \in Pollers : WF_vars(PollScheduler(p))
    /\ \A h \in Hosts : WF_vars(ScheduleWorkflow(h))
    /\ \A id \in Ids : \A n \in Fires : WF_vars(Lapse(id, n))
-----------------------------------------------------------------------------
(* Properties *)

\* Records and local variables have their types; a held lock is a poller's.
TypeOK ==
    /\ def \subseteq Ids
    /\ \A id \in Ids :
          /\ state[id].nextRunAt \in Nat /\ state[id].attempts \in 0 .. plan.maxAttempts
          /\ state[id].fireCount \in Fires /\ state[id].status \in {"none", "pending", "done", "failed"}
          /\ done[id] \subseteq Fires
          /\ \A n \in Fires : fireLock[id][n] \in {"absent", "free"} \cup Pollers
    /\ \A p \in Pollers : loc[p].todo \subseteq def /\ loc[p].now \in 0 .. now

\* A trigger never passes a fire whose run has not finished, whoever fired it
\* and wherever pollers crashed or were overtaken - unless its state was lost, or a
\* host that boots late overwrote it (see Clobbers).
FiresComplete ==
    losses = 0 /\ (\A id \in Ids : clobbers[id] = 0) =>
        \A id \in Ids : \A n \in 0 .. state[id].fireCount - 1 : \E d \in Ids : n \in done[d]

\* Fencing: neither a poller that was overtaken nor a host that boots rolls the count
\* back or brings a trigger back that is done, failed or retired; only the late put of
\* a host does that which found no state before another host put one (see FencedAlways).
NoRollback ==
    [][\A id \in Ids : state[id] # NoState /\ state'[id] # NoState /\ clobbers'[id] = clobbers[id] =>
          /\ state'[id].fireCount >= state[id].fireCount
          /\ state[id].status # "pending" => state'[id] = state[id]]_vars

\* Attempts are spent by failures of this fire's run only: a deferral (budget,
\* busy, suspended, a lock refused) and an overtaken poller cost none.
AttemptsEarned ==
    \A id \in Ids : /\ state[id].attempts <= failures[state[id].fireCount]
                    /\ state[id].status = "failed" => failures[state[id].fireCount] >= plan.maxAttempts

\* Every fire is recorded as fired at most once: late pollers are fenced by the
\* state they read, and a repaired trigger does not start over on old run ids - unless
\* a host that boots late overwrote the state.
FireCommittedOnce == \A id \in Ids : clobbers[id] = 0 => \A n \in Fires : commits[id][n] <= 1

\* A one-shot trigger that is pending ends: done, or failed for good (or its next
\* attempt lies beyond the clock's bound).
AtEnds ==
    plan.kind = "at" /\ plan.losses = 0 /\ state["sys"].status = "pending"
        ~> state["sys"].status \in {"done", "failed"} \/ state["sys"].nextRunAt > MaxTime

\* A retired trigger is replaced: after the boot with the owner's spec, the owned
\* trigger has a state, also when the move crashed half-way and was run again.
MovedLives == mover.pc = "done" ~> state["owned"] # NoState

OnGrid(id) ==
    \E k \in 0 .. state[id].nextRunAt : state[id].nextRunAt = grid[id] + k * plan.value

\* Late and concurrent polls do not move a periodic trigger off the grid it was
\* planned on, whatever the misfire policy.
GridKept ==
    \A id \in Ids : plan.kind = "every" /\ faults = 0 /\ state[id] # NoState => OnGrid(id)

\* What the plan says is kept: the attempts of a fire, and the grid of fire times.
PlanKept == AttemptsEarned /\ GridKept

\* Every fire exactly once: none is passed before its run has finished, none is
\* recorded twice (and the records have their types).
FiresExact == TypeOK /\ FiresComplete /\ FireCommittedOnce

\* Triggers come to what they were planned for.
TriggersLive == AtEnds /\ MovedLives
-----------------------------------------------------------------------------
(* Said in the code's comments and not true of it (README, Disagreements)  *)

\* index.ts:63, "no drift accumulates": a fire that was retried is planned anew from
\* the retry's time on, and every later one after it.
NoDrift ==
    [][\A id \in Ids : plan.kind = "every" /\ state'[id].fireCount = state[id].fireCount + 1
            => OnGrid(id)']_vars

\* packages/scheduler/README.md:4, "every write to the trigger's state is CAS-fenced":
\* scheduleWorkflow's are plain puts, and of two hosts that boot at once the later one
\* takes the count back.
FencedAlways ==
    [][\A id \in Ids : state[id] # NoState /\ state'[id] # NoState =>
          state'[id].fireCount >= state[id].fireCount]_vars

\* index.ts:669-670: a trigger is moved "without doubling it"; a poll between the
\* new one's state and the retirement of the old one fires both.
MoveDoesNotDouble == done["sys"] \cap done["owned"] = {}
=============================================================================
