--------------------------- MODULE SchedulerProofs ---------------------------
(***************************************************************************)
(* TLAPS proofs about Scheduler, for any plans, any pollers, any delays,   *)
(* any bounds, and any hosts that boot.                                    *)
(***************************************************************************)
EXTENDS Scheduler, TLAPS

-----------------------------------------------------------------------------
(* The inductive invariant *)

States == [nextRunAt : Nat, attempts : Nat, fireCount : Fires, status : {"none", "pending", "done", "failed"}]
Places == {"idle", "next", "acquire", "run", "commit", "release"}
Results == {"none", "done", "budget", "busy", "suspended", "failed"}
HostRecords == [pc : {"idle", "def", "state", "list", "put"}, id : Ids, now : Nat, count : Fires, late : BOOLEAN]
LocRecords == [todo : SUBSET Ids, now : Nat, id : Ids, state : States, result : Results]
MoverRecords == [pc : {"idle", "stopped", "def", "state", "retire", "done"}, state : States]
Slots == {"absent", "free"} \cup Pollers

Types ==
    /\ plan \in Plans /\ now \in Nat /\ def \subseteq Ids /\ losses \in Nat /\ faults \in Nat
    /\ state \in [Ids -> States]
    /\ fireLock \in [Ids -> [Fires -> Slots]]
    /\ done \in [Ids -> SUBSET Fires]
    /\ host \in [Hosts -> HostRecords]
    /\ pc \in [Pollers -> Places]
    /\ loc \in [Pollers -> LocRecords]
    /\ mover \in MoverRecords
    /\ failures \in [Fires -> Nat]
    /\ commits \in [Ids -> [Fires -> Nat]]
    /\ grid \in [Ids -> Nat] /\ clobbers \in [Ids -> Nat]

\* The attempts of a state s were earned by failures f of its fire, of m allowed.
Earned(s, f, m) ==
    /\ s.attempts <= m /\ s.attempts <= f[s.fireCount]
    /\ s.status = "pending" => s.attempts < m
    /\ s.status = "failed" => f[s.fireCount] >= m

\* The fires before n have finished, under one id or the other.
Passed(n, d) == \A k \in 0 .. n - 1 : \E id \in Ids : k \in d[id]

\* A fire time on the grid that starts at g, with steps v.
Slot(t, g, v) == \E k \in 0 .. t : t = g + k * v

Calm == plan.kind = "every" /\ faults = 0

\* No host that came late has overwritten a state.
Tame == \A id \in Ids : clobbers[id] = 0

\* Of one trigger: only a defined one has a state and a past; while nothing was lost one without
\* a state was never fired; what was recorded as fired lies behind the count, unless a
\* late host took it back.
TriggerInv(id) ==
    /\ Earned(state[id], failures, plan.maxAttempts)
    /\ id \notin def => state[id] = NoState /\ \A n \in Fires : commits[id][n] = 0
    /\ losses = 0 /\ state[id] = NoState => \A n \in Fires : fireLock[id][n] = "absent"
    /\ losses = 0 /\ Tame => Passed(state[id].fireCount, done)
    /\ clobbers[id] = 0 => \A n \in Fires : commits[id][n] <= 1
    /\ \A n \in Fires : commits[id][n] > 0 =>
          /\ fireLock[id][n] # "absent"
          /\ \/ clobbers[id] # 0 \/ state[id] = NoState \/ state[id].fireCount > n
             \/ state[id].fireCount = n /\ state[id].status # "pending"
    /\ Calm /\ state[id] # NoState => Slot(state[id].nextRunAt, grid[id], plan.value)

\* A host boots while nobody moves the trigger. Unless it is late, the trigger has no state
\* when it writes one, and the count it writes is ahead of all that was recorded.
HostInv(h) ==
    LET id == host[h].id IN
    /\ host[h].pc # "idle" => \/ id = "sys" /\ mover.pc = "idle"
                              \/ id = "owned" /\ mover.pc = "done"
    /\ host[h].pc = "def" => host[h].count = 0
    /\ host[h].pc \in {"state", "list", "put"} => id \in def
    /\ host[h].pc \in {"def", "list", "put"} /\ ~host[h].late => state[id] = NoState
    /\ host[h].pc = "def" /\ ~host[h].late => \A n \in Fires : commits[id][n] = 0
    /\ host[h].pc = "put" /\ ~host[h].late => \A n \in Fires : commits[id][n] > 0 => n < host[h].count
    /\ host[h].pc = "put" /\ ~host[h].late /\ losses = 0 => host[h].count = 0

\* A poller fires a pending state it has read, that was due; a result tells of its run.
PollerInv(p) ==
    /\ loc[p].todo \subseteq def /\ loc[p].now <= now
    /\ Earned(loc[p].state, failures, plan.maxAttempts)
    /\ pc[p] \in {"acquire", "run", "commit", "release"} =>
          /\ loc[p].state.status = "pending" /\ loc[p].state.nextRunAt <= loc[p].now
          /\ losses = 0 => state[loc[p].id] # NoState
    /\ pc[p] \in {"run", "commit", "release"} => fireLock[loc[p].id][Fire(p)] # "absent"
    /\ loc[p].result = "none" <=> pc[p] \notin {"commit", "release"}
    /\ loc[p].result = "done" => Fire(p) \in done[loc[p].id]
    /\ loc[p].result = "failed" => loc[p].state.attempts + 1 <= failures[Fire(p)]
    /\ faults = 0 => loc[p].result \in {"none", "done"}

\* The mover carries a state it has read; until it writes it, the owned trigger has
\* neither a state nor a past.
MoverInv ==
    /\ Earned(mover.state, failures, plan.maxAttempts)
    /\ mover.pc = "retire" => mover.state.status = "pending"
    /\ mover.pc \in {"idle", "def"} => "owned" \notin def
    /\ mover.pc = "state" =>
          "owned" \in def /\ state["owned"] = NoState /\ \A n \in Fires : commits["owned"][n] = 0
    /\ mover.pc \in {"def", "state"} =>
          /\ losses = 0 /\ Tame => Passed(mover.state.fireCount, done)
          /\ Calm => Slot(mover.state.nextRunAt, grid["sys"], plan.value)

IInv ==
    /\ Types
    /\ \A id \in Ids : TriggerInv(id)
    /\ \A h \in Hosts : HostInv(h)
    /\ \A p \in Pollers : PollerInv(p)
    /\ MoverInv
-----------------------------------------------------------------------------
(* The operators *)

\* The parts of a plan.
LEMMA PlanTypes ==
    ASSUME plan \in Plans
    PROVE  /\ plan.kind \in {"at", "every", "cron"} /\ plan.misfire \in {"skip", "catchup"}
           /\ plan.value \in Nat \ {0} /\ plan.maxAttempts \in Nat \ {0}
BY SchedulerAssumption

\* A later slot of the same grid.
LEMMA SlotLater ==
    ASSUME NEW t \in Nat, NEW g \in Nat, NEW v \in Nat \ {0}, NEW j \in Nat, Slot(t, g, v)
    PROVE  Slot(t + v * j, g, v)
<1>1. PICK k \in 0 .. t : t = g + k * v
    BY DEF Slot
<1>2. k + j \in Nat /\ t + v * j = g + (k + j) * v /\ t + v * j \in Nat
    BY <1>1
<1>3. (k + j) * v >= k + j
    BY <1>1, <1>2
<1>4. k + j <= t + v * j
    BY <1>2, <1>3
<1> QED
    BY <1>2, <1>4 DEF Slot

\* The first slot is on its own grid.
LEMMA SlotFirst == ASSUME NEW t \in Nat, NEW v \in Nat \ {0} PROVE Slot(t, t, v)
<1>1. 0 \in 0 .. t /\ t = t + 0 * v
    OBVIOUS
<1> QED
    BY <1>1 DEF Slot

\* The cron grid of any time is a time.
LEMMA CronTyped == ASSUME plan \in Plans, NEW t \in Nat PROVE NextCron(t) \in Nat
<1>1. plan.value \in Nat \ {0}
    BY PlanTypes
<1>2. t \div plan.value \in Nat
    BY <1>1
<1> QED
    BY <1>1, <1>2 DEF NextCron

\* The first fire time is a time.
LEMMA FirstTyped == ASSUME plan \in Plans, NEW t \in Nat PROVE FirstRunAt(t) \in Nat
BY PlanTypes, CronTyped DEF FirstRunAt

\* The next fire time of an interval lies a whole number of intervals ahead.
LEMMA NextSlot ==
    ASSUME plan \in Plans, plan.kind = "every", NEW s \in Nat, NEW t \in Nat, s <= t
    PROVE  \E j \in Nat : ComputeNext(s, t) = s + plan.value * j
<1>1. plan.value \in Nat \ {0} /\ plan.misfire \in {"skip", "catchup"}
    BY PlanTypes
<1>2. CASE plan.misfire = "catchup"
    <2>1. ComputeNext(s, t) = s + plan.value * 1
        BY <1>1, <1>2 DEF ComputeNext
    <2> QED
        BY <2>1
<1>3. CASE plan.misfire = "skip"
    <2>1. t - s \in Nat
        OBVIOUS
    <2>2. (t - s) \div plan.value \in Nat
        BY <1>1, <2>1
    <2>3. ComputeNext(s, t) = s + plan.value * ((t - s) \div plan.value + 1)
        BY <1>3 DEF ComputeNext
    <2> QED
        BY <2>2, <2>3
<1> QED
    BY <1>1, <1>2, <1>3

\* The next fire time is a time.
LEMMA NextTyped ==
    ASSUME plan \in Plans, plan.kind # "at", NEW s \in Nat, NEW t \in Nat, s <= t
    PROVE  ComputeNext(s, t) \in Nat
<1>1. plan.value \in Nat \ {0} /\ plan.kind \in {"every", "cron"}
    BY PlanTypes
<1>2. CASE plan.kind = "every"
    <2>1. PICK j \in Nat : ComputeNext(s, t) = s + plan.value * j
        BY <1>2, NextSlot
    <2> QED
        BY <1>1, <2>1
<1>3. CASE plan.kind = "cron"
    BY <1>3, CronTyped DEF ComputeNext
<1> QED
    BY <1>1, <1>2, <1>3

\* Failures do not take back what was earned.
LEMMA EarnedKept ==
    ASSUME NEW f \in [Fires -> Nat], NEW g \in [Fires -> Nat], \A n \in Fires : f[n] <= g[n],
           NEW s \in States, NEW m \in Nat, Earned(s, f, m)
    PROVE  Earned(s, g, m)
<1>1. s.attempts \in Nat /\ s.fireCount \in Fires
    BY DEF States
<1>2. f[s.fireCount] \in Nat /\ g[s.fireCount] \in Nat /\ f[s.fireCount] <= g[s.fireCount]
    BY <1>1
<1> QED
    BY <1>1, <1>2 DEF Earned

\* A state without attempts has earned them.
LEMMA EarnedNone ==
    ASSUME NEW f \in [Fires -> Nat], NEW s \in States, NEW m \in Nat \ {0}, s.attempts = 0, s.status # "failed"
    PROVE  Earned(s, f, m)
<1>1. f[s.fireCount] \in Nat
    BY DEF States
<1> QED
    BY <1>1 DEF Earned

\* No state is a state, with nothing to its record.
LEMMA NoStateTyped == NoState \in States /\ NoState.attempts = 0 /\ NoState.status = "none" /\ NoState.fireCount = 0
BY SchedulerAssumption DEF NoState, States, Fires

\* What recording a fire makes of the state it was fired from.
LEMMA OutcomeIs ==
    ASSUME plan \in Plans, NEW s \in States, s.status = "pending", NEW t \in Nat, s.nextRunAt <= t,
           NEW r \in Results \ {"none"}, NEW f \in [Fires -> Nat], Earned(s, f, plan.maxAttempts),
           r = "failed" => s.attempts + 1 <= f[s.fireCount], Outcome(s, t, r).fireCount \in Fires
    PROVE  /\ Outcome(s, t, r) \in States /\ Outcome(s, t, r) # NoState
           /\ Earned(Outcome(s, t, r), f, plan.maxAttempts)
           /\ Outcome(s, t, r).fireCount >= s.fireCount
           /\ r # "done" => Outcome(s, t, r).fireCount = s.fireCount
           /\ r = "done" => \/ Outcome(s, t, r).fireCount = s.fireCount + 1
                            \/ Outcome(s, t, r).fireCount = s.fireCount /\ Outcome(s, t, r).status = "done"
           /\ r = "done" /\ plan.kind = "every" =>
                 \E j \in Nat : Outcome(s, t, r).nextRunAt = s.nextRunAt + plan.value * j
<1> DEFINE o == Outcome(s, t, r)
<1>0. /\ s.nextRunAt \in Nat /\ s.attempts \in Nat /\ s.fireCount \in Fires /\ f[s.fireCount] \in Nat
      /\ plan.maxAttempts \in Nat \ {0} /\ plan.kind \in {"at", "every", "cron"} /\ s.fireCount \in Nat
    BY PlanTypes, SchedulerAssumption DEF States, Fires
<1>1. CASE r = "done" /\ plan.kind = "at"
    <2>1. o = [s EXCEPT !.status = "done"]
        BY <1>1 DEF Outcome
    <2>2. o \in States /\ o.status = "done" /\ o.fireCount = s.fireCount /\ o.attempts = s.attempts
        BY <2>1 DEF States
    <2> QED
        BY <1>0, <1>1, <2>2, NoStateTyped DEF Earned
<1>2. CASE r = "done" /\ plan.kind # "at"
    <2>1. o = [nextRunAt |-> ComputeNext(s.nextRunAt, t), attempts |-> 0, fireCount |-> s.fireCount + 1,
               status |-> "pending"]
        BY <1>2 DEF Outcome
    <2>2. o \in States /\ o.status = "pending" /\ o.fireCount = s.fireCount + 1 /\ o.attempts = 0
          /\ o.nextRunAt = ComputeNext(s.nextRunAt, t)
        <3>1. ComputeNext(s.nextRunAt, t) \in Nat
            BY <1>0, <1>2, NextTyped
        <3>2. s.fireCount + 1 \in Fires
            BY <2>1
        <3>3. 0 \in Nat
            OBVIOUS
        <3>4. o \in States
            BY <2>1, <3>1, <3>2, <3>3 DEF States
        <3> HIDE DEF o
        <3> QED
            BY <2>1, <3>4
    <2> HIDE DEF o
    <2>3. Earned(o, f, plan.maxAttempts)
        BY <1>0, <2>2, EarnedNone
    <2>4. plan.kind = "every" => \E j \in Nat : o.nextRunAt = s.nextRunAt + plan.value * j
        BY <1>0, <2>2, NextSlot
    <2> QED
        BY <1>0, <1>2, <2>2, <2>3, <2>4, NoStateTyped DEF o
<1>3. CASE r \in {"budget", "busy", "suspended"}
    <2>1. o = [s EXCEPT !.nextRunAt = t + RetryMs]
        BY <1>3 DEF Outcome
    <2>2. t + RetryMs \in Nat
        BY SchedulerAssumption
    <2>3. o \in States /\ o.status = s.status /\ o.fireCount = s.fireCount /\ o.attempts = s.attempts
        BY <2>1, <2>2 DEF States
    <2> QED
        BY <1>0, <1>3, <2>3, NoStateTyped DEF Earned
<1>4. CASE r = "failed" /\ s.attempts + 1 >= plan.maxAttempts
    <2>1. o = [s EXCEPT !.attempts = s.attempts + 1, !.status = "failed"]
        BY <1>0, <1>4 DEF Outcome
    <2>2. o \in States /\ o.status = "failed" /\ o.fireCount = s.fireCount /\ o.attempts = s.attempts + 1
        <3>1. PICK a \in Nat : a = s.attempts + 1
            BY <1>0
        <3>2. o = [s EXCEPT !.attempts = a, !.status = "failed"]
            BY <2>1, <3>1
        <3> HIDE DEF o
        <3> QED
            BY <3>1, <3>2 DEF States
    <2> QED
        BY <1>0, <1>4, <2>2, NoStateTyped DEF Earned
<1>5. CASE r = "failed" /\ s.attempts + 1 < plan.maxAttempts
    <2>1. o = [s EXCEPT !.attempts = s.attempts + 1, !.nextRunAt = t + Backoff(s.attempts + 1)]
        BY <1>5, <1>0 DEF Outcome
    <2>2. t + Backoff(s.attempts + 1) \in Nat
        BY SchedulerAssumption DEF Backoff
    <2>3. o \in States /\ o.status = s.status /\ o.fireCount = s.fireCount /\ o.attempts = s.attempts + 1
        <3>1. PICK a \in Nat : a = s.attempts + 1
            BY <1>0
        <3>2. PICK u \in Nat : u = t + Backoff(s.attempts + 1)
            BY <2>2
        <3>3. o = [s EXCEPT !.attempts = a, !.nextRunAt = u]
            BY <2>1, <3>1, <3>2
        <3> HIDE DEF o
        <3> QED
            BY <3>1, <3>3 DEF States
    <2> QED
        BY <1>0, <1>5, <2>3, NoStateTyped DEF Earned
<1> QED
    BY <1>0, <1>1, <1>2, <1>3, <1>4, <1>5 DEF Results

-----------------------------------------------------------------------------
(* What a step leaves alone *)

\* Records only grow, budgets are only spent.
Forward ==
    /\ plan' = plan /\ def \subseteq def' /\ now <= now'
    /\ losses' = 0 => losses = 0
    /\ faults' = 0 => faults = 0
    /\ \A id \in Ids : clobbers'[id] = 0 => clobbers[id] = 0
    /\ \A n \in Fires : failures[n] <= failures'[n]
    /\ \A id \in Ids : done[id] \subseteq done'[id]
    /\ \A id \in Ids : \A n \in Fires : fireLock[id][n] # "absent" => fireLock'[id][n] # "absent"

\* What has been earned and passed stays so.
LEMMA Kept ==
    ASSUME Types, Types', Forward
    PROVE  /\ \A s \in States : Earned(s, failures, plan.maxAttempts) => Earned(s, failures', plan'.maxAttempts)
           /\ \A n \in Nat : Passed(n, done) => Passed(n, done')
           /\ (Calm' => Calm) /\ (Tame' => Tame)
           /\ plan'.value = plan.value
<1>1. plan.maxAttempts \in Nat /\ plan'.maxAttempts = plan.maxAttempts
    BY PlanTypes DEF Types, Forward
<1>2. failures \in [Fires -> Nat] /\ failures' \in [Fires -> Nat] /\ \A n \in Fires : failures[n] <= failures'[n]
    BY DEF Types, Forward
<1>3. ASSUME NEW s \in States, Earned(s, failures, plan.maxAttempts) PROVE Earned(s, failures', plan'.maxAttempts)
    BY <1>1, <1>2, <1>3, EarnedKept
<1>4. ASSUME NEW n \in Nat, Passed(n, done) PROVE Passed(n, done')
    BY <1>4 DEF Passed, Forward
<1> QED
    BY <1>3, <1>4 DEF Calm, Tame, Forward

\* A trigger whose records a step leaves alone.
LEMMA TriggerFrame ==
    ASSUME IInv, Types', Forward, NEW id \in Ids, state'[id] = state[id], commits'[id] = commits[id],
           grid'[id] = grid[id],
           losses = 0 /\ state[id] = NoState => \A n \in Fires : fireLock'[id][n] = "absent"
    PROVE  TriggerInv(id)'
<1>0. TriggerInv(id) /\ Types
    BY DEF IInv
<1>1. state[id] \in States /\ state[id].fireCount \in Nat
    BY <1>0, SchedulerAssumption DEF Types, States, Fires
<1>2. Earned(state'[id], failures', plan'.maxAttempts)
    BY <1>0, <1>1, Kept DEF TriggerInv
<1>3. losses' = 0 /\ Tame' => Passed(state'[id].fireCount, done')
    BY <1>0, <1>1, Kept DEF TriggerInv, Forward
<1>4. Calm' /\ state'[id] # NoState => Slot(state'[id].nextRunAt, grid'[id], plan'.value)
    BY <1>0, <1>1, Kept DEF TriggerInv
<1>5. id \notin def' => state'[id] = NoState /\ \A n \in Fires : commits'[id][n] = 0
    BY <1>0 DEF TriggerInv, Forward
<1>6. losses' = 0 /\ state'[id] = NoState => \A n \in Fires : fireLock'[id][n] = "absent"
    BY <1>0 DEF Forward
<1>7. clobbers'[id] = 0 => \A n \in Fires : commits'[id][n] <= 1
    BY <1>0 DEF TriggerInv, Forward
<1>8. \A n \in Fires : commits'[id][n] > 0 =>
          /\ fireLock'[id][n] # "absent"
          /\ \/ clobbers'[id] # 0 \/ state'[id] = NoState \/ state'[id].fireCount > n
             \/ state'[id].fireCount = n /\ state'[id].status # "pending"
    BY <1>0 DEF TriggerInv, Forward
<1> QED
    BY <1>2, <1>3, <1>4, <1>5, <1>6, <1>7, <1>8 DEF TriggerInv

\* A host that waits while others move.
LEMMA HostFrame ==
    ASSUME IInv, Forward, NEW h \in Hosts, host'[h] = host[h],
           host[h].pc # "idle" => mover'.pc = mover.pc,
           host[h].pc # "idle" /\ state[host[h].id] = NoState =>
              state'[host[h].id] = NoState /\ commits'[host[h].id] = commits[host[h].id]
    PROVE  HostInv(h)'
<1>0. HostInv(h)
    BY DEF IInv
<1> QED
    BY <1>0 DEF HostInv, Forward

\* A poller that waits while others move.
LEMMA PollerFrame ==
    ASSUME IInv, Types', Forward, NEW p \in Pollers, loc'[p] = loc[p], pc'[p] = pc[p],
           losses' = 0 => \A id \in Ids : state[id] # NoState => state'[id] # NoState
    PROVE  PollerInv(p)'
<1>0. PollerInv(p) /\ Types /\ loc[p].state \in States /\ loc[p].id \in Ids /\ loc[p].now \in Nat
    BY DEF IInv, Types, LocRecords
<1>1. Earned(loc'[p].state, failures', plan'.maxAttempts)
    BY <1>0, Kept DEF PollerInv
<1>2. loc'[p].todo \subseteq def' /\ loc'[p].now <= now'
    BY <1>0 DEF PollerInv, Forward, Types
<1>3. loc'[p].result = "failed" => loc'[p].state.attempts + 1 <= failures'[Fire(p)']
    <2>1. loc[p].state.fireCount \in Fires /\ loc[p].state.attempts \in Nat
        BY <1>0 DEF States
    <2>2. /\ failures[loc[p].state.fireCount] \in Nat /\ failures'[loc[p].state.fireCount] \in Nat
          /\ failures[loc[p].state.fireCount] <= failures'[loc[p].state.fireCount]
        BY <1>0, <2>1 DEF Types, Forward
    <2> QED
        BY <1>0, <2>1, <2>2 DEF PollerInv, Fire
<1>4. loc'[p].result = "done" => Fire(p)' \in done'[loc'[p].id]
    BY <1>0 DEF PollerInv, Fire, Forward
<1>5. pc'[p] \in {"run", "commit", "release"} => fireLock'[loc'[p].id][Fire(p)'] # "absent"
    BY <1>0 DEF PollerInv, Fire, Forward, States
<1> QED
    BY <1>0, <1>1, <1>2, <1>3, <1>4, <1>5 DEF PollerInv, Forward

\* A mover that waits while others move.
LEMMA MoverFrame ==
    ASSUME IInv, Types', Forward, mover' = mover,
           mover.pc \in {"idle", "def"} /\ "owned" \in def' => "owned" \in def,
           mover.pc = "state" => state'["owned"] = state["owned"] /\ commits'["owned"] = commits["owned"],
           mover.pc \in {"def", "state"} => grid'["sys"] = grid["sys"]
    PROVE  MoverInv'
<1>0. MoverInv /\ Types /\ mover.state \in States /\ mover.state.fireCount \in Nat
    <2>1. MoverInv /\ Types /\ mover.state \in States
        BY DEF IInv, Types, MoverRecords
    <2> QED
        BY <2>1, SchedulerAssumption DEF States, Fires
<1>1. Earned(mover'.state, failures', plan'.maxAttempts)
    BY <1>0, Kept DEF MoverInv
<1>2. mover'.pc \in {"def", "state"} =>
          /\ losses' = 0 /\ Tame' => Passed(mover'.state.fireCount, done')
          /\ Calm' => Slot(mover'.state.nextRunAt, grid'["sys"], plan'.value)
    BY <1>0, Kept DEF MoverInv, Forward
<1>3. mover'.pc = "state" => "owned" \in def' /\ state'["owned"] = NoState /\ \A n \in Fires : commits'["owned"][n] = 0
    BY <1>0 DEF MoverInv, Forward
<1> QED
    BY <1>0, <1>1, <1>2, <1>3 DEF MoverInv, Forward

-----------------------------------------------------------------------------
(* Types *)

\* The initial records, and those of a caller at rest.
LEMMA RestTyped ==
    /\ NoBoot \in HostRecords
    /\ NoLocals \in LocRecords
BY NoStateTyped, SchedulerAssumption DEF NoBoot, NoLocals, HostRecords, LocRecords, Ids, Fires, Results

\* The first state is well typed.
LEMMA InitTypes == Init => Types
<1> SUFFICES ASSUME Init PROVE Types
    OBVIOUS
<1>1. 0 \in Fires /\ 0 \in Nat
    BY SchedulerAssumption DEF Fires
<1> QED
    BY <1>1, RestTyped, NoStateTyped DEF Init, Types, Places, Slots, MoverRecords

\* The steps of a host are well typed.
LEMMA HostTypes ==
    ASSUME Types, NEW h \in Hosts, ScheduleWorkflow(h)
    PROVE  Types'
<1> USE DEF HostAt, trigger, polling, history, env
<1>1. ASSUME NEW id \in Ids, Boot(h, id) PROVE Types'
    <2>1. 0 \in Fires
        BY SchedulerAssumption DEF Fires
    <2>2. Types'
        <3>1. now \in Nat /\ host \in [Hosts -> HostRecords]
            BY DEF Types
        <3>2. host' \in [Hosts -> HostRecords]
            BY <1>1, <2>1, <3>1, RestTyped DEF Boot, HostRecords, NoBoot
        <3> QED
            BY <1>1, <3>2 DEF Boot, Types
    <2> QED
        BY <2>2
<1>0. host \in [Hosts -> HostRecords]
    BY DEF Types
<1>2. CASE PutDef(h)
    <2>1. host' \in [Hosts -> HostRecords] /\ host[h].id \in Ids
        BY <1>0, <1>2 DEF PutDef, HostRecords
    <2> QED
        BY <1>2, <2>1 DEF PutDef, Types
<1>3. CASE GetState(h)
    <2>1. host' \in [Hosts -> HostRecords]
        BY <1>0, <1>3, RestTyped DEF GetState, HostRecords
    <2> QED
        BY <1>3, <2>1 DEF GetState, Types
<1>4. CASE FireCountAfterLoss(h)
    <2>1. host' \in [Hosts -> HostRecords]
        <3>1. PICK n \in Fires : host' = [host EXCEPT ![h].pc = "put", ![h].count = n]
            BY <1>4 DEF FireCountAfterLoss
        <3>2. [host[h] EXCEPT !.pc = "put", !.count = n] \in HostRecords
            BY <1>0 DEF HostRecords
        <3>3. host' = [host EXCEPT ![h] = [host[h] EXCEPT !.pc = "put", !.count = n]]
            BY <1>0, <3>1
        <3> QED
            BY <1>0, <3>2, <3>3
    <2> QED
        BY <1>4, <2>1 DEF FireCountAfterLoss, Types
<1>5. CASE PutState(h)
    <2>1. host[h].id \in Ids /\ host[h].now \in Nat /\ host[h].count \in Fires
        BY DEF Types, HostRecords
    <2>2. FirstRunAt(host[h].now) \in Nat
        BY <2>1, FirstTyped DEF Types
    <2>3. [nextRunAt |-> FirstRunAt(host[h].now), attempts |-> 0, fireCount |-> host[h].count,
           status |-> "pending"] \in States
        BY <2>1, <2>2 DEF States
    <2>4. state' \in [Ids -> States] /\ grid' \in [Ids -> Nat]
        BY <1>5, <2>2, <2>3 DEF PutState, Types
    <2>5. host' \in [Hosts -> HostRecords]
        <3>1. \A g \in Hosts : host[g] \in HostRecords /\ [host[g] EXCEPT !.late = TRUE] \in HostRecords
            BY <1>0 DEF HostRecords
        <3> QED
            BY <1>5, <3>1, RestTyped DEF PutState
    <2>6. clobbers' \in [Ids -> Nat]
        BY <1>5, <2>1 DEF PutState, Types
    <2> QED
        BY <1>5, <2>4, <2>5, <2>6 DEF PutState, Types
<1> QED
    BY <1>1, <1>2, <1>3, <1>4, <1>5 DEF ScheduleWorkflow

\* The state a poller is about to record.
Out(p) == Outcome(loc[p].state, loc[p].now, loc[p].result)

\* What recording makes of the state, from the invariant.
LEMMA Recorded ==
    ASSUME IInv, NEW p \in Pollers, pc[p] = "commit", Out(p).fireCount \in Fires
    PROVE  /\ Out(p) \in States /\ Out(p) # NoState /\ Earned(Out(p), failures, plan.maxAttempts)
           /\ Out(p).fireCount >= Fire(p)
           /\ loc[p].result # "done" => Out(p).fireCount = Fire(p)
           /\ loc[p].result = "done" => \/ Out(p).fireCount = Fire(p) + 1
                                        \/ Out(p).fireCount = Fire(p) /\ Out(p).status = "done"
           /\ loc[p].result = "done" /\ plan.kind = "every" =>
                 \E j \in Nat : Out(p).nextRunAt = loc[p].state.nextRunAt + plan.value * j
<1>1. /\ loc[p].state \in States /\ loc[p].now \in Nat /\ loc[p].result \in Results \ {"none"} /\ loc[p].id \in Ids
      /\ loc[p].state.status = "pending" /\ loc[p].state.nextRunAt <= loc[p].now
      /\ Earned(loc[p].state, failures, plan.maxAttempts) /\ plan \in Plans /\ failures \in [Fires -> Nat]
      /\ loc[p].result = "failed" => loc[p].state.attempts + 1 <= failures[loc[p].state.fireCount]
    <2>1. loc[p] \in LocRecords /\ PollerInv(p) /\ plan \in Plans /\ failures \in [Fires -> Nat]
        BY DEF IInv, Types
    <2> QED
        BY <2>1 DEF PollerInv, LocRecords, Fire
<1> QED
    <2>1. PICK s \in States, t \in Nat, q \in Results \ {"none"}, f \in [Fires -> Nat] :
              s = loc[p].state /\ t = loc[p].now /\ q = loc[p].result /\ f = failures
        BY <1>1
    <2>2. Out(p) = Outcome(s, t, q)
        BY <2>1 DEF Out
    <2>3. /\ plan \in Plans /\ s.status = "pending" /\ s.nextRunAt <= t /\ Earned(s, f, plan.maxAttempts)
          /\ q = "failed" => s.attempts + 1 <= f[s.fireCount]
          /\ Outcome(s, t, q).fireCount \in Fires
        BY <1>1, <2>1, <2>2
    <2>4. /\ Outcome(s, t, q) \in States /\ Outcome(s, t, q) # NoState
          /\ Earned(Outcome(s, t, q), f, plan.maxAttempts)
          /\ Outcome(s, t, q).fireCount >= s.fireCount
          /\ q # "done" => Outcome(s, t, q).fireCount = s.fireCount
          /\ q = "done" => \/ Outcome(s, t, q).fireCount = s.fireCount + 1
                           \/ Outcome(s, t, q).fireCount = s.fireCount /\ Outcome(s, t, q).status = "done"
          /\ q = "done" /\ plan.kind = "every" =>
                \E j \in Nat : Outcome(s, t, q).nextRunAt = s.nextRunAt + plan.value * j
        BY <2>3, OutcomeIs, Zenon
    <2>5. Fire(p) = s.fireCount
        BY <2>1 DEF Fire
    <2>6. Out(p) \in States /\ Out(p) # NoState /\ Earned(Out(p), failures, plan.maxAttempts)
        BY <2>1, <2>2, <2>4
    <2>7. /\ Out(p).fireCount >= Fire(p)
          /\ loc[p].result # "done" => Out(p).fireCount = Fire(p)
          /\ loc[p].result = "done" => \/ Out(p).fireCount = Fire(p) + 1
                                       \/ Out(p).fireCount = Fire(p) /\ Out(p).status = "done"
        BY <2>1, <2>2, <2>4, <2>5
    <2>8. loc[p].result = "done" /\ plan.kind = "every" =>
              \E j \in Nat : Out(p).nextRunAt = loc[p].state.nextRunAt + plan.value * j
        BY <2>1, <2>2, <2>4
    <2> QED
        BY <2>6, <2>7, <2>8

-----------------------------------------------------------------------------
(* scheduleWorkflow *)

\* What a host's step between its reads and writes leaves alone.
LEMMA HostQuiet ==
    ASSUME IInv, NEW h \in Hosts, Types', HostInv(h)', \A g \in Hosts : g # h => host'[g] = host[g],
           UNCHANGED <<state, now, fireLock, done, polling, env, history>>,
           def' = def \/ (def' = def \cup {host[h].id} /\ host[h].pc = "def")
    PROVE  IInv'
<1>1. HostInv(h) /\ Types
    BY DEF IInv
<1>2. Forward
    BY <1>1 DEF Forward, Types, polling, env, history
<1>3. ASSUME NEW id \in Ids PROVE TriggerInv(id)'
    <2>1. losses = 0 /\ state[id] = NoState => \A n \in Fires : fireLock[id][n] = "absent"
        BY DEF IInv, TriggerInv
    <2> QED
        BY <1>2, <2>1, TriggerFrame DEF polling, env, history
<1>4. ASSUME NEW g \in Hosts PROVE HostInv(g)'
    BY <1>2, HostFrame DEF env, history
<1>5. ASSUME NEW p \in Pollers PROVE PollerInv(p)'
    BY <1>2, PollerFrame DEF polling, env, history
<1>6. MoverInv'
    <2>1. mover.pc \in {"idle", "def"} /\ "owned" \in def' => "owned" \in def
        BY <1>1 DEF HostInv
    <2> QED
        BY <1>2, <2>1, MoverFrame DEF env, history
<1> QED
    BY <1>3, <1>4, <1>5, <1>6 DEF IInv

\* Booting keeps the invariant.
LEMMA HostStep ==
    ASSUME IInv, NEW h \in Hosts, ScheduleWorkflow(h)
    PROVE  IInv'
<1>0. Types /\ Types' /\ HostInv(h) /\ MoverInv /\ host[h] \in HostRecords /\ host \in [Hosts -> HostRecords]
    BY HostTypes DEF IInv, Types
<1>1. ASSUME NEW id \in Ids, Boot(h, id) PROVE IInv'
    <2>1. /\ host'[h].id = id /\ host'[h].count = 0 /\ host'[h].pc = IF id \in def THEN "state" ELSE "def"
          /\ \A g \in Hosts : g # h => host'[g] = host[g]
          /\ UNCHANGED <<def, state, commits, losses, mover>>
        BY <1>0, <1>1 DEF Boot, NoBoot, trigger, env, history
    <2>2. (id = "sys" /\ mover.pc = "idle") \/ (id = "owned" /\ mover.pc = "done")
        BY <1>1 DEF Boot
    <2>3. id \notin def => state[id] = NoState /\ \A n \in Fires : commits[id][n] = 0
        BY DEF IInv, TriggerInv
    <2>4. HostInv(h)'
        BY <2>1, <2>2, <2>3 DEF HostInv
    <2> QED
        BY <1>0, <1>1, <2>1, <2>4, HostQuiet DEF Boot, trigger
<1>2. CASE PutDef(h)
    <2>1. /\ host'[h] = [host[h] EXCEPT !.pc = "put"] /\ host[h].pc = "def" /\ def' = def \cup {host[h].id}
          /\ \A g \in Hosts : g # h => host'[g] = host[g]
          /\ UNCHANGED <<state, commits, losses, mover>>
        BY <1>0, <1>2 DEF PutDef, HostAt, env, history
    <2>2. /\ host'[h].id = host[h].id /\ host'[h].pc = "put" /\ host'[h].count = host[h].count
          /\ host'[h].late = host[h].late
        BY <1>0, <2>1 DEF HostRecords
    <2>3. /\ host[h].id \in Ids /\ host[h].count = 0
          /\ ~host[h].late => state[host[h].id] = NoState /\ \A n \in Fires : commits[host[h].id][n] = 0
        BY <1>0, <2>1 DEF HostInv, HostRecords
    <2>4. HostInv(h)'
        BY <1>0, <2>1, <2>2, <2>3 DEF HostInv
    <2> QED
        BY <1>0, <1>2, <2>1, <2>4, HostQuiet DEF PutDef
<1>3. CASE GetState(h)
    <2>1. /\ UNCHANGED <<def, state, commits, losses, mover>> /\ host[h].pc = "state"
          /\ \A g \in Hosts : g # h => host'[g] = host[g]
        BY <1>0, <1>3 DEF GetState, HostAt, trigger, env, history
    <2>2. \/ state[host[h].id] = NoState /\ host'[h] = [host[h] EXCEPT !.pc = "list"]
          \/ host'[h] = NoBoot
        BY <1>0, <1>3 DEF GetState, HostAt
    <2>3. HostInv(h)'
        BY <1>0, <2>1, <2>2 DEF HostInv, HostRecords, NoBoot
    <2> QED
        BY <1>0, <1>3, <2>1, <2>3, HostQuiet DEF GetState, trigger
<1>4. CASE FireCountAfterLoss(h)
    <2>1. PICK n \in Fires :
              /\ n = 0 \/ (n - 1 \in Fires /\ fireLock[host[h].id][n - 1] # "absent")
              /\ \A k \in Fires : fireLock[host[h].id][k] # "absent" => k < n
              /\ host' = [host EXCEPT ![h].pc = "put", ![h].count = n]
        BY <1>4 DEF FireCountAfterLoss
    <2>2. UNCHANGED <<def, state, commits, losses, mover, fireLock>> /\ host[h].pc = "list"
        BY <1>4 DEF FireCountAfterLoss, trigger, env, history
    <2>3. /\ host'[h].pc = "put" /\ host'[h].count = n /\ host'[h].id = host[h].id /\ host'[h].late = host[h].late
          /\ \A g \in Hosts : g # h => host'[g] = host[g]
        BY <1>0, <2>1 DEF HostRecords
    <2>4. host[h].id \in Ids /\ (~host[h].late => state[host[h].id] = NoState) /\ TriggerInv(host[h].id)
        BY <1>0, <2>2 DEF HostInv, HostRecords, IInv
    <2>5. \A k \in Fires : commits[host[h].id][k] > 0 => k < n
        BY <2>1, <2>4 DEF TriggerInv
    <2>6. ~host[h].late /\ losses = 0 => n = 0
        BY <2>1, <2>4 DEF TriggerInv
    <2>7. HostInv(h)'
        BY <1>0, <2>2, <2>3, <2>4, <2>5, <2>6 DEF HostInv
    <2> QED
        BY <1>0, <1>4, <2>3, <2>7, HostQuiet DEF FireCountAfterLoss, trigger
<1>5. CASE PutState(h)
    <2>0. PICK i \in Ids : i = host[h].id
        BY <1>0 DEF HostRecords
    <2> DEFINE t == FirstRunAt(host[h].now)
               new == [nextRunAt |-> t, attempts |-> 0, fireCount |-> host[h].count, status |-> "pending"]
    <2>1. /\ host[h].pc = "put" /\ i \in def /\ host[h].count \in Fires /\ host[h].now \in Nat
          /\ host[h].late \in BOOLEAN /\ (~host[h].late => state[i] = NoState)
        BY <1>0, <1>5, <2>0 DEF PutState, HostInv, HostRecords
    <2>2. /\ state' = [state EXCEPT ![i] = new] /\ grid' = [grid EXCEPT ![i] = t]
          /\ UNCHANGED <<def, now, fireLock, done, pc, loc, plan, mover, moved, faults, losses, failures, commits>>
          /\ clobbers' = IF Clobbers(h) THEN [clobbers EXCEPT ![i] = clobbers[i] + 1] ELSE clobbers
        BY <1>5, <2>0 DEF PutState, polling, env
    <2>3. /\ Forward /\ \A id \in Ids : clobbers[id] \in Nat
          /\ Clobbers(h) => clobbers'[i] # 0
        <3>1. /\ clobbers \in [Ids -> Nat] /\ \A id \in Ids : clobbers'[id] = 0 => clobbers[id] = 0
              /\ Clobbers(h) => clobbers'[i] # 0
            BY <1>0, <2>2 DEF Types
        <3> QED
            BY <1>0, <2>2, <3>1 DEF Forward, Types
    <2>4. /\ state \in [Ids -> States] /\ grid \in [Ids -> Nat] /\ state'[i] = new /\ grid'[i] = t
          /\ \A id \in Ids : id # i => state'[id] = state[id] /\ grid'[id] = grid[id]
        BY <1>0, <2>1, <2>2 DEF Types
    <2>5. t \in Nat /\ new \in States /\ new.attempts = 0 /\ new.status = "pending" /\ new.fireCount = host[h].count
          /\ new.nextRunAt = t /\ new # NoState
        <3>1. t \in Nat
            BY <1>0, <2>1, FirstTyped DEF Types
        <3> HIDE DEF t
        <3> QED
            BY <2>1, <3>1, NoStateTyped DEF States
    <2> HIDE DEF t, new
    <2>6. ASSUME NEW id \in Ids, id # i PROVE TriggerInv(id)'
        <3>1. losses = 0 /\ state[id] = NoState => \A n \in Fires : fireLock[id][n] = "absent"
            BY DEF IInv, TriggerInv
        <3> QED
            BY <1>0, <2>2, <2>3, <2>4, <2>6, <3>1, TriggerFrame
    <2>7. TriggerInv(i)'
        <3>0. TriggerInv(i)
            BY <2>1 DEF IInv
        <3>1. Earned(state'[i], failures', plan'.maxAttempts)
            BY <1>0, <2>2, <2>4, <2>5, EarnedNone, PlanTypes DEF Types
        <3>a. ~Clobbers(h) /\ host[h].late => state[i].status = "pending" /\ state[i].fireCount = host[h].count
            BY <2>0 DEF Clobbers
        <3>2. losses' = 0 /\ Tame' => Passed(state'[i].fireCount, done')
            <4> SUFFICES ASSUME losses' = 0, Tame' PROVE Passed(host[h].count, done)
                BY <2>2, <2>4, <2>5
            <4>1. Tame /\ ~Clobbers(h) /\ losses = 0
                BY <2>2, <2>3 DEF Tame, Forward
            <4>2. CASE host[h].late
                BY <3>0, <3>a, <4>1, <4>2 DEF TriggerInv
            <4>3. CASE ~host[h].late
                BY <1>0, <2>1, <4>1, <4>3 DEF HostInv, Passed
            <4> QED
                BY <4>2, <4>3
        <3>3. clobbers'[i] = 0 => \A n \in Fires : commits'[i][n] <= 1
            BY <2>2, <2>3, <3>0 DEF TriggerInv, Forward
        <3>4. \A n \in Fires : commits'[i][n] > 0 =>
                  fireLock'[i][n] # "absent" /\ (clobbers'[i] # 0 \/ state'[i].fireCount > n)
            <4> SUFFICES ASSUME NEW n \in Fires, commits[i][n] > 0
                         PROVE  fireLock[i][n] # "absent" /\ (clobbers'[i] # 0 \/ host[h].count > n)
                BY <2>2, <2>4, <2>5
            <4>1. /\ fireLock[i][n] # "absent"
                  /\ \/ clobbers[i] # 0 \/ state[i] = NoState \/ state[i].fireCount > n
                     \/ state[i].fireCount = n /\ state[i].status # "pending"
                BY <3>0 DEF TriggerInv
            <4>2. CASE host[h].late
                BY <2>3, <3>a, <4>1, <4>2, NoStateTyped DEF Forward
            <4>3. CASE ~host[h].late
                <5>1. n < host[h].count
                    BY <1>0, <2>0, <2>1, <4>3 DEF HostInv
                <5>2. n \in Nat /\ host[h].count \in Nat
                    BY <2>1, SchedulerAssumption DEF Fires
                <5> QED
                    BY <4>1, <5>1, <5>2
            <4> QED
                BY <4>2, <4>3
        <3>5. Calm' => Slot(state'[i].nextRunAt, grid'[i], plan'.value)
            BY <1>0, <2>2, <2>4, <2>5, SlotFirst, PlanTypes DEF Types
        <3> QED
            BY <2>1, <2>2, <2>4, <2>5, <3>1, <3>2, <3>3, <3>4, <3>5 DEF TriggerInv
    <2>8. ASSUME NEW g \in Hosts PROVE HostInv(g)'
        <3>0. host[g] \in HostRecords /\ HostInv(g)
            BY <1>0 DEF IInv
        <3>1. CASE g = h
            <4>1. host'[g] = NoBoot
                BY <1>5, <3>1 DEF PutState
            <4> QED
                BY <4>1 DEF HostInv, NoBoot
        <3>2. CASE g # h /\ host[g].id = i /\ host[g].pc \in {"def", "list", "put"}
            <4>1. host'[g] = [host[g] EXCEPT !.late = TRUE]
                BY <1>5, <2>0, <3>2 DEF PutState
            <4>2. host'[g].late /\ host'[g].pc = host[g].pc /\ host'[g].id = host[g].id /\ host'[g].count = host[g].count
                BY <3>0, <4>1 DEF HostRecords
            <4> QED
                BY <2>2, <3>0, <4>2 DEF HostInv
        <3>3. CASE g # h /\ ~(host[g].id = i /\ host[g].pc \in {"def", "list", "put"})
            <4>1. host'[g] = host[g]
                BY <1>5, <2>0, <3>3 DEF PutState
            <4>2. host[g].id # i => state'[host[g].id] = state[host[g].id]
                BY <2>4, <3>0 DEF HostRecords
            <4> QED
                BY <2>2, <3>0, <3>3, <4>1, <4>2 DEF HostInv
        <3> QED
            BY <3>1, <3>2, <3>3
    <2>9. ASSUME NEW p \in Pollers PROVE PollerInv(p)'
        <3>1. \A id \in Ids : state[id] # NoState => state'[id] # NoState
            BY <2>1, <2>4, <2>5
        <3> QED
            BY <1>0, <2>2, <2>3, <3>1, PollerFrame
    <2>10. MoverInv'
        <3>1. mover.pc \notin {"def", "state"}
            BY <1>0, <2>1 DEF HostInv
        <3> QED
            BY <1>0, <2>2, <2>3, <3>1, MoverFrame
    <2> QED
        BY <1>0, <2>6, <2>7, <2>8, <2>9, <2>10 DEF IInv
<1> QED
    BY <1>1, <1>2, <1>3, <1>4, <1>5 DEF ScheduleWorkflow

-----------------------------------------------------------------------------
(* pollScheduler *)

\* What a poller's steps before and after the commit leave alone.
LEMMA PollQuiet ==
    ASSUME IInv, NEW p \in Pollers, Types', Forward, PollerInv(p)',
           UNCHANGED <<def, state, host, mover, commits, grid, clobbers>>,
           \A q \in Pollers : q # p => loc'[q] = loc[q] /\ pc'[q] = pc[q],
           \A id \in Ids : losses = 0 /\ state[id] = NoState => \A n \in Fires : fireLock'[id][n] = "absent"
    PROVE  IInv'
<1>1. ASSUME NEW id \in Ids PROVE TriggerInv(id)'
    BY TriggerFrame
<1>2. ASSUME NEW h \in Hosts PROVE HostInv(h)'
    BY HostFrame
<1>3. ASSUME NEW q \in Pollers PROVE PollerInv(q)'
    BY PollerFrame
<1>4. MoverInv'
    BY MoverFrame
<1> QED
    BY <1>1, <1>2, <1>3, <1>4 DEF IInv

\* The locks are as they were, as far as being absent goes.
LEMMA LocksKept ==
    ASSUME IInv, \A id \in Ids : \A n \in Fires : (fireLock'[id][n] = "absent") = (fireLock[id][n] = "absent")
    PROVE  \A id \in Ids : losses = 0 /\ state[id] = NoState => \A n \in Fires : fireLock'[id][n] = "absent"
BY DEF IInv, TriggerInv

\* The next trigger of the listing, for poller p.
LEMMA NextTriggerIs ==
    ASSUME IInv, NEW p \in Pollers, NextTrigger(p)
    PROVE  /\ loc' \in [Pollers -> LocRecords] /\ pc' \in [Pollers -> Places]
           /\ \A q \in Pollers : q # p => loc'[q] = loc[q] /\ pc'[q] = pc[q]
           /\ pc'[p] = "next" /\ loc'[p].todo \subseteq loc[p].todo /\ loc'[p].now = loc[p].now
           /\ loc'[p].state = NoState /\ loc'[p].result = "none"
<1>0. loc \in [Pollers -> LocRecords] /\ pc \in [Pollers -> Places] /\ loc[p] \in LocRecords
    BY DEF IInv, Types
<1>1. /\ loc' = [loc EXCEPT ![p] = [NoLocals EXCEPT !.todo = loc[p].todo \ {loc[p].id}, !.now = loc[p].now]]
      /\ pc' = [pc EXCEPT ![p] = "next"]
    BY DEF NextTrigger, Go
<1>2. PICK r : r = [NoLocals EXCEPT !.todo = loc[p].todo \ {loc[p].id}, !.now = loc[p].now]
    OBVIOUS
<1>3. r \in LocRecords /\ r.todo \subseteq loc[p].todo /\ r.now = loc[p].now /\ r.state = NoState /\ r.result = "none"
    <2>1. loc[p].todo \in SUBSET Ids /\ loc[p].now \in Nat
        BY <1>0 DEF LocRecords
    <2> QED
        BY <1>2, <2>1, RestTyped DEF LocRecords, NoLocals
<1>4. loc' = [loc EXCEPT ![p] = r]
    BY <1>1, <1>2
<1> QED
    BY <1>0, <1>1, <1>3, <1>4 DEF Places

\* A poller between two triggers holds nothing.
LEMMA PollerAtRest ==
    ASSUME IInv, NEW p \in Pollers, Types', Forward, pc'[p] \in {"idle", "next"}, loc'[p].todo \subseteq def',
           loc'[p].now <= now', loc'[p].state = NoState, loc'[p].result = "none"
    PROVE  PollerInv(p)'
<1>1. Earned(NoState, failures', plan'.maxAttempts)
    BY EarnedNone, NoStateTyped, PlanTypes DEF IInv, Types, Forward
<1> QED
    BY <1>1 DEF PollerInv

\* A step that changes nothing but the poller's place, and perhaps what it holds.
LEMMA StepsForward ==
    ASSUME Types, UNCHANGED <<def, now, plan, losses, faults, failures, done, clobbers>>,
           \A id \in Ids : \A n \in Fires : fireLock[id][n] # "absent" => fireLock'[id][n] # "absent"
    PROVE  Forward
BY DEF Types, Forward

\* The steps of a poller up to the commit keep the invariant.
LEMMA PollStep ==
    ASSUME IInv, NEW p \in Pollers,
           PollStart(p) \/ GetTrigger(p) \/ Acquire(p) \/ RunWorkflow(p) \/ Release(p) \/ Crash(p)
    PROVE  IInv'
<1>0. /\ Types /\ PollerInv(p) /\ loc \in [Pollers -> LocRecords] /\ pc \in [Pollers -> Places]
      /\ loc[p].id \in Ids /\ loc[p].state \in States /\ loc[p].now \in Nat /\ loc[p].todo \subseteq Ids
      /\ def \subseteq Ids /\ now \in Nat /\ state \in [Ids -> States]
    BY DEF IInv, Types, LocRecords
<1>1. Fire(p) \in Fires
    BY <1>0 DEF States, Fire
<1>2. CASE PollStart(p)
    <2>1. UNCHANGED <<def, state, now, fireLock, done, host, mover, plan, losses, faults, failures, commits, grid, clobbers>>
        BY <1>2 DEF PollStart, trigger, env, history
    <2>2. PICK r : r = [NoLocals EXCEPT !.todo = def, !.now = now]
        OBVIOUS
    <2>3. r \in LocRecords /\ r.todo = def /\ r.now = now /\ r.state = NoState /\ r.result = "none"
        BY <1>0, <2>2, RestTyped DEF LocRecords, NoLocals
    <2>4. loc' = [loc EXCEPT ![p] = r] /\ pc' = [pc EXCEPT ![p] = "next"]
        BY <1>2, <2>2 DEF PollStart, Go
    <2>5. /\ loc' \in [Pollers -> LocRecords] /\ pc' \in [Pollers -> Places] /\ pc'[p] = "next" /\ loc'[p] = r
          /\ \A q \in Pollers : q # p => loc'[q] = loc[q] /\ pc'[q] = pc[q]
        BY <1>0, <2>3, <2>4 DEF Places
    <2>6. Types' /\ Forward
        BY <1>0, <2>1, <2>5, StepsForward DEF Types
    <2>7. PollerInv(p)'
        BY <1>0, <2>1, <2>3, <2>5, <2>6, PollerAtRest
    <2> QED
        BY <2>1, <2>5, <2>6, <2>7, LocksKept, PollQuiet
<1>3. CASE GetTrigger(p)
    <2>1. UNCHANGED <<def, state, now, fireLock, done, host, mover, plan, losses, faults, failures, commits, grid, clobbers>>
        BY <1>3 DEF GetTrigger, trigger, env, history
    <2>2. ASSUME NEW id \in loc[p].todo, Due(id, loc[p].now), Go(p, "acquire"),
                 loc' = [loc EXCEPT ![p].id = id, ![p].state = state[id]]
          PROVE  IInv'
        <3>1. id \in Ids /\ state[id] \in States
            BY <1>0, <2>2
        <3>2. /\ loc' \in [Pollers -> LocRecords] /\ pc' \in [Pollers -> Places] /\ pc'[p] = "acquire"
              /\ loc'[p].id = id /\ loc'[p].state = state[id] /\ loc'[p].todo = loc[p].todo
              /\ loc'[p].now = loc[p].now /\ loc'[p].result = loc[p].result
              /\ \A q \in Pollers : q # p => loc'[q] = loc[q] /\ pc'[q] = pc[q]
            BY <1>0, <2>2, <3>1 DEF Go, Places, LocRecords
        <3>3. Types' /\ Forward
            BY <1>0, <2>1, <3>2, StepsForward DEF Types
        <3>4. TriggerInv(id) /\ state[id].status = "pending" /\ state[id].nextRunAt <= loc[p].now
            BY <1>0, <2>2, <3>1 DEF IInv, Due, States
        <3>5. loc[p].result = "none"
            BY <1>0, <1>3 DEF GetTrigger, PollerInv
        <3>6. PollerInv(p)'
            BY <1>0, <2>1, <3>2, <3>4, <3>5, NoStateTyped DEF PollerInv, TriggerInv
        <3> QED
            BY <2>1, <3>2, <3>3, <3>6, LocksKept, PollQuiet
    <2>3. CASE Go(p, "idle") /\ loc' = [loc EXCEPT ![p] = NoLocals]
        <3>1. /\ loc' \in [Pollers -> LocRecords] /\ pc' \in [Pollers -> Places] /\ pc'[p] = "idle" /\ loc'[p] = NoLocals
              /\ \A q \in Pollers : q # p => loc'[q] = loc[q] /\ pc'[q] = pc[q]
            BY <1>0, <2>3, RestTyped DEF Places, Go
        <3>2. Types' /\ Forward
            BY <1>0, <2>1, <3>1, StepsForward DEF Types
        <3>3. PollerInv(p)'
            BY <1>0, <2>1, <3>1, <3>2, PollerAtRest DEF NoLocals
        <3> QED
            BY <2>1, <3>1, <3>2, <3>3, LocksKept, PollQuiet
    <2> QED
        BY <1>3, <2>2, <2>3 DEF GetTrigger
<1>4. CASE Acquire(p)
    <2>1. UNCHANGED <<def, state, now, done, host, mover, plan, losses, faults, failures, commits, grid, clobbers>>
          /\ pc[p] = "acquire"
        BY <1>4 DEF Acquire, trigger, env, history
    <2>3. CASE /\ fireLock' = [fireLock EXCEPT ![loc[p].id][Fire(p)] = p]
               /\ Go(p, "run") /\ UNCHANGED loc
        <3>1. /\ pc' \in [Pollers -> Places] /\ pc'[p] = "run" /\ loc' = loc
              /\ \A q \in Pollers : q # p => loc'[q] = loc[q] /\ pc'[q] = pc[q]
            BY <1>0, <2>3 DEF Places, Go
        <3>2. fireLock \in [Ids -> [Fires -> Slots]] /\ p \in Slots /\ p # "absent"
            BY <1>0, SchedulerAssumption DEF Types, Slots
        <3>3. /\ fireLock' \in [Ids -> [Fires -> Slots]]
              /\ \A id \in Ids : \A n \in Fires : fireLock[id][n] # "absent" => fireLock'[id][n] # "absent"
              /\ \A id \in Ids : id # loc[p].id => fireLock'[id] = fireLock[id]
              /\ fireLock'[loc[p].id][Fire(p)] = p
            BY <1>0, <1>1, <2>3, <3>2
        <3>4. Types' /\ Forward
            BY <1>0, <2>1, <3>1, <3>3, StepsForward DEF Types
        <3>5. losses = 0 => state[loc[p].id] # NoState
            BY <1>0, <2>1 DEF PollerInv
        <3>6. \A id \in Ids : losses = 0 /\ state[id] = NoState => \A n \in Fires : fireLock'[id][n] = "absent"
            BY <3>3, <3>5 DEF IInv, TriggerInv
        <3>7. PollerInv(p)'
            BY <1>0, <2>1, <3>1, <3>2, <3>3 DEF PollerInv, Fire
        <3> QED
            BY <2>1, <3>1, <3>3, <3>4, <3>6, <3>7, PollQuiet
    <2>4. CASE NextTrigger(p) /\ UNCHANGED fireLock
        <3>1. Types' /\ Forward
            BY <1>0, <2>1, <2>4, NextTriggerIs, StepsForward DEF Types
        <3>2. PollerInv(p)'
            BY <1>0, <2>1, <2>4, <3>1, NextTriggerIs, PollerAtRest DEF PollerInv
        <3> QED
            BY <2>1, <2>4, <3>1, <3>2, NextTriggerIs, LocksKept, PollQuiet
    <2> QED
        BY <1>4, <2>3, <2>4 DEF Acquire
<1>5. CASE RunWorkflow(p)
    <2>1. UNCHANGED <<def, state, now, fireLock, host, mover, plan, losses, commits, grid, clobbers>> /\ pc[p] = "run"
        BY <1>5 DEF RunWorkflow, trigger
    <2>2. /\ pc' \in [Pollers -> Places] /\ pc'[p] = "commit"
          /\ \A q \in Pollers : q # p => pc'[q] = pc[q]
        BY <1>0, <1>5 DEF RunWorkflow, Places, Go
    <2>3. /\ failures \in [Fires -> Nat] /\ done \in [Ids -> SUBSET Fires] /\ faults \in Nat
          /\ loc[p].state.attempts \in Nat /\ loc[p].state.attempts <= failures[Fire(p)]
        BY <1>0 DEF Types, PollerInv, Earned, Fire, States
    <2>4. \E r \in Results \ {"none"} :
              /\ loc' = [loc EXCEPT ![p].result = r]
              /\ r = "done" => /\ done' = [done EXCEPT ![loc[p].id] = done[loc[p].id] \cup {Fire(p)}]
                               /\ UNCHANGED <<faults, failures>>
              /\ r # "done" => faults' = faults + 1 /\ done' = done
              /\ r \in {"budget", "busy", "suspended"} => failures' = failures
              /\ r = "failed" => failures' = [failures EXCEPT ![Fire(p)] = failures[Fire(p)] + 1]
        BY <1>5 DEF RunWorkflow, Fault, Results
    <2>5. PICK r \in Results \ {"none"} :
              /\ loc' = [loc EXCEPT ![p].result = r]
              /\ r = "done" => /\ done' = [done EXCEPT ![loc[p].id] = done[loc[p].id] \cup {Fire(p)}]
                               /\ UNCHANGED <<faults, failures>>
              /\ r # "done" => faults' = faults + 1 /\ done' = done
              /\ r \in {"budget", "busy", "suspended"} => failures' = failures
              /\ r = "failed" => failures' = [failures EXCEPT ![Fire(p)] = failures[Fire(p)] + 1]
        BY <2>4
    <2>6. /\ loc' \in [Pollers -> LocRecords] /\ \A q \in Pollers : q # p => loc'[q] = loc[q]
          /\ loc'[p].result = r /\ loc'[p].id = loc[p].id /\ loc'[p].state = loc[p].state
          /\ loc'[p].todo = loc[p].todo /\ loc'[p].now = loc[p].now
        BY <1>0, <2>5 DEF LocRecords
    <2>7. /\ done' \in [Ids -> SUBSET Fires] /\ \A id \in Ids : done[id] \subseteq done'[id]
          /\ r = "done" => Fire(p) \in done'[loc[p].id]
        BY <1>0, <1>1, <2>3, <2>5
    <2>8. /\ failures' \in [Fires -> Nat] /\ \A n \in Fires : failures[n] <= failures'[n]
          /\ r = "failed" => failures'[Fire(p)] = failures[Fire(p)] + 1
        BY <1>1, <2>3, <2>5 DEF Results
    <2>9. faults' \in Nat /\ (faults' = 0 => faults = 0 /\ r = "done")
        BY <2>3, <2>5
    <2>10. Types' /\ Forward
        BY <1>0, <2>1, <2>2, <2>6, <2>7, <2>8, <2>9 DEF Types, Forward
    <2>11. PollerInv(p)'
        <3>1. Earned(loc'[p].state, failures', plan'.maxAttempts)
            BY <1>0, <2>6, <2>10, Kept DEF PollerInv
        <3>2. r = "failed" => loc'[p].state.attempts + 1 <= failures'[Fire(p)']
            <4>1. Fire(p)' = Fire(p) /\ failures[Fire(p)] \in Nat
                BY <1>1, <2>3, <2>6 DEF Fire
            <4> QED
                BY <2>3, <2>6, <2>8, <4>1
        <3>3. r = "done" => Fire(p)' \in done'[loc'[p].id]
            BY <2>6, <2>7 DEF Fire
        <3>4. loc'[p].todo \subseteq def' /\ loc'[p].now <= now'
            BY <1>0, <2>1, <2>6 DEF PollerInv
        <3>5. /\ loc'[p].state.status = "pending" /\ loc'[p].state.nextRunAt <= loc'[p].now
              /\ losses' = 0 => state'[loc'[p].id] # NoState
            BY <1>0, <2>1, <2>6 DEF PollerInv
        <3>6. fireLock'[loc'[p].id][Fire(p)'] # "absent"
            BY <1>0, <2>1, <2>6 DEF PollerInv, Fire
        <3> QED
            BY <2>2, <2>6, <2>9, <3>1, <3>2, <3>3, <3>4, <3>5, <3>6 DEF PollerInv
    <2> QED
        BY <2>1, <2>2, <2>6, <2>10, <2>11, LocksKept, PollQuiet
<1>6. CASE Release(p)
    <2>1. UNCHANGED <<def, state, now, done, host, mover, plan, losses, faults, failures, commits, grid, clobbers>> /\ NextTrigger(p)
        BY <1>6 DEF Release, trigger, env, history
    <2>3. /\ fireLock' \in [Ids -> [Fires -> Slots]]
          /\ \A id \in Ids : \A n \in Fires : (fireLock'[id][n] = "absent") = (fireLock[id][n] = "absent")
        <3>1. fireLock \in [Ids -> [Fires -> Slots]] /\ "free" \in Slots /\ "free" # "absent" /\ p # "absent"
            BY <1>0, SchedulerAssumption DEF Types, Slots
        <3> QED
            BY <1>0, <1>1, <1>6, <3>1 DEF Release
    <2>4. Types' /\ Forward
        BY <1>0, <2>1, <2>3, NextTriggerIs, StepsForward DEF Types
    <2>5. PollerInv(p)'
        BY <1>0, <2>1, <2>4, NextTriggerIs, PollerAtRest DEF PollerInv
    <2> QED
        BY <2>1, <2>3, <2>4, <2>5, NextTriggerIs, LocksKept, PollQuiet
<1>7. CASE Crash(p)
    <2>1. UNCHANGED <<def, state, now, fireLock, done, host, mover, plan, losses, failures, commits, grid, clobbers>> /\ faults' = faults + 1
        BY <1>7 DEF Crash, Fault, trigger, history
    <2>2. /\ loc' \in [Pollers -> LocRecords] /\ pc' \in [Pollers -> Places] /\ pc'[p] = "idle" /\ loc'[p] = NoLocals
          /\ \A q \in Pollers : q # p => loc'[q] = loc[q] /\ pc'[q] = pc[q]
        BY <1>0, <1>7, RestTyped DEF Places, Go, Crash
    <2>3. faults \in Nat /\ failures \in [Fires -> Nat]
        BY <1>0 DEF Types
    <2>4. Types' /\ Forward
        BY <1>0, <2>1, <2>2, <2>3 DEF Types, Forward
    <2>5. PollerInv(p)'
        BY <1>0, <2>1, <2>2, <2>4, PollerAtRest DEF NoLocals
    <2> QED
        BY <2>1, <2>2, <2>4, <2>5, LocksKept, PollQuiet
<1> QED
    BY <1>2, <1>3, <1>4, <1>5, <1>6, <1>7

\* The commit keeps the invariant: what it records was read from the state it replaces.
LEMMA CommitStep ==
    ASSUME IInv, NEW p \in Pollers, Commit(p)
    PROVE  IInv'
<1>0. /\ Types /\ PollerInv(p) /\ loc[p] \in LocRecords /\ pc \in [Pollers -> Places] /\ state \in [Ids -> States]
      /\ commits \in [Ids -> [Fires -> Nat]] /\ grid \in [Ids -> Nat] /\ failures \in [Fires -> Nat]
    BY DEF IInv, Types
<1>1. /\ UNCHANGED <<def, now, fireLock, done, host, loc, mover, plan, losses, faults, failures, grid, clobbers>>
      /\ pc[p] = "commit" /\ Forward
    BY <1>0, StepsForward DEF Commit, env
<1>2. /\ pc' \in [Pollers -> Places] /\ pc'[p] = "release" /\ \A q \in Pollers : q # p => pc'[q] = pc[q]
    BY <1>0 DEF Commit, Places, Go
<1>3. CASE UNCHANGED <<state, commits>>
    <2>1. Types'
        BY <1>0, <1>1, <1>2, <1>3 DEF Types
    <2>2. PollerInv(p)'
        BY <1>0, <1>1, <1>2, <1>3 DEF PollerInv, Fire
    <2> QED
        BY <1>1, <1>2, <1>3, <2>1, <2>2, LocksKept, PollQuiet
<1>4. CASE state[loc[p].id] = loc[p].state /\ Record(p)
    <2>1. PICK i \in Ids, n \in Fires : i = loc[p].id /\ n = Fire(p)
        BY <1>0 DEF LocRecords, States, Fire
    <2>2. Out(p).fireCount \in Fires
        BY <1>4 DEF Record, Out
    <2>3. PICK o \in States : o = Out(p)
        BY <1>1, <2>2, Recorded
    <2>4. /\ state' = [state EXCEPT ![i] = o]
          /\ commits' = IF loc[p].result # "done" THEN commits ELSE [commits EXCEPT ![i][n] = commits[i][n] + 1]
        BY <1>4, <2>1, <2>3 DEF Record, Out
    <2>5. /\ state'[i] = o /\ o # NoState /\ \A id \in Ids : id # i => state'[id] = state[id]
          /\ \A id \in Ids : id # i => commits'[id] = commits[id]
          /\ commits' \in [Ids -> [Fires -> Nat]] /\ state' \in [Ids -> States]
        BY <1>0, <1>1, <2>1, <2>2, <2>3, <2>4, Recorded
    <2>6. Types'
        BY <1>0, <1>1, <1>2, <2>5 DEF Types
    <2>7. TriggerInv(i) /\ state[i] # NoState /\ state[i].status = "pending" /\ state[i].fireCount = n /\ n \in Nat
        BY <1>0, <1>1, <1>4, <2>1, SchedulerAssumption, NoStateTyped DEF IInv, PollerInv, Fire, Fires
    <2>8. TriggerInv(i)'
        <3>1. Earned(o, failures', plan'.maxAttempts)
            BY <1>1, <2>2, <2>3, Recorded
        <3>2. losses' = 0 /\ Tame' => Passed(o.fireCount, done')
            <4>1. o.fireCount = n \/ (o.fireCount = n + 1 /\ n \in done[i])
                BY <1>0, <1>1, <2>1, <2>2, <2>3, Recorded DEF PollerInv
            <4> QED
                BY <1>1, <2>7, <4>1 DEF TriggerInv, Passed, Tame
        <3>3. clobbers'[i] = 0 => \A k \in Fires : commits'[i][k] <= 1
            <4>1. clobbers[i] = 0 => commits[i][n] = 0
                BY <1>0, <2>7 DEF TriggerInv
            <4> QED
                BY <1>0, <1>1, <2>4, <2>7, <4>1 DEF TriggerInv
        <3>4. \A k \in Fires : commits'[i][k] > 0 =>
                  fireLock'[i][k] # "absent" /\ (clobbers'[i] # 0 \/ o.fireCount > k \/ (o.fireCount = k /\ o.status # "pending"))
            <4> SUFFICES ASSUME NEW k \in Fires, commits'[i][k] > 0
                         PROVE  fireLock'[i][k] # "absent" /\ (clobbers'[i] # 0 \/ o.fireCount > k \/ (o.fireCount = k /\ o.status # "pending"))
                OBVIOUS
            <4>1. k \in Nat /\ o.fireCount \in Nat /\ o.fireCount >= n
                BY <1>1, <2>1, <2>2, <2>3, Recorded, SchedulerAssumption DEF Fires
            <4>2. CASE commits[i][k] > 0
                <5>1. fireLock[i][k] # "absent" /\ (clobbers[i] # 0 \/ n > k)
                    BY <2>7, <4>1, <4>2 DEF TriggerInv
                <5> QED
                    BY <1>1, <2>7, <4>1, <5>1
            <4>3. CASE ~(commits[i][k] > 0)
                <5>1. k = n /\ loc[p].result = "done"
                    BY <1>0, <2>4, <4>3
                <5>2. fireLock[i][n] # "absent"
                    BY <1>0, <1>1, <2>1 DEF PollerInv
                <5>3. o.fireCount = n + 1 \/ (o.fireCount = n /\ o.status = "done")
                    BY <1>1, <2>1, <2>2, <2>3, <5>1, Recorded
                <5> QED
                    BY <1>1, <2>7, <5>1, <5>2, <5>3
            <4> QED
                BY <4>2, <4>3
        <3>5. Calm' => Slot(o.nextRunAt, grid'[i], plan'.value)
            <4> SUFFICES ASSUME Calm' PROVE Slot(o.nextRunAt, grid[i], plan.value)
                BY <1>1
            <4>1. loc[p].result = "done" /\ plan.kind = "every" /\ Calm
                BY <1>0, <1>1 DEF PollerInv, Calm
            <4>2. PICK j \in Nat : o.nextRunAt = state[i].nextRunAt + plan.value * j
                BY <1>1, <1>4, <2>1, <2>2, <2>3, <4>1, Recorded
            <4>3. state[i].nextRunAt \in Nat /\ grid[i] \in Nat /\ plan.value \in Nat \ {0}
                BY <1>0, PlanTypes DEF Types, States
            <4>4. Slot(state[i].nextRunAt, grid[i], plan.value)
                BY <2>7, <4>1 DEF TriggerInv
            <4> QED
                BY <4>2, <4>3, <4>4, SlotLater
        <3>6. i \in def'
            BY <1>1, <2>7 DEF TriggerInv
        <3> QED
            BY <2>5, <3>1, <3>2, <3>3, <3>4, <3>5, <3>6 DEF TriggerInv
    <2>9. ASSUME NEW id \in Ids, id # i PROVE TriggerInv(id)'
        <3>1. losses = 0 /\ state[id] = NoState => \A k \in Fires : fireLock[id][k] = "absent"
            BY DEF IInv, TriggerInv
        <3> QED
            BY <1>1, <2>5, <2>6, <2>9, <3>1, TriggerFrame
    <2>10. ASSUME NEW h \in Hosts PROVE HostInv(h)'
        <3>1. state[host[h].id] = NoState /\ host[h].id \in Ids => host[h].id # i
            BY <2>7
        <3>2. host[h].id \in Ids
            BY <1>0 DEF Types, HostRecords
        <3> QED
            BY <1>1, <2>5, <3>1, <3>2, HostFrame
    <2>11. ASSUME NEW q \in Pollers PROVE PollerInv(q)'
        <3>1. \A id \in Ids : state[id] # NoState => state'[id] # NoState
            BY <2>5
        <3>2. CASE q # p
            BY <1>1, <1>2, <2>6, <3>1, <3>2, PollerFrame
        <3>3. CASE q = p
            BY <1>0, <1>1, <1>2, <2>1, <2>5, <3>1, <3>3 DEF PollerInv, Fire
        <3> QED
            BY <3>2, <3>3
    <2>12. MoverInv'
        <3>1. mover.pc = "state" => i # "owned"
            BY <2>7 DEF IInv, MoverInv
        <3>2. "owned" \in Ids
            BY DEF Ids
        <3> QED
            BY <1>1, <2>5, <2>6, <3>1, <3>2, MoverFrame
    <2> QED
        BY <2>6, <2>8, <2>9, <2>10, <2>11, <2>12 DEF IInv
<1> QED
    BY <1>3, <1>4 DEF Commit

-----------------------------------------------------------------------------
(* moveTrigger and the environment *)

\* The mover's steps keep the invariant.
LEMMA MoveStep ==
    ASSUME IInv, MoveTrigger \/ CrashMove
    PROVE  IInv'
<1>0. /\ Types /\ MoverInv /\ mover \in MoverRecords /\ state \in [Ids -> States] /\ grid \in [Ids -> Nat]
      /\ TriggerInv("sys") /\ TriggerInv("owned") /\ "sys" \in Ids /\ "owned" \in Ids /\ faults \in Nat
    BY DEF IInv, Types, Ids
<1>1. /\ UNCHANGED <<now, fireLock, done, host, pc, loc, plan, losses, failures, commits, clobbers>>
      /\ def' = def \/ (mover.pc = "def" /\ def' = def \cup {"owned"})
      /\ faults' = faults \/ faults' = faults + 1
    BY DEF MoveTrigger, MoveRead, MovePutDef, MovePutState, MoveRetire, CrashMove, Fault, trigger, polling, history
<1>2. Forward
    BY <1>0, <1>1 DEF Forward, Types
<1>3. \A h \in Hosts : host[h].pc # "idle" => mover.pc \in {"idle", "done"}
    BY DEF IInv, HostInv
<1>4. \A h \in Hosts : host[h].id \in Ids
    BY <1>0 DEF Types, HostRecords
<1>5. CASE MoveRead
    <2>1. /\ UNCHANGED <<def, state, grid, faults>> /\ \A h \in Hosts : host[h].pc = "idle"
          /\ mover' = [state |-> state["sys"],
                       pc |-> IF "owned" \notin def THEN "def" ELSE IF state["sys"].status = "pending" THEN "retire" ELSE "done"]
          /\ state["sys"] # NoState
        BY <1>5 DEF MoveRead, trigger, history
    <2>2. Types'
        BY <1>0, <1>1, <2>1 DEF Types, MoverRecords
    <2>3. ASSUME NEW id \in Ids PROVE TriggerInv(id)'
        <3>1. losses = 0 /\ state[id] = NoState => \A n \in Fires : fireLock[id][n] = "absent"
            BY DEF IInv, TriggerInv
        <3> QED
            BY <1>1, <1>2, <2>1, <2>2, <3>1, TriggerFrame
    <2>4. ASSUME NEW h \in Hosts PROVE HostInv(h)'
        BY <1>1, <1>2, <2>1, HostFrame
    <2>5. ASSUME NEW p \in Pollers PROVE PollerInv(p)'
        BY <1>1, <1>2, <2>1, <2>2, PollerFrame
    <2>6. MoverInv'
        <3>1. Earned(state["sys"], failures', plan'.maxAttempts) /\ (Calm' => Calm) /\ (Tame' => Tame)
            BY <1>0, <1>1, <2>1 DEF TriggerInv, Calm, Tame
        <3> QED
            BY <1>0, <1>1, <2>1, <3>1 DEF MoverInv, TriggerInv
    <2> QED
        BY <2>2, <2>3, <2>4, <2>5, <2>6 DEF IInv
<1>6. CASE MovePutDef
    <2>1. /\ UNCHANGED <<state, grid, faults>> /\ mover.pc = "def" /\ def' = def \cup {"owned"}
          /\ mover'.pc = "state" /\ mover'.state = mover.state /\ mover' \in MoverRecords
        BY <1>0, <1>6 DEF MovePutDef, MoverAt, MoverRecords, history
    <2>2. Types'
        BY <1>0, <1>1, <2>1 DEF Types
    <2>3. ASSUME NEW id \in Ids PROVE TriggerInv(id)'
        <3>1. losses = 0 /\ state[id] = NoState => \A n \in Fires : fireLock[id][n] = "absent"
            BY DEF IInv, TriggerInv
        <3> QED
            BY <1>1, <1>2, <2>1, <2>2, <3>1, TriggerFrame
    <2>4. ASSUME NEW h \in Hosts PROVE HostInv(h)'
        BY <1>1, <1>2, <1>3, <2>1, HostFrame
    <2>5. ASSUME NEW p \in Pollers PROVE PollerInv(p)'
        BY <1>1, <1>2, <2>1, <2>2, PollerFrame
    <2>6. MoverInv'
        BY <1>0, <1>1, <2>1 DEF MoverInv, TriggerInv, Calm, Tame
    <2> QED
        BY <2>2, <2>3, <2>4, <2>5, <2>6 DEF IInv
<1>7. CASE MovePutState
    <2>1. /\ UNCHANGED <<def, faults>> /\ mover.pc = "state" /\ state' = [state EXCEPT !["owned"] = mover.state]
          /\ grid' = [grid EXCEPT !["owned"] = grid["sys"]]
          /\ mover'.pc = (IF mover.state.status = "pending" THEN "retire" ELSE "done")
          /\ mover'.state = mover.state /\ mover' \in MoverRecords /\ mover.state \in States
        BY <1>0, <1>7 DEF MovePutState, MoverAt, MoverRecords
    <2>2. /\ state' \in [Ids -> States] /\ grid' \in [Ids -> Nat] /\ state'["owned"] = mover.state
          /\ grid'["owned"] = grid["sys"]
          /\ \A id \in Ids : id # "owned" => state'[id] = state[id] /\ grid'[id] = grid[id]
        BY <1>0, <2>1
    <2>3. Types'
        BY <1>0, <1>1, <2>1, <2>2 DEF Types
    <2>4. ASSUME NEW id \in Ids, id # "owned" PROVE TriggerInv(id)'
        <3>1. losses = 0 /\ state[id] = NoState => \A n \in Fires : fireLock[id][n] = "absent"
            BY DEF IInv, TriggerInv
        <3> QED
            BY <1>1, <1>2, <2>2, <2>3, <2>4, <3>1, TriggerFrame
    <2>5. TriggerInv("owned")'
        <3>1. /\ "owned" \in def /\ state["owned"] = NoState /\ \A n \in Fires : commits["owned"][n] = 0
              /\ Earned(mover.state, failures, plan.maxAttempts)
              /\ losses = 0 /\ Tame => Passed(mover.state.fireCount, done)
              /\ Calm => Slot(mover.state.nextRunAt, grid["sys"], plan.value)
            BY <1>0, <2>1 DEF MoverInv
        <3>2. losses' = 0 => \A n \in Fires : fireLock'["owned"][n] = "absent"
            BY <1>0, <1>1, <3>1 DEF TriggerInv
        <3>3. Calm' => Slot(state'["owned"].nextRunAt, grid'["owned"], plan'.value)
            BY <1>1, <2>1, <2>2, <3>1 DEF Calm
        <3>4. \A n \in Fires : commits'["owned"][n] = 0
            BY <1>1, <3>1
        <3>5. "owned" \in def' /\ Earned(state'["owned"], failures', plan'.maxAttempts)
              /\ (losses' = 0 /\ Tame' => Passed(state'["owned"].fireCount, done'))
            BY <1>1, <2>1, <2>2, <3>1 DEF Tame
        <3> QED
            BY <3>2, <3>3, <3>4, <3>5 DEF TriggerInv
    <2>6. ASSUME NEW h \in Hosts PROVE HostInv(h)'
        BY <1>1, <1>2, <1>3, <2>1, HostFrame
    <2>7. ASSUME NEW p \in Pollers PROVE PollerInv(p)'
        <3>1. \A id \in Ids : state[id] # NoState => state'[id] # NoState
            BY <1>0, <2>1, <2>2 DEF MoverInv
        <3> QED
            BY <1>1, <1>2, <2>3, <3>1, PollerFrame
    <2>8. MoverInv'
        BY <1>0, <1>1, <2>1 DEF MoverInv
    <2> QED
        BY <2>3, <2>4, <2>5, <2>6, <2>7, <2>8 DEF IInv
<1>8. CASE MoveRetire \/ CrashMove
    <2>1. /\ UNCHANGED <<def, grid, clobbers>> /\ mover.pc \in {"def", "state", "retire"} /\ mover'.pc \in {"done", "stopped"}
          /\ mover'.state = mover.state /\ mover' \in MoverRecords
          /\ \/ state' = state
             \/ state["sys"] = mover.state /\ mover.pc = "retire" /\ state' = [state EXCEPT !["sys"].status = "done"]
        BY <1>0, <1>8 DEF MoveRetire, CrashMove, MoverAt, MoverRecords, trigger, history
    <2>2. /\ state' \in [Ids -> States] /\ \A id \in Ids : id # "sys" => state'[id] = state[id]
          /\ state'["sys"].fireCount = state["sys"].fireCount /\ state'["sys"].nextRunAt = state["sys"].nextRunAt
          /\ state'["sys"].attempts = state["sys"].attempts
          /\ state'["sys"] = state["sys"] \/ (state["sys"].status = "pending" /\ state'["sys"].status = "done")
        BY <1>0, <2>1 DEF States, MoverInv
    <2>3. Types'
        BY <1>0, <1>1, <2>1, <2>2 DEF Types
    <2>4. ASSUME NEW id \in Ids, state'[id] = state[id] PROVE TriggerInv(id)'
        <3>1. losses = 0 /\ state[id] = NoState => \A n \in Fires : fireLock[id][n] = "absent"
            BY DEF IInv, TriggerInv
        <3> QED
            BY <1>1, <1>2, <2>1, <2>3, <2>4, <3>1, TriggerFrame
    <2>5. ASSUME state'["sys"] # state["sys"] PROVE TriggerInv("sys")'
        <3>1. /\ state["sys"].status = "pending" /\ state'["sys"].status = "done" /\ state["sys"] # NoState
              /\ state'["sys"] # NoState
            BY <2>2, <2>5, NoStateTyped
        <3>2. (Calm' => Calm) /\ (Tame' => Tame)
            BY <1>2 DEF Calm, Tame, Forward
        <3>3. Earned(state'["sys"], failures', plan'.maxAttempts)
            BY <1>0, <1>1, <2>2, <3>1 DEF Earned, TriggerInv
        <3> QED
            BY <1>0, <1>1, <2>1, <2>2, <3>1, <3>2, <3>3 DEF TriggerInv
    <2>6. ASSUME NEW h \in Hosts PROVE HostInv(h)'
        BY <1>1, <1>2, <1>3, <2>1, HostFrame
    <2>7. ASSUME NEW p \in Pollers PROVE PollerInv(p)'
        <3>1. \A id \in Ids : state[id] # NoState => state'[id] # NoState
            BY <2>2, NoStateTyped
        <3> QED
            BY <1>1, <1>2, <2>3, <3>1, PollerFrame
    <2>8. MoverInv'
        BY <1>0, <1>1, <2>1 DEF MoverInv
    <2>9. \A id \in Ids : TriggerInv(id)'
        <3>1. ASSUME NEW id \in Ids PROVE TriggerInv(id)'
            BY <2>2, <2>4, <2>5
        <3> QED
            BY <3>1
    <2> QED
        BY <2>3, <2>6, <2>7, <2>8, <2>9 DEF IInv
<1> QED
    BY <1>5, <1>6, <1>7, <1>8 DEF MoveTrigger

\* Time, purges and lapsing locks keep the invariant.
LEMMA EnvironmentStep ==
    ASSUME IInv, \/ Tick
                 \/ \E id \in Ids : Lose(id) \/ \E n \in Fires : Lapse(id, n) \/ LapseStalled(id, n)
    PROVE  IInv'
<1>0. Types /\ state \in [Ids -> States] /\ losses \in Nat /\ faults \in Nat /\ now \in Nat
    BY DEF IInv, Types
<1>1. ASSUME Types', Forward, UNCHANGED <<def, state, host, mover, pc, loc, commits, grid, clobbers>>,
             \A id \in Ids : \A n \in Fires : (fireLock'[id][n] = "absent") = (fireLock[id][n] = "absent")
      PROVE  IInv'
    <2>1. ASSUME NEW id \in Ids PROVE TriggerInv(id)'
        BY <1>1, LocksKept, TriggerFrame
    <2>2. ASSUME NEW h \in Hosts PROVE HostInv(h)'
        BY <1>1, HostFrame
    <2>3. ASSUME NEW p \in Pollers PROVE PollerInv(p)'
        BY <1>1, PollerFrame
    <2>4. MoverInv'
        BY <1>1, MoverFrame
    <2> QED
        BY <1>1, <2>1, <2>2, <2>3, <2>4 DEF IInv
<1>2. CASE Tick
    <2>1. /\ UNCHANGED <<def, state, fireLock, done, host, pc, loc, plan, mover, faults, losses, failures, commits, grid, clobbers>>
          /\ now' = now + 1
        BY <1>2 DEF Tick, trigger, polling, env, history
    <2>2. Types' /\ Forward
        BY <1>0, <2>1 DEF Types, Forward
    <2> QED
        BY <1>1, <2>1, <2>2
<1>3. ASSUME NEW id \in Ids, Lose(id) PROVE IInv'
    <2>1. /\ UNCHANGED <<def, now, fireLock, done, host, pc, loc, plan, mover, faults, failures, commits, grid, clobbers>>
          /\ losses' = losses + 1 /\ state' = [state EXCEPT ![id] = NoState] /\ state[id] # NoState
        BY <1>3 DEF Lose, polling, history
    <2>2. /\ state' \in [Ids -> States] /\ state'[id] = NoState /\ losses' \in Nat /\ losses' # 0
          /\ \A i \in Ids : i # id => state'[i] = state[i]
        BY <1>0, <2>1, NoStateTyped
    <2>3. Types' /\ Forward
        BY <1>0, <2>1, <2>2 DEF Types, Forward
    <2>4. ASSUME NEW i \in Ids, i # id PROVE TriggerInv(i)'
        <3>1. losses = 0 /\ state[i] = NoState => \A n \in Fires : fireLock[i][n] = "absent"
            BY DEF IInv, TriggerInv
        <3> QED
            BY <2>1, <2>2, <2>3, <2>4, <3>1, TriggerFrame
    <2>5. TriggerInv(id)'
        <3>1. Earned(NoState, failures', plan'.maxAttempts)
            BY <1>0, <2>1, EarnedNone, NoStateTyped, PlanTypes DEF Types
        <3> QED
            BY <2>1, <2>2, <3>1 DEF IInv, TriggerInv
    <2>6. ASSUME NEW h \in Hosts PROVE HostInv(h)'
        <3>1. host[h].id \in Ids
            BY <1>0 DEF Types, HostRecords
        <3> QED
            BY <2>1, <2>2, <2>3, <3>1, HostFrame
    <2>7. ASSUME NEW p \in Pollers PROVE PollerInv(p)'
        BY <2>1, <2>2, <2>3, PollerFrame
    <2>8. MoverInv'
        <3>1. mover.pc = "state" => id # "owned"
            BY <2>1 DEF IInv, MoverInv
        <3>2. "owned" \in Ids
            BY DEF Ids
        <3> QED
            BY <2>1, <2>2, <2>3, <3>1, <3>2, MoverFrame
    <2> QED
        BY <2>3, <2>4, <2>5, <2>6, <2>7, <2>8 DEF IInv
<1>4. ASSUME NEW id \in Ids, NEW n \in Fires, Lapse(id, n) \/ LapseStalled(id, n) PROVE IInv'
    <2>1. /\ UNCHANGED <<def, state, now, done, host, pc, loc, plan, mover, losses, failures, commits, grid, clobbers>>
          /\ faults' = faults \/ faults' = faults + 1
          /\ fireLock[id][n] \in Pollers /\ fireLock' = [fireLock EXCEPT ![id][n] = "free"]
        BY <1>4 DEF Lapse, LapseStalled, Fault, trigger, polling, env, history
    <2>2. /\ fireLock' \in [Ids -> [Fires -> Slots]]
          /\ \A i \in Ids : \A k \in Fires : (fireLock'[i][k] = "absent") = (fireLock[i][k] = "absent")
        <3>1. fireLock \in [Ids -> [Fires -> Slots]] /\ "free" \in Slots /\ fireLock[id][n] # "absent"
            BY <1>0, <2>1, SchedulerAssumption DEF Types, Slots
        <3> QED
            BY <2>1, <3>1
    <2>3. Types' /\ Forward
        BY <1>0, <2>1, <2>2 DEF Types, Forward
    <2> QED
        BY <1>1, <2>1, <2>2, <2>3
<1> QED
    BY <1>2, <1>3, <1>4
-----------------------------------------------------------------------------
(* The theorems *)

\* The invariant holds of the first state.
LEMMA Start == Init => IInv
<1> SUFFICES ASSUME Init PROVE IInv
    OBVIOUS
<1>1. Types
    BY InitTypes
<1>2. Earned(NoState, failures, plan.maxAttempts)
    BY <1>1, EarnedNone, NoStateTyped, PlanTypes DEF Types
<1>3. ASSUME NEW id \in Ids PROVE TriggerInv(id)
    <2>1. /\ state[id] = NoState /\ \A n \in Fires : commits[id][n] = 0 /\ fireLock[id][n] = "absent"
        BY DEF Init
    <2>2. Passed(state[id].fireCount, done)
        BY <2>1, NoStateTyped DEF Passed
    <2> QED
        BY <1>2, <2>1, <2>2 DEF TriggerInv
<1>4. ASSUME NEW h \in Hosts PROVE HostInv(h)
    BY DEF Init, HostInv, NoBoot
<1>5. ASSUME NEW p \in Pollers PROVE PollerInv(p)
    BY <1>2 DEF Init, PollerInv, NoLocals
<1>6. MoverInv
    BY <1>2 DEF Init, MoverInv
<1> QED
    BY <1>1, <1>3, <1>4, <1>5, <1>6 DEF IInv

\* Every step keeps it.
LEMMA Step == ASSUME IInv, [Next]_vars PROVE IInv'
<1>1. ASSUME NEW h \in Hosts, ScheduleWorkflow(h) PROVE IInv'
    BY <1>1, HostStep
<1>2. ASSUME NEW p \in Pollers, PollScheduler(p) \/ Crash(p) PROVE IInv'
    BY <1>2, PollStep, CommitStep DEF PollScheduler
<1>3. CASE MoveTrigger \/ CrashMove
    BY <1>3, MoveStep
<1>4. CASE \/ Tick
           \/ \E id \in Ids : Lose(id) \/ \E n \in Fires : Lapse(id, n) \/ LapseStalled(id, n)
    BY <1>4, EnvironmentStep
<1>5. CASE UNCHANGED vars
    <2>1. UNCHANGED <<plan, now, def, state, fireLock, done, host, pc, loc, mover, faults, losses, failures, commits, grid, clobbers>>
        BY <1>5 DEF vars, trigger, polling, env, history
    <2>2. Types' /\ Forward
        BY <2>1 DEF IInv, Types, Forward
    <2>3. ASSUME NEW id \in Ids PROVE TriggerInv(id)'
        BY <2>1, <2>2, LocksKept, TriggerFrame
    <2>4. ASSUME NEW h \in Hosts PROVE HostInv(h)'
        BY <2>1, <2>2, HostFrame
    <2>5. ASSUME NEW p \in Pollers PROVE PollerInv(p)'
        BY <2>1, <2>2, PollerFrame
    <2>6. MoverInv'
        BY <2>1, <2>2, MoverFrame
    <2> QED
        BY <2>2, <2>3, <2>4, <2>5, <2>6 DEF IInv
<1> QED
    BY <1>1, <1>2, <1>3, <1>4, <1>5 DEF Next

\* The invariant holds in every reachable state.
LEMMA Invariance == Spec => []IInv
<1>1. IInv /\ [Next]_vars => IInv'
    BY Step
<1> QED
    BY <1>1, Start, PTL DEF Spec

\* Every fire exactly once, whoever fires it, however many hosts boot at once and wherever
\* pollers crash, stall or are overtaken: none is passed before its run has finished while
\* no state is lost, and none is recorded twice, losses and moves included - until a
\* host's put comes after another's and over a trigger that moved on.
THEOREM FiresHold == Spec => []FiresExact
<1>1. IInv => FiresExact
    <2> SUFFICES ASSUME IInv PROVE FiresExact
        OBVIOUS
    <2>0. Types
        BY DEF IInv
    <2>1. ASSUME NEW id \in Ids
          PROVE  /\ state[id].nextRunAt \in Nat /\ state[id].attempts \in 0 .. plan.maxAttempts
                 /\ state[id].fireCount \in Fires /\ state[id].status \in {"none", "pending", "done", "failed"}
                 /\ done[id] \subseteq Fires
                 /\ \A n \in Fires : fireLock[id][n] \in {"absent", "free"} \cup Pollers
        <3>1. state[id] \in States /\ TriggerInv(id) /\ plan.maxAttempts \in Nat
            BY <2>0, PlanTypes DEF IInv, Types
        <3>2. state[id].attempts \in 0 .. plan.maxAttempts
            BY <3>1 DEF TriggerInv, Earned, States
        <3> QED
            BY <2>0, <3>1, <3>2 DEF Types, States, Slots
    <2>2. ASSUME NEW p \in Pollers PROVE loc[p].todo \subseteq def /\ loc[p].now \in 0 .. now
        BY <2>0 DEF IInv, Types, PollerInv, LocRecords
    <2>3. TypeOK
        BY <2>0, <2>1, <2>2 DEF TypeOK, Types
    <2>4. FiresComplete
        BY DEF IInv, TriggerInv, Passed, Tame, FiresComplete
    <2>5. FireCommittedOnce
        BY DEF IInv, TriggerInv, FireCommittedOnce
    <2> QED
        BY <2>3, <2>4, <2>5 DEF FiresExact
<1> QED
    BY <1>1, Invariance, PTL

\* A fire's attempts are spent by failures of its own run only, and late and
\* concurrent polls keep a periodic trigger on the grid it was planned on.
THEOREM PlanHolds == Spec => []PlanKept
<1>1. IInv => PlanKept
    <2> SUFFICES ASSUME IInv PROVE PlanKept
        OBVIOUS
    <2>1. AttemptsEarned
        BY DEF IInv, TriggerInv, Earned, AttemptsEarned
    <2>2. GridKept
        BY DEF IInv, TriggerInv, Calm, Slot, GridKept, OnGrid
    <2> QED
        BY <2>1, <2>2 DEF PlanKept
<1> QED
    BY <1>1, Invariance, PTL

\* Fencing: nobody rolls a count back or brings back a trigger that is done, failed or
\* retired, but a host whose put comes after another's and over a trigger that moved on.
THEOREM Fenced == Spec => NoRollback
<1> DEFINE Ahead == \A id \in Ids : state[id] # NoState /\ state'[id] # NoState /\ clobbers'[id] = clobbers[id] =>
                       /\ state'[id].fireCount >= state[id].fireCount
                       /\ state[id].status # "pending" => state'[id] = state[id]
<1>1. ASSUME IInv, [Next]_vars PROVE Ahead
    <2>0. Types /\ state \in [Ids -> States] /\ MoverInv
        BY <1>1 DEF IInv, Types
    <2>1. \A id \in Ids : state[id].fireCount \in Nat
        BY <2>0, SchedulerAssumption DEF States, Fires
    <2>2. state' = state => Ahead
        BY <2>1
    <2>3. ASSUME NEW h \in Hosts, PutState(h) PROVE Ahead
        <3>1. /\ host[h].id \in Ids /\ host[h].count \in Fires /\ (~host[h].late => state[host[h].id] = NoState)
              /\ \A id \in Ids : id # host[h].id => state'[id] = state[id]
              /\ state'[host[h].id].fireCount = host[h].count
            BY <1>1, <2>0, <2>3 DEF IInv, HostInv, PutState, Types, HostRecords
        <3>2. Clobbers(h) => clobbers'[host[h].id] # clobbers[host[h].id]
            BY <2>0, <2>3, <3>1 DEF PutState, Types
        <3>3. host[h].late /\ ~Clobbers(h) =>
                  state[host[h].id].status = "pending" /\ state[host[h].id].fireCount = host[h].count
            BY DEF Clobbers
        <3> QED
            BY <2>1, <3>1, <3>2, <3>3
    <2>4. ASSUME NEW p \in Pollers, Commit(p), state' # state PROVE Ahead
        <3>1. /\ state[loc[p].id] = loc[p].state /\ pc[p] = "commit" /\ Out(p).fireCount \in Fires
              /\ state' = [state EXCEPT ![loc[p].id] = Out(p)]
            BY <2>4 DEF Commit, Record, Out
        <3>2. loc[p].id \in Ids /\ loc[p].state.status = "pending"
            BY <1>1, <2>0, <3>1 DEF IInv, PollerInv, Types, LocRecords
        <3>3. Out(p).fireCount >= state[loc[p].id].fireCount
            BY <1>1, <3>1, Recorded DEF Fire
        <3>4. /\ state'[loc[p].id] = Out(p) /\ \A id \in Ids : id # loc[p].id => state'[id] = state[id]
            BY <2>0, <3>1, <3>2
        <3> QED
            BY <2>1, <3>1, <3>2, <3>3, <3>4
    <2>5. CASE MovePutState
        BY <2>0, <2>1, <2>5 DEF MovePutState, MoverInv
    <2>6. CASE MoveRetire
        <3>1. /\ \A id \in Ids : state'[id].fireCount = state[id].fireCount
              /\ \A id \in Ids : state'[id] = state[id] \/ state[id].status = "pending"
            BY <2>0, <2>6 DEF MoveRetire, MoverInv, States
        <3> QED
            BY <2>1, <3>1
    <2>7. ASSUME NEW i \in Ids, Lose(i) PROVE Ahead
        BY <2>0, <2>1, <2>7 DEF Lose
    <2>8. CASE UNCHANGED vars
        BY <2>2, <2>8 DEF vars, trigger
    <2>9. ASSUME NEW h \in Hosts, ScheduleWorkflow(h) PROVE Ahead
        BY <2>2, <2>3, <2>9 DEF ScheduleWorkflow, Boot, PutDef, GetState, FireCountAfterLoss, trigger
    <2>10. ASSUME NEW p \in Pollers, PollScheduler(p) \/ Crash(p) PROVE Ahead
        BY <2>2, <2>4, <2>10 DEF PollScheduler, PollStart, GetTrigger, Acquire, RunWorkflow, Release, Crash, trigger
    <2>11. CASE MoveTrigger \/ CrashMove
        BY <2>2, <2>5, <2>6, <2>11 DEF MoveTrigger, MoveRead, MovePutDef, CrashMove, trigger
    <2>12. CASE Tick
        BY <2>2, <2>12 DEF Tick, trigger
    <2>13. ASSUME NEW i \in Ids, NEW n \in Fires, Lapse(i, n) \/ LapseStalled(i, n) PROVE Ahead
        BY <2>2, <2>13 DEF Lapse, LapseStalled, trigger
    <2> HIDE DEF Ahead
    <2> QED
        BY <1>1, <2>7, <2>8, <2>9, <2>10, <2>11, <2>12, <2>13 DEF Next
<1>2. IInv /\ [Next]_vars => [Ahead]_vars
    BY <1>1
<1> QED
    BY <1>2, Invariance, PTL DEF Spec, NoRollback
=============================================================================
