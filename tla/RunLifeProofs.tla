---------------------------- MODULE RunLifeProofs ----------------------------
(***************************************************************************)
(* Proofs about the life of a run, for every plan and any sets of workers  *)
(* and operators: any number of attempts, unwinds, crashes and failures.   *)
(***************************************************************************)
EXTENDS RunLife, TLAPS

Labels == {"idle", "canceled?", "lock", "stamp", "read", "put", "model", "gate", "call", "tool", "tombstone?",
           "claim", "execute", "save", "fail", "unlock"}
OpLabels == {"idle", "condemn", "entry", "get", "claim", "hook", "compensated", "comp-failed"}
Statuses == {"none", "running", "completed", "failed", "canceled"}
Outcomes == [is : Statuses, at : Nat]
ToolRecords == {"none", "running", "succeeded", "failed"}
CompRecords == [is : {"none", "running", "stale", "compensated", "comp-failed"}, by : Operators \cup {"none"}]

Locals == [i : 1 .. plan.calls + 1, next : Statuses, at : Nat, raw : Outcomes, tries : 0 .. 2]
Works == [pc : OpLabels, at : 0 .. plan.calls, seen : [Calls -> ToolRecords], found : CompRecords]
Late == [steps : Nat, effects : Nat]

\* The types of the journal and the world ...
Shared ==
    /\ plan \in Plans /\ model \subseteq 1 .. plan.calls + 1 /\ tool \in [Calls -> ToolRecords]
    /\ canceled \in BOOLEAN /\ condemned \in BOOLEAN /\ outcome \in Outcomes /\ clock \in Nat
    /\ lock \in Workers \cup {"free"} /\ comp \in [Calls -> CompRecords]
    /\ effects \in [Calls -> Nat] /\ refunds \in [Calls -> Nat] /\ faults \in Nat

\* ... and of those who act.
Types ==
    /\ Shared
    /\ pc \in [Actors -> Labels] /\ loc \in [Actors -> Locals] /\ late \in [Actors -> Late]
    /\ op \in [Operators -> Works]

\* The verdict an actor is about to write is no older than the one it read, and time only passes.
VerdictInv(a) ==
    /\ loc[a].at <= clock
    /\ pc[a] = "put" => loc[a].raw.at <= loc[a].at /\ (loc[a].raw.is = "canceled" => loc[a].next # "running")

\* A worker that holds the run's lock, by its place.
InLoop(w) ==
    \/ pc[w] \in {"model", "gate", "call", "tool", "tombstone?", "claim", "execute", "save", "fail", "unlock"}
    \/ pc[w] \in {"stamp", "read", "put"} /\ loc[w].next \in {"running", "completed"}

\* A worker in the loop holds the lock, executes only what has not happened, and saves what has.
LoopInv(w) ==
    /\ InLoop(w) => lock = w
    /\ pc[w] \in {"tool", "tombstone?", "claim", "execute", "save", "fail"} => loc[w].i <= plan.calls
    /\ pc[w] \in {"execute", "save", "fail"} => tool[loc[w].i] # "none"
    /\ pc[w] = "execute" => effects[loc[w].i] = 0
    /\ pc[w] = "save" => effects[loc[w].i] > 0

\* A record says what has happened.
CallInv(i) ==
    /\ tool[i] = "none" => effects[i] = 0
    /\ tool[i] = "succeeded" => effects[i] > 0
    /\ effects[i] <= 1

\* Once it has been late, a worker is past the last gate.
LateInv(w) ==
    /\ late[w].steps <= 1 /\ (late[w].steps = 1 => canceled /\ pc[w] # "call")
    /\ late[w].effects <= 1 /\ (late[w].effects = 1 => condemned /\ pc[w] \notin {"claim", "execute"})

\* An operator refunds what has happened, and only after every later call it read as succeeded.
UnwindInv(o) ==
    /\ \A i \in Calls : op[o].seen[i] = "succeeded" => effects[i] > 0 /\ (op[o].pc # "idle" /\ i > op[o].at => refunds[i] > 0)
    /\ op[o].pc \in {"get", "claim", "hook", "compensated", "comp-failed"} => op[o].at > 0 /\ effects[op[o].at] > 0
    /\ op[o].pc = "compensated" => refunds[op[o].at] > 0

RefundInv(i) ==
    /\ refunds[i] > 0 => effects[i] > 0
    /\ comp[i].is = "compensated" => refunds[i] > 0

\* Without faults the comp record is a lock that only a hook slower than its claim breaks.
ClaimInv(i) ==
    i \notin outlived =>
       /\ comp[i].is \in {"none", "running", "compensated"} /\ refunds[i] <= 1
       /\ comp[i].is = "none" => comp[i] = NoComp /\ refunds[i] = 0
       /\ comp[i].is = "running" =>
             comp[i].by \in Operators /\ op[comp[i].by].pc \in {"hook", "compensated"} /\ op[comp[i].by].at = i

HolderInv(o) ==
    /\ op[o].pc # "comp-failed"
    /\ op[o].at \notin outlived =>
          /\ op[o].pc = "claim" => op[o].found = NoComp
          /\ op[o].pc \in {"hook", "compensated"} => comp[op[o].at] = [is |-> "running", by |-> o]
          /\ op[o].pc = "hook" => refunds[op[o].at] = 0

\* The inductive invariant.
IInv ==
    /\ Types
    /\ outcome.at <= clock /\ \A a \in Actors : VerdictInv(a)
    /\ \A w \in Workers : LoopInv(w) /\ LateInv(w)
    /\ \A i \in Calls : CallInv(i) /\ RefundInv(i)
    /\ \A o \in Operators : UnwindInv(o)
    /\ faults = 0 => (\A i \in Calls : ClaimInv(i)) /\ (\A o \in Operators : HolderInv(o))

-----------------------------------------------------------------------------
(* What the actors' steps do *)

\* The numbers of a plan.
LEMMA Numbers ==
    ASSUME Shared
    PROVE  /\ plan.calls \in Nat \ {0} /\ plan.faults \in Nat /\ Workers \subseteq Actors /\ Canceler \in Actors
           /\ Canceler \notin Workers /\ "free" \notin Workers /\ Calls = 1 .. plan.calls
BY RunLifeAssumption DEF Shared, Actors, Calls

\* An actor's local variables.
LEMMA Fields ==
    ASSUME Types, NEW a \in Actors
    PROVE  /\ loc[a] \in Locals /\ pc[a] \in Labels /\ late[a] \in Late
           /\ loc[a].i \in 1 .. plan.calls + 1 /\ loc[a].next \in Statuses /\ loc[a].at \in Nat /\ loc[a].raw \in Outcomes
           /\ loc[a].raw.at \in Nat /\ loc[a].tries \in 0 .. 2 /\ late[a].steps \in Nat /\ late[a].effects \in Nat
<1>1. loc[a] \in Locals /\ pc[a] \in Labels /\ late[a] \in Late
    BY DEF Types
<1>2. loc[a].i \in 1 .. plan.calls + 1 /\ loc[a].next \in Statuses /\ loc[a].at \in Nat /\ loc[a].raw \in Outcomes /\ loc[a].tries \in 0 .. 2
    BY <1>1 DEF Locals
<1> QED
    BY <1>1, <1>2 DEF Late, Outcomes

\* A turn of actor a: the types are kept, the operators are left alone, and so are the others.
Turn(a) ==
    /\ Types' /\ plan' = plan /\ UNCHANGED <<comp, op, refunds, outlived>>
    /\ \A b \in Actors : b # a => pc'[b] = pc[b] /\ loc'[b] = loc[b] /\ late'[b] = late[b]

\* An actor that moves.
LEMMA Moved ==
    ASSUME Types, NEW a \in Actors, NEW label \in Labels, NEW l \in Locals, NEW e \in Late,
           pc' = [pc EXCEPT ![a] = label], loc' = [loc EXCEPT ![a] = l], late' = [late EXCEPT ![a] = e],
           Shared', plan' = plan, UNCHANGED <<comp, op, refunds, outlived>>
    PROVE  Turn(a) /\ pc'[a] = label /\ loc'[a] = l /\ late'[a] = e
<1>1. pc \in [Actors -> Labels] /\ loc \in [Actors -> Locals] /\ late \in [Actors -> Late] /\ op \in [Operators -> Works]
    BY DEF Types
<1>2. Locals' = Locals /\ Works' = Works /\ Late' = Late /\ Actors' = Actors
    BY DEF Locals, Works, Late, Calls, Actors
<1>3. /\ pc' \in [Actors -> Labels] /\ loc' \in [Actors -> Locals] /\ late' \in [Actors -> Late] /\ op' \in [Operators -> Works]
      /\ pc'[a] = label /\ loc'[a] = l /\ late'[a] = e
      /\ \A b \in Actors : b # a => pc'[b] = pc[b] /\ loc'[b] = loc[b] /\ late'[b] = late[b]
    BY <1>1
<1>4. Types'
    BY <1>2, <1>3 DEF Types
<1> QED
    BY <1>3, <1>4 DEF Turn

\* An actor changes its place only.
LEMMA Went ==
    ASSUME Types, NEW a \in Actors, NEW label \in Labels, Go(a, label), UNCHANGED <<loc, late>>,
           Shared', plan' = plan, UNCHANGED <<comp, op, refunds, outlived>>
    PROVE  Turn(a) /\ pc'[a] = label /\ loc'[a] = loc[a] /\ late'[a] = late[a]
<1>1. /\ loc' = [loc EXCEPT ![a] = loc[a]] /\ pc' = [pc EXCEPT ![a] = label] /\ late' = [late EXCEPT ![a] = late[a]]
    BY DEF Types, Go
<1>2. loc[a] \in Locals /\ late[a] \in Late
    BY Fields
<1> QED
    BY <1>1, <1>2, Moved

\* An actor changes its place and its local variables.
LEMMA Set ==
    ASSUME Types, NEW a \in Actors, NEW label \in Labels, NEW l \in Locals, Go(a, label), loc' = [loc EXCEPT ![a] = l], UNCHANGED late,
           Shared', plan' = plan, UNCHANGED <<comp, op, refunds, outlived>>
    PROVE  Turn(a) /\ pc'[a] = label /\ loc'[a] = l /\ late'[a] = late[a]
<1>1. /\ pc' = [pc EXCEPT ![a] = label] /\ late' = [late EXCEPT ![a] = late[a]] /\ late[a] \in Late
    BY Fields DEF Types, Go
<1> QED
    BY <1>1, Moved

\* The empty locals.
LEMMA Empty ==
    ASSUME Shared
    PROVE  NoLocals \in Locals /\ NoLocals.i = 1 /\ NoLocals.at = 0 /\ NoLocals.next = "none" /\ NoOutcome.at = 0 /\ NoOutcome.is = "none"
<1>1. 1 \in 1 .. plan.calls + 1 /\ 0 \in 0 .. 2
    BY Numbers
<1>2. NoOutcome \in Outcomes /\ NoOutcome.at = 0 /\ NoOutcome.is = "none"
    BY DEF NoOutcome, Outcomes, Statuses
<1> QED
    BY <1>1, <1>2 DEF NoLocals, Locals, Statuses

\* A call returns.
LEMMA Returned ==
    ASSUME Types, NEW a \in Actors, Return(a), UNCHANGED late, Shared', plan' = plan, UNCHANGED <<comp, op, refunds, outlived>>
    PROVE  Turn(a) /\ pc'[a] = "idle" /\ loc'[a] = NoLocals /\ late'[a] = late[a]
<1>1. "idle" \in Labels /\ NoLocals \in Locals /\ Go(a, "idle") /\ loc' = [loc EXCEPT ![a] = NoLocals]
    BY Empty DEF Labels, Return, Types
<1> QED
    BY <1>1, Set

\* A step that writes nothing.
LEMMA Still ==
    ASSUME Types, UNCHANGED <<plan, model, tool, canceled, condemned, outcome, clock, lock, comp, effects, refunds, faults>>
    PROVE  Shared'
BY DEF Types, Shared, Calls

\* A fault is counted.
LEMMA Counted ==
    ASSUME Types, Fault
    PROVE  faults' \in Nat /\ faults' = faults + 1 /\ faults <= faults' /\ faults' # 0
<1>1. faults \in Nat
    BY DEF Types, Shared
<1> QED
    BY <1>1 DEF Fault

\* What an actor does next once its outcome is recorded.
Ended(a) ==
    \/ loc[a].next = "running" /\ pc'[a] = "model" /\ loc'[a] = loc[a]
    \/ loc[a].next = "completed" /\ pc'[a] = "unlock" /\ loc'[a] = NoLocals
    \/ loc[a].next \notin {"running", "completed"} /\ pc'[a] = "idle" /\ loc'[a] = NoLocals

\* The outcome is recorded.
LEMMA RecordedDoes ==
    ASSUME Types, NEW a \in Actors, Recorded(a), UNCHANGED late, Shared', plan' = plan, UNCHANGED <<comp, op, refunds, outlived>>
    PROVE  Turn(a) /\ late'[a] = late[a] /\ Ended(a)
<1>1. "model" \in Labels /\ "unlock" \in Labels /\ NoLocals \in Locals
    BY Empty DEF Labels, Types
<1>2. CASE loc[a].next = "running"
    BY <1>1, <1>2, Went DEF Recorded, Ended
<1>3. CASE loc[a].next = "completed"
    BY <1>1, <1>3, Set DEF Recorded, Ended
<1>4. CASE loc[a].next \notin {"running", "completed"}
    BY <1>4, Returned DEF Recorded, Ended
<1> QED
    BY <1>2, <1>3, <1>4

\* recordRunOutcome takes its time stamp.
LEMMA StampDoes ==
    ASSUME Types, NEW a \in Actors, Stamp(a)
    PROVE  /\ Turn(a) /\ pc[a] = "stamp" /\ pc'[a] = "read" /\ late'[a] = late[a]
           /\ loc'[a].i = loc[a].i /\ loc'[a].next = loc[a].next /\ loc'[a].at = clock' /\ clock <= clock'
           /\ UNCHANGED <<model, tool, canceled, condemned, outcome, lock, effects, faults>>
<1>1. PICK t \in {clock, clock + 1} : clock' = t /\ loc' = [loc EXCEPT ![a].at = t]
    BY DEF Stamp
<1>2. t \in Nat /\ clock <= t /\ clock \in Nat
    BY <1>1 DEF Types, Shared
<1>3. /\ UNCHANGED <<plan, model, tool, canceled, condemned, outcome, lock, comp, op, effects, refunds, faults, late, outlived>>
      /\ pc[a] = "stamp" /\ Go(a, "read") /\ "read" \in Labels
    BY DEF Stamp, journal, world, bounds, Labels
<1>4. Shared'
    BY <1>1, <1>2, <1>3 DEF Types, Shared, Calls
<1> DEFINE l == [loc[a] EXCEPT !.at = t]
<1>5. l \in Locals /\ l.i = loc[a].i /\ l.next = loc[a].next /\ l.at = t
    BY <1>2, Fields DEF Locals
<1>6. loc' = [loc EXCEPT ![a] = l]
    BY <1>1
<1> HIDE DEF l
<1>7. Turn(a) /\ pc'[a] = "read" /\ loc'[a] = l /\ late'[a] = late[a]
    BY <1>3, <1>4, <1>5, <1>6, Set
<1> QED
    BY <1>1, <1>2, <1>3, <1>5, <1>7

\* It reads the verdict that stands.
LEMMA GetOutcomeDoes ==
    ASSUME Types, NEW a \in Actors, GetOutcome(a)
    PROVE  /\ Turn(a) /\ pc[a] = "read" /\ late'[a] = late[a]
           /\ UNCHANGED <<model, tool, canceled, condemned, outcome, clock, lock, effects, faults>>
           /\ \/ Ended(a)
              \/ /\ pc'[a] = "put" /\ ~Yields(a, outcome) /\ loc'[a].raw = outcome
                 /\ loc'[a].i = loc[a].i /\ loc'[a].next = loc[a].next /\ loc'[a].at = loc[a].at
<1>1. /\ UNCHANGED <<plan, model, tool, canceled, condemned, outcome, clock, lock, comp, op, effects, refunds, faults, late, outlived>>
      /\ pc[a] = "read" /\ "put" \in Labels /\ outcome \in Outcomes
    BY DEF GetOutcome, journal, world, bounds, Labels, Types, Shared
<1>2. Shared'
    BY <1>1, Still
<1>3. CASE Recorded(a)
    BY <1>1, <1>2, <1>3, RecordedDoes
<1>4. CASE ~Yields(a, outcome) /\ loc' = [loc EXCEPT ![a].raw = outcome] /\ Go(a, "put")
    <2> DEFINE l == [loc[a] EXCEPT !.raw = outcome]
    <2>1. l \in Locals /\ l.i = loc[a].i /\ l.next = loc[a].next /\ l.at = loc[a].at /\ l.raw = outcome
        BY <1>1, Fields DEF Locals
    <2>2. loc' = [loc EXCEPT ![a] = l]
        BY <1>4
    <2> HIDE DEF l
    <2>3. Turn(a) /\ pc'[a] = "put" /\ loc'[a] = l /\ late'[a] = late[a]
        BY <1>1, <1>2, <1>4, <2>1, <2>2, Set
    <2> QED
        BY <1>1, <1>4, <2>1, <2>3
<1> QED
    BY <1>3, <1>4 DEF GetOutcome

\* It replaces it, or lost the race.
LEMMA PutOutcomeDoes ==
    ASSUME Types, NEW a \in Actors, PutOutcome(a)
    PROVE  /\ Turn(a) /\ pc[a] = "put" /\ late'[a] = late[a]
           /\ UNCHANGED <<model, tool, canceled, condemned, clock, lock, effects, faults>>
           /\ \/ Ended(a)
              \/ pc'[a] = "read" /\ loc'[a].i = loc[a].i /\ loc'[a].next = loc[a].next /\ loc'[a].at = loc[a].at
           /\ \/ outcome' = outcome
              \/ outcome = loc[a].raw /\ outcome'.is = loc[a].next /\ outcome'.at = loc[a].at
<1>1. /\ UNCHANGED <<plan, model, tool, canceled, condemned, clock, lock, comp, op, effects, refunds, faults, late, outlived>>
      /\ pc[a] = "put" /\ "read" \in Labels
    BY DEF PutOutcome, world, bounds, Labels
<1>2. CASE outcome = loc[a].raw /\ outcome' = [is |-> loc[a].next, at |-> loc[a].at] /\ Recorded(a)
    <2>1. outcome' \in Outcomes /\ outcome'.is = loc[a].next /\ outcome'.at = loc[a].at
        BY <1>2, Fields DEF Outcomes
    <2>2. Shared'
        BY <1>1, <2>1 DEF Types, Shared, Calls
    <2> QED
        BY <1>1, <1>2, <2>1, <2>2, RecordedDoes
<1>3. CASE UNCHANGED outcome /\ Recorded(a)
    <2>1. Shared'
        BY <1>1, <1>3, Still
    <2> QED
        BY <1>1, <1>3, <2>1, RecordedDoes
<1>4. CASE UNCHANGED outcome /\ loc[a].tries < 2 /\ loc' = [loc EXCEPT ![a].tries = @ + 1] /\ Go(a, "read")
    <2> DEFINE l == [loc[a] EXCEPT !.tries = loc[a].tries + 1]
    <2>1. loc[a] \in Locals /\ loc[a].tries + 1 \in 0 .. 2
        BY <1>4, Fields
    <2>2. l \in Locals /\ l.i = loc[a].i /\ l.next = loc[a].next /\ l.at = loc[a].at
        BY <2>1 DEF Locals
    <2>3. loc' = [loc EXCEPT ![a] = l]
        BY <1>4, <2>1 DEF Locals, Types
    <2> HIDE DEF l
    <2>4. Shared'
        BY <1>1, <1>4, Still
    <2>5. Turn(a) /\ pc'[a] = "read" /\ loc'[a] = l /\ late'[a] = late[a]
        BY <1>1, <1>4, <2>2, <2>3, <2>4, Set
    <2> QED
        BY <1>1, <1>4, <2>2, <2>5
<1> QED
    BY <1>2, <1>3, <1>4 DEF PutOutcome

\* Admission, the gates and the replays write nothing.
LEMMA QuietDoes ==
    ASSUME Types, NEW w \in Workers, LoopInv(w),
           Enter(w) \/ AssertNotCanceled(w) \/ ModelStep(w) \/ CancelGate(w) \/ GetTool(w) \/ CompensationGate(w)
    PROVE  /\ Turn(w) /\ late'[w] = late[w] /\ loc'[w].at = loc[w].at
           /\ UNCHANGED <<model, tool, canceled, condemned, outcome, clock, lock, effects, faults>>
           /\ \/ pc[w] \in {"idle", "canceled?"} /\ pc'[w] \in {"idle", "canceled?", "lock"}
              \/ pc[w] = "model" /\ pc'[w] = "gate"
              \/ pc[w] = "model" /\ pc'[w] = "tool" /\ loc'[w] = loc[w] /\ loc[w].i <= plan.calls
              \/ pc[w] = "model" /\ pc'[w] = "stamp" /\ loc'[w].next = "completed"
              \/ pc[w] = "gate" /\ (pc'[w] = "unlock" \/ (pc'[w] = "call" /\ ~canceled))
              \/ pc[w] = "tool" /\ pc'[w] = "model"
              \/ pc[w] = "tool" /\ pc'[w] = "tombstone?" /\ loc'[w] = loc[w]
              \/ pc[w] = "tombstone?" /\ loc'[w] = loc[w] /\ (pc'[w] = "unlock" \/ (pc'[w] = "claim" /\ ~condemned))
<1>1. w \in Actors /\ loc[w] \in Locals /\ loc \in [Actors -> Locals] /\ loc[w].i \in 1 .. plan.calls + 1 /\ plan.calls \in Nat
    BY Numbers, Fields DEF Types
<1>2. UNCHANGED <<plan, model, tool, canceled, condemned, outcome, clock, lock, comp, op, effects, refunds, faults, late, outlived>>
    BY DEF Enter, AssertNotCanceled, ModelStep, CancelGate, GetTool, CompensationGate, journal, world, bounds
<1>3. Shared'
    BY <1>2, Still
<1>4. ASSUME NEW label \in Labels, Go(w, label), UNCHANGED loc
      PROVE  Turn(w) /\ pc'[w] = label /\ loc'[w] = loc[w] /\ late'[w] = late[w]
    BY <1>1, <1>2, <1>3, <1>4, Went
<1>5. /\ "idle" \in Labels /\ "canceled?" \in Labels /\ "lock" \in Labels /\ "gate" \in Labels /\ "tool" \in Labels /\ "stamp" \in Labels
      /\ "unlock" \in Labels /\ "call" \in Labels /\ "model" \in Labels /\ "tombstone?" \in Labels /\ "claim" \in Labels
    BY DEF Labels
<1>6. CASE Enter(w) \/ AssertNotCanceled(w)
    BY <1>2, <1>4, <1>5, <1>6 DEF Enter, AssertNotCanceled
<1>7. CASE ModelStep(w)
    <2>1. CASE Go(w, "gate") /\ UNCHANGED loc
        BY <1>2, <1>4, <1>5, <1>7, <2>1 DEF ModelStep
    <2>2. CASE loc[w].i <= plan.calls /\ Go(w, "tool") /\ UNCHANGED loc
        BY <1>2, <1>4, <1>5, <1>7, <2>2 DEF ModelStep
    <2>3. CASE Record(w, "completed")
        <3> DEFINE l == [loc[w] EXCEPT !.next = "completed"]
        <3>1. l \in Locals /\ l.next = "completed" /\ l.at = loc[w].at
            BY <1>1 DEF Locals, Statuses
        <3>2. loc' = [loc EXCEPT ![w] = l] /\ Go(w, "stamp")
            BY <2>3 DEF Record
        <3> HIDE DEF l
        <3>3. Turn(w) /\ pc'[w] = "stamp" /\ loc'[w] = l /\ late'[w] = late[w]
            BY <1>1, <1>2, <1>3, <1>5, <3>1, <3>2, Set
        <3> QED
            BY <1>2, <1>7, <3>1, <3>3 DEF ModelStep
    <2> QED
        BY <1>7, <2>1, <2>2, <2>3 DEF ModelStep
<1>8. CASE CancelGate(w)
    BY <1>2, <1>4, <1>5, <1>8 DEF CancelGate
<1>9. CASE GetTool(w)
    <2>1. CASE Go(w, "tombstone?") /\ UNCHANGED loc
        BY <1>2, <1>4, <1>5, <1>9, <2>1 DEF GetTool
    <2>2. CASE loc' = [loc EXCEPT ![w].i = @ + 1] /\ Go(w, "model")
        <3> DEFINE l == [loc[w] EXCEPT !.i = loc[w].i + 1]
        <3>1. pc[w] = "tool" /\ loc[w].i + 1 \in 1 .. plan.calls + 1
            BY <1>1, <1>9 DEF GetTool, LoopInv
        <3>2. l \in Locals /\ l.at = loc[w].at
            BY <1>1, <3>1 DEF Locals
        <3>3. loc' = [loc EXCEPT ![w] = l]
            BY <1>1, <2>2 DEF Locals
        <3> HIDE DEF l
        <3>4. Turn(w) /\ pc'[w] = "model" /\ loc'[w] = l /\ late'[w] = late[w]
            BY <1>1, <1>2, <1>3, <1>5, <2>2, <3>2, <3>3, Set
        <3> QED
            BY <1>2, <3>1, <3>2, <3>4
    <2> QED
        BY <1>9, <2>1, <2>2 DEF GetTool
<1>10. CASE CompensationGate(w)
    BY <1>2, <1>4, <1>5, <1>10 DEF CompensationGate
<1> QED
    BY <1>6, <1>7, <1>8, <1>9, <1>10

\* The lock is taken, or another has it.
LEMMA AcquireDoes ==
    ASSUME Types, NEW w \in Workers, AcquireLock(w)
    PROVE  /\ Turn(w) /\ late'[w] = late[w] /\ pc[w] = "lock"
           /\ UNCHANGED <<model, tool, canceled, condemned, outcome, clock, effects, faults>>
           /\ \/ lock = "free" /\ lock' = w /\ pc'[w] = "stamp" /\ loc'[w].at = loc[w].at
              \/ UNCHANGED lock /\ pc'[w] = "idle" /\ loc'[w] = NoLocals
<1>1. /\ UNCHANGED <<plan, model, tool, canceled, condemned, outcome, clock, comp, op, effects, refunds, faults, late, outlived>>
      /\ pc[w] = "lock" /\ "stamp" \in Labels /\ w \in Actors /\ loc[w] \in Locals
    BY Numbers, Fields DEF AcquireLock, journal, world, bounds, Labels, Types
<1>2. CASE lock = "free" /\ lock' = w /\ Record(w, "running")
    <2> DEFINE l == [loc[w] EXCEPT !.next = "running"]
    <2>1. l \in Locals /\ l.at = loc[w].at
        BY <1>1 DEF Locals, Statuses
    <2>2. loc' = [loc EXCEPT ![w] = l] /\ Go(w, "stamp")
        BY <1>2 DEF Record
    <2>3. Shared'
        BY <1>1, <1>2 DEF Types, Shared, Calls
    <2> HIDE DEF l
    <2>4. Turn(w) /\ pc'[w] = "stamp" /\ loc'[w] = l /\ late'[w] = late[w]
        BY <1>1, <2>1, <2>2, <2>3, Set
    <2> QED
        BY <1>1, <1>2, <2>1, <2>4
<1>3. CASE UNCHANGED lock /\ Return(w)
    <2>1. Shared'
        BY <1>1, <1>3, Still
    <2> QED
        BY <1>1, <1>3, <2>1, Returned
<1> QED
    BY <1>2, <1>3 DEF AcquireLock

\* The lock is released.
LEMMA ReleaseDoes ==
    ASSUME Types, NEW w \in Workers, Release(w)
    PROVE  /\ Turn(w) /\ late'[w] = late[w] /\ pc[w] = "unlock"
           /\ UNCHANGED <<model, tool, canceled, condemned, outcome, clock, effects, faults>>
           /\ \/ pc'[w] = "stamp" /\ loc'[w].next = "failed" /\ loc'[w].at = loc[w].at
              \/ pc'[w] = "idle" /\ loc'[w] = NoLocals
<1>1. /\ UNCHANGED <<plan, model, tool, canceled, condemned, outcome, clock, comp, op, effects, refunds, faults, late, outlived>>
      /\ pc[w] = "unlock" /\ "stamp" \in Labels /\ w \in Actors /\ loc[w] \in Locals
      /\ lock' \in Workers \cup {"free"}
    BY Numbers, Fields DEF Release, journal, world, bounds, Labels, Types, Shared
<1>2. Shared'
    BY <1>1 DEF Types, Shared, Calls
<1>3. CASE Record(w, "failed")
    <2> DEFINE l == [loc[w] EXCEPT !.next = "failed"]
    <2>1. l \in Locals /\ l.at = loc[w].at /\ l.next = "failed"
        BY <1>1 DEF Locals, Statuses
    <2>2. loc' = [loc EXCEPT ![w] = l] /\ Go(w, "stamp")
        BY <1>3 DEF Record
    <2> HIDE DEF l
    <2>4. Turn(w) /\ pc'[w] = "stamp" /\ loc'[w] = l /\ late'[w] = late[w]
        BY <1>1, <1>2, <2>1, <2>2, Set
    <2> QED
        BY <1>1, <2>1, <2>4
<1>4. CASE Return(w)
    BY <1>1, <1>2, <1>4, Returned
<1> QED
    BY <1>3, <1>4 DEF Release

\* The model is called.
LEMMA CallModelDoes ==
    ASSUME Types, NEW w \in Workers, CallModel(w)
    PROVE  /\ Turn(w) /\ pc[w] = "call" /\ pc'[w] \in {"model", "unlock"} /\ loc'[w].at = loc[w].at
           /\ UNCHANGED <<tool, canceled, condemned, outcome, clock, lock, effects>> /\ faults <= faults'
           /\ late'[w].effects = late[w].effects /\ late'[w].steps = (IF canceled THEN late[w].steps + 1 ELSE late[w].steps)
<1>1. /\ UNCHANGED <<plan, tool, canceled, condemned, outcome, clock, lock, comp, op, effects, refunds, outlived>>
      /\ pc[w] = "call" /\ "model" \in Labels /\ "unlock" \in Labels /\ w \in Actors
      /\ loc[w] \in Locals /\ late[w] \in Late /\ loc[w].i \in 1 .. plan.calls + 1 /\ late[w].steps \in Nat /\ faults \in Nat
    BY Numbers, Fields DEF CallModel, world, Labels, Types, Shared
<1> DEFINE n == IF canceled THEN late[w].steps + 1 ELSE late[w].steps
           e == [late[w] EXCEPT !.steps = n]
<1>2. n \in Nat
    BY <1>1
<1>3. late' = [late EXCEPT ![w] = e]
    BY <1>1 DEF CallModel, Types, Late
<1> HIDE DEF n
<1>4. e \in Late /\ e.steps = n /\ e.effects = late[w].effects
    BY <1>1, <1>2 DEF Late
<1> HIDE DEF e
<1>5. CASE model' = model \cup {loc[w].i} /\ Go(w, "model") /\ UNCHANGED <<loc, faults>>
    <2>1. Shared'
        BY <1>1, <1>5 DEF Types, Shared, Calls
    <2>2. loc' = [loc EXCEPT ![w] = loc[w]] /\ pc' = [pc EXCEPT ![w] = "model"]
        BY <1>5 DEF Types, Go
    <2>3. Turn(w) /\ pc'[w] = "model" /\ loc'[w] = loc[w] /\ late'[w] = e
        BY <1>1, <1>3, <1>4, <2>1, <2>2, Moved
    <2> QED
        BY <1>1, <1>4, <1>5, <2>3 DEF n
<1>6. CASE Fault /\ loc' = [loc EXCEPT ![w].next = "failed"] /\ Go(w, "unlock") /\ UNCHANGED model
    <2> DEFINE l == [loc[w] EXCEPT !.next = "failed"]
    <2>1. faults' \in Nat /\ faults <= faults'
        BY <1>6, Counted
    <2>2. Shared'
        BY <1>1, <1>6, <2>1 DEF Types, Shared, Calls
    <2>3. l \in Locals /\ l.at = loc[w].at
        BY <1>1 DEF Locals, Statuses
    <2>4. loc' = [loc EXCEPT ![w] = l] /\ pc' = [pc EXCEPT ![w] = "unlock"]
        BY <1>6 DEF Go
    <2> HIDE DEF l
    <2>5. Turn(w) /\ pc'[w] = "unlock" /\ loc'[w] = l /\ late'[w] = e
        BY <1>1, <1>3, <1>4, <2>2, <2>3, <2>4, Moved
    <2> QED
        BY <1>1, <1>4, <2>1, <2>3, <2>5 DEF n
<1> QED
    BY <1>5, <1>6 DEF CallModel

\* The call is claimed.
LEMMA ClaimToolDoes ==
    ASSUME Types, NEW w \in Workers, LoopInv(w), ClaimTool(w)
    PROVE  /\ Turn(w) /\ pc[w] = "claim" /\ loc'[w] = loc[w] /\ late'[w] = late[w] /\ loc[w].i \in Calls
           /\ UNCHANGED <<canceled, condemned, outcome, clock, lock, effects, faults>>
           /\ tool' = [tool EXCEPT ![loc[w].i] = "running"]
           /\ pc'[w] = (IF tool[loc[w].i] # "none" /\ effects[loc[w].i] > 0 THEN "save" ELSE "execute")
<1>1. /\ UNCHANGED <<plan, model, canceled, condemned, outcome, clock, lock, comp, op, effects, refunds, faults, loc, late, outlived>>
      /\ pc[w] = "claim" /\ "save" \in Labels /\ "execute" \in Labels /\ w \in Actors
      /\ tool' = [tool EXCEPT ![loc[w].i] = "running"] /\ loc[w].i \in 1 .. plan.calls + 1 /\ plan.calls \in Nat
    BY Numbers, Fields DEF ClaimTool, world, bounds, Labels, Types
<1>2. loc[w].i \in Calls
    BY <1>1 DEF LoopInv, Calls
<1>3. tool' \in [Calls -> ToolRecords]
    BY <1>1 DEF Types, Shared, ToolRecords
<1>4. Shared'
    BY <1>1, <1>3 DEF Types, Shared, Calls
<1>5. PICK label \in Labels : Go(w, label) /\ label = (IF tool[loc[w].i] # "none" /\ effects[loc[w].i] > 0 THEN "save" ELSE "execute")
    BY <1>1 DEF ClaimTool
<1>6. Turn(w) /\ pc'[w] = label /\ loc'[w] = loc[w] /\ late'[w] = late[w]
    BY <1>1, <1>4, <1>5, Went
<1> QED
    BY <1>1, <1>2, <1>5, <1>6

\* The tool runs, and its effect happens or does not.
LEMMA ExecuteDoes ==
    ASSUME Types, NEW w \in Workers, LoopInv(w), Execute(w)
    PROVE  /\ Turn(w) /\ pc[w] = "execute" /\ loc'[w] = loc[w] /\ loc[w].i \in Calls
           /\ UNCHANGED <<tool, canceled, condemned, outcome, clock, lock>> /\ faults <= faults'
           /\ \/ /\ effects' = [effects EXCEPT ![loc[w].i] = effects[loc[w].i] + 1] /\ pc'[w] \in {"save", "fail"}
                 /\ late'[w].steps = late[w].steps
                 /\ late'[w].effects = (IF condemned THEN late[w].effects + 1 ELSE late[w].effects)
              \/ effects' = effects /\ pc'[w] = "fail" /\ late'[w] = late[w]
<1>1. /\ UNCHANGED <<plan, model, tool, canceled, condemned, outcome, clock, lock, comp, op, refunds, loc, outlived>>
      /\ pc[w] = "execute" /\ "save" \in Labels /\ "fail" \in Labels /\ w \in Actors /\ loc[w] \in Locals /\ late[w] \in Late
      /\ loc[w].i \in 1 .. plan.calls + 1 /\ plan.calls \in Nat /\ late[w].effects \in Nat /\ faults \in Nat
    BY Numbers, Fields DEF Execute, journal, Labels, Types, Shared
<1>2. loc[w].i \in Calls
    BY <1>1 DEF LoopInv, Calls
<1>3. loc' = [loc EXCEPT ![w] = loc[w]]
    BY <1>1 DEF Types
<1>4. faults' \in Nat /\ faults <= faults'
    BY <1>1, Counted DEF Execute
<1>5. CASE Happen(w) /\ (Go(w, "save") \/ Go(w, "fail"))
    <2> DEFINE n == IF condemned THEN late[w].effects + 1 ELSE late[w].effects
               e == [late[w] EXCEPT !.effects = n]
    <2>1. n \in Nat
        BY <1>1
    <2>2. late' = [late EXCEPT ![w] = e] /\ effects' = [effects EXCEPT ![loc[w].i] = effects[loc[w].i] + 1]
        BY <1>1, <1>2, <1>5 DEF Happen, Types, Late, Shared
    <2> HIDE DEF n
    <2>3. e \in Late /\ e.effects = n /\ e.steps = late[w].steps
        BY <1>1, <2>1 DEF Late
    <2> HIDE DEF e
    <2>4. effects' \in [Calls -> Nat]
        BY <1>2, <2>2 DEF Types, Shared
    <2>5. Shared'
        BY <1>1, <1>4, <2>4 DEF Types, Shared, Calls
    <2>6. PICK label \in {"save", "fail"} : pc' = [pc EXCEPT ![w] = label] /\ label \in Labels
        BY <1>1, <1>5 DEF Go
    <2>7. Turn(w) /\ pc'[w] = label /\ loc'[w] = loc[w] /\ late'[w] = e
        BY <1>1, <1>3, <2>2, <2>3, <2>5, <2>6, Moved
    <2> QED
        BY <1>1, <1>2, <1>4, <2>2, <2>3, <2>6, <2>7 DEF n
<1>6. CASE Go(w, "fail") /\ UNCHANGED <<effects, late>>
    <2>1. Shared'
        BY <1>1, <1>4, <1>6 DEF Types, Shared, Calls
    <2> QED
        BY <1>1, <1>2, <1>4, <1>6, <2>1, Went
<1> QED
    BY <1>5, <1>6 DEF Execute

\* Its outcome is saved.
LEMMA SaveToolDoes ==
    ASSUME Types, NEW w \in Workers, LoopInv(w), SaveTool(w)
    PROVE  /\ Turn(w) /\ pc[w] \in {"save", "fail"} /\ pc'[w] = "model" /\ late'[w] = late[w] /\ loc[w].i \in Calls /\ loc'[w].at = loc[w].at
           /\ UNCHANGED <<canceled, condemned, outcome, clock, lock, effects, faults>>
           /\ tool' = [tool EXCEPT ![loc[w].i] = IF pc[w] = "save" THEN "succeeded" ELSE "failed"]
<1>1. /\ UNCHANGED <<plan, model, canceled, condemned, outcome, clock, lock, comp, op, effects, refunds, faults, late, outlived>>
      /\ pc[w] \in {"save", "fail"} /\ "model" \in Labels /\ w \in Actors /\ loc[w] \in Locals /\ loc \in [Actors -> Locals]
      /\ tool' = [tool EXCEPT ![loc[w].i] = IF pc[w] = "save" THEN "succeeded" ELSE "failed"]
      /\ loc[w].i \in 1 .. plan.calls + 1 /\ plan.calls \in Nat /\ Go(w, "model") /\ loc' = [loc EXCEPT ![w].i = @ + 1]
    BY Numbers, Fields DEF SaveTool, world, bounds, Labels, Types
<1>2. loc[w].i \in Calls /\ loc[w].i + 1 \in 1 .. plan.calls + 1
    BY <1>1 DEF LoopInv, Calls
<1>3. tool' \in [Calls -> ToolRecords]
    BY <1>1 DEF Types, Shared, ToolRecords
<1>4. Shared'
    BY <1>1, <1>3 DEF Types, Shared, Calls
<1> DEFINE l == [loc[w] EXCEPT !.i = loc[w].i + 1]
<1>5. l \in Locals /\ l.at = loc[w].at
    BY <1>1, <1>2 DEF Locals
<1>6. loc' = [loc EXCEPT ![w] = l]
    BY <1>1 DEF Locals
<1> HIDE DEF l
<1>7. Turn(w) /\ pc'[w] = "model" /\ loc'[w] = l /\ late'[w] = late[w]
    BY <1>1, <1>4, <1>5, <1>6, Set
<1> QED
    BY <1>1, <1>2, <1>5, <1>7

\* A worker crashes.
LEMMA CrashDoes ==
    ASSUME Types, NEW w \in Workers, Crash(w)
    PROVE  /\ Turn(w) /\ pc'[w] = "idle" /\ loc'[w] = NoLocals /\ late'[w] = late[w] /\ faults <= faults'
           /\ UNCHANGED <<tool, canceled, condemned, outcome, clock, lock, effects>>
<1>1. /\ UNCHANGED <<plan, model, tool, canceled, condemned, outcome, clock, lock, comp, op, effects, refunds, late, outlived>>
      /\ Return(w) /\ w \in Actors /\ faults' \in Nat /\ faults <= faults'
    BY Numbers, Counted DEF Crash, journal, world, Types
<1>2. Shared'
    BY <1>1 DEF Types, Shared, Calls
<1> QED
    BY <1>1, <1>2, Returned

\* The cancellation sets the flag.
LEMMA CancelDoes ==
    ASSUME Types, Cancel
    PROVE  /\ Turn(Canceler) /\ pc'[Canceler] = "stamp" /\ loc'[Canceler].at = loc[Canceler].at
           /\ UNCHANGED <<tool, condemned, outcome, clock, lock, effects, faults>> /\ canceled'
<1>1. /\ UNCHANGED <<plan, model, tool, condemned, outcome, clock, lock, comp, op, effects, refunds, faults, late, outlived>>
      /\ canceled' = TRUE /\ Record(Canceler, "canceled") /\ Canceler \in Actors /\ loc[Canceler] \in Locals /\ "stamp" \in Labels
    BY Numbers, Fields DEF Cancel, world, bounds, Types, Labels
<1>2. Shared'
    BY <1>1 DEF Types, Shared, Calls
<1> DEFINE l == [loc[Canceler] EXCEPT !.next = "canceled"]
<1>3. l \in Locals /\ l.at = loc[Canceler].at
    BY <1>1 DEF Locals, Statuses
<1>4. loc' = [loc EXCEPT ![Canceler] = l] /\ Go(Canceler, "stamp")
    BY <1>1 DEF Record
<1> HIDE DEF l
<1>5. Turn(Canceler) /\ pc'[Canceler] = "stamp" /\ loc'[Canceler] = l
    BY <1>1, <1>2, <1>3, <1>4, Set
<1> QED
    BY <1>1, <1>3, <1>5

-----------------------------------------------------------------------------
(* An actor's turn keeps the invariant *)

\* What is left to show of a turn: the actor's own part, and that the others are outside the loop
\* when it writes what they depend on.
LEMMA ActorKeeps ==
    ASSUME IInv, NEW a \in Actors, Turn(a), clock <= clock', outcome'.at <= clock',
           canceled => canceled', condemned => condemned', faults <= faults', VerdictInv(a)',
           a \in Workers => LoopInv(a)' /\ LateInv(a)',
           \A i \in Calls : effects[i] <= effects'[i] /\ CallInv(i)',
           UNCHANGED <<tool, effects, lock>> \/ \A v \in Workers : v # a => ~InLoop(v)
    PROVE  IInv'
<1>1. Types /\ Types' /\ Workers \subseteq Actors /\ Calls' = Calls /\ plan' = plan /\ plan.calls \in Nat
    BY Numbers DEF IInv, Turn, Calls, Types
<1>2. \A b \in Actors : VerdictInv(b)'
    <2> SUFFICES ASSUME NEW b \in Actors, b # a PROVE VerdictInv(b)'
        OBVIOUS
    <2>1. pc'[b] = pc[b] /\ loc'[b] = loc[b] /\ VerdictInv(b) /\ loc[b].at \in Nat /\ clock \in Nat /\ clock' \in Nat
        BY <1>1, Fields DEF Turn, IInv, Types, Shared
    <2> QED
        BY <2>1 DEF VerdictInv
<1>3. \A w \in Workers : LoopInv(w)' /\ LateInv(w)'
    <2> SUFFICES ASSUME NEW w \in Workers, w # a PROVE LoopInv(w)' /\ LateInv(w)'
        OBVIOUS
    <2>1. pc'[w] = pc[w] /\ loc'[w] = loc[w] /\ late'[w] = late[w] /\ LoopInv(w) /\ LateInv(w)
        BY <1>1 DEF Turn, IInv
    <2>2. LateInv(w)'
        BY <2>1 DEF LateInv
    <2>3. LoopInv(w)'
        BY <1>1, <2>1 DEF LoopInv, InLoop
    <2> QED
        BY <2>2, <2>3
<1>4. \A i \in Calls : effects[i] \in Nat /\ effects'[i] \in Nat
    BY <1>1 DEF Types, Shared
<1>5. \A i \in Calls : RefundInv(i)'
    BY <1>1, <1>4 DEF RefundInv, IInv, Turn
<1>6. \A o \in Operators : UnwindInv(o)'
    <2> SUFFICES ASSUME NEW o \in Operators PROVE UnwindInv(o)'
        OBVIOUS
    <2>1. UnwindInv(o) /\ op[o].at \in 0 .. plan.calls /\ UNCHANGED <<op, refunds>>
        BY <1>1 DEF IInv, Types, Works, Turn
    <2>2. op[o].at > 0 => op[o].at \in Calls
        BY <1>1, <2>1 DEF Calls
    <2> QED
        BY <1>1, <1>4, <2>1, <2>2 DEF UnwindInv
<1>7. faults' = 0 => (\A i \in Calls : ClaimInv(i)') /\ (\A o \in Operators : HolderInv(o)')
    <2> SUFFICES ASSUME faults' = 0 PROVE (\A i \in Calls : ClaimInv(i)') /\ (\A o \in Operators : HolderInv(o)')
        OBVIOUS
    <2>1. faults = 0
        BY <1>1 DEF Types, Shared
    <2>2. UNCHANGED <<comp, op, refunds, outlived>>
        BY DEF Turn
    <2> QED
        BY <2>1, <2>2 DEF IInv, ClaimInv, HolderInv
<1> QED
    BY <1>1, <1>2, <1>3, <1>5, <1>6, <1>7 DEF IInv

\* A turn that writes neither calls nor the lock.
LEMMA QuietKeeps ==
    ASSUME IInv, NEW a \in Actors, Turn(a), UNCHANGED <<tool, effects, lock>>, clock <= clock', outcome'.at <= clock',
           canceled => canceled', condemned => condemned', faults <= faults', VerdictInv(a)',
           a \in Workers => LoopInv(a)' /\ LateInv(a)'
    PROVE  IInv'
<1>1. \A i \in Calls : effects[i] <= effects'[i] /\ CallInv(i)'
    BY DEF IInv, CallInv, Types, Shared
<1> QED
    BY <1>1, ActorKeeps

\* Whoever is in the loop is alone there.
LEMMA OneInLoop ==
    ASSUME IInv, NEW w \in Workers, InLoop(w)
    PROVE  lock = w /\ \A v \in Workers : v # w => ~InLoop(v)
BY DEF IInv, LoopInv

\* Numbers of a turn that leaves the clock and the verdict alone.
LEMMA Quiet ==
    ASSUME IInv
    PROVE  /\ Types /\ clock \in Nat /\ clock <= clock /\ outcome.at <= clock /\ faults \in Nat /\ faults <= faults
           /\ \A a \in Actors : VerdictInv(a)
           /\ \A w \in Workers : LoopInv(w) /\ LateInv(w) /\ w \in Actors
BY Numbers DEF IInv, Types, Shared

\* The end of an outcome's recording keeps an actor's own part.
LEMMA EndedKeeps ==
    ASSUME IInv, NEW a \in Actors, Turn(a), Ended(a), pc[a] \in {"read", "put"}, late'[a] = late[a],
           UNCHANGED <<tool, canceled, condemned, clock, lock, effects>>
    PROVE  VerdictInv(a)' /\ (a \in Workers => LoopInv(a)' /\ LateInv(a)')
<1>1. Types /\ clock \in Nat /\ NoLocals.at = 0 /\ plan' = plan /\ VerdictInv(a)
    BY Quiet, Empty DEF Types, Turn
<1>2. VerdictInv(a)'
    BY <1>1 DEF VerdictInv, Ended
<1>3. ASSUME a \in Workers PROVE LoopInv(a)' /\ LateInv(a)'
    <2>1. LoopInv(a) /\ LateInv(a)
        BY <1>3, Quiet
    <2>2. LateInv(a)'
        BY <2>1 DEF LateInv, Ended
    <2>3. LoopInv(a)'
        BY <2>1 DEF LoopInv, InLoop, Ended
    <2> QED
        BY <2>2, <2>3
<1> QED
    BY <1>2, <1>3

\* recordRunOutcome.
LEMMA RecordRunOutcomeKeeps ==
    ASSUME IInv, NEW a \in Actors, RecordRunOutcome(a)
    PROVE  IInv' /\ outcome'.at >= outcome.at /\ (outcome.is = "canceled" => outcome'.is # "running")
<1>1. Types /\ clock \in Nat /\ outcome.at <= clock /\ faults \in Nat /\ VerdictInv(a) /\ loc[a].at \in Nat /\ outcome.at \in Nat
    BY Quiet, Fields DEF Types, Shared, Outcomes
<1>2. CASE Stamp(a)
    <2>1. /\ Turn(a) /\ pc[a] = "stamp" /\ pc'[a] = "read" /\ late'[a] = late[a]
          /\ loc'[a].i = loc[a].i /\ loc'[a].next = loc[a].next /\ loc'[a].at = clock' /\ clock <= clock'
          /\ UNCHANGED <<model, tool, canceled, condemned, outcome, lock, effects, faults>>
        BY <1>1, <1>2, StampDoes
    <2>2. clock' \in Nat /\ plan' = plan
        BY <2>1 DEF Turn, Types, Shared
    <2>3. VerdictInv(a)'
        BY <2>1, <2>2 DEF VerdictInv
    <2>4. a \in Workers => LoopInv(a)' /\ LateInv(a)'
        BY <2>1, <2>2, Quiet DEF LoopInv, LateInv, InLoop
    <2>5. outcome'.at <= clock' /\ faults <= faults'
        BY <1>1, <2>1, <2>2
    <2>6. IInv'
        BY <2>1, <2>3, <2>4, <2>5, QuietKeeps
    <2> QED
        BY <1>1, <2>1, <2>6
<1>3. CASE GetOutcome(a)
    <2>1. /\ Turn(a) /\ pc[a] = "read" /\ late'[a] = late[a]
          /\ UNCHANGED <<model, tool, canceled, condemned, outcome, clock, lock, effects, faults>>
          /\ \/ Ended(a)
             \/ /\ pc'[a] = "put" /\ ~Yields(a, outcome) /\ loc'[a].raw = outcome
                /\ loc'[a].i = loc[a].i /\ loc'[a].next = loc[a].next /\ loc'[a].at = loc[a].at
        BY <1>1, <1>3, GetOutcomeDoes
    <2>2. outcome'.at <= clock' /\ faults <= faults' /\ clock <= clock' /\ plan' = plan
        BY <1>1, <2>1 DEF Turn
    <2>3. VerdictInv(a)' /\ (a \in Workers => LoopInv(a)' /\ LateInv(a)')
        <3>1. CASE Ended(a)
            BY <2>1, <3>1, EndedKeeps
        <3>2. CASE /\ pc'[a] = "put" /\ ~Yields(a, outcome) /\ loc'[a].raw = outcome
                   /\ loc'[a].i = loc[a].i /\ loc'[a].next = loc[a].next /\ loc'[a].at = loc[a].at
            <4>1. outcome.at <= loc[a].at /\ (outcome.is = "canceled" => loc[a].next # "running")
                <5>1. CASE outcome = NoOutcome
                    BY <1>1, <5>1 DEF NoOutcome
                <5>2. CASE outcome # NoOutcome
                    BY <1>1, <3>2, <5>2 DEF Yields
                <5> QED
                    BY <5>1, <5>2
            <4>2. VerdictInv(a)'
                BY <1>1, <2>1, <3>2, <4>1 DEF VerdictInv
            <4>3. a \in Workers => LoopInv(a)' /\ LateInv(a)'
                BY <2>1, <2>2, <3>2, Quiet DEF LoopInv, LateInv, InLoop
            <4> QED
                BY <4>2, <4>3
        <3> QED
            BY <2>1, <3>1, <3>2
    <2>4. IInv'
        BY <2>1, <2>2, <2>3, QuietKeeps
    <2> QED
        BY <1>1, <2>1, <2>4
<1>4. CASE PutOutcome(a)
    <2>1. /\ Turn(a) /\ pc[a] = "put" /\ late'[a] = late[a]
          /\ UNCHANGED <<model, tool, canceled, condemned, clock, lock, effects, faults>>
          /\ \/ Ended(a)
             \/ pc'[a] = "read" /\ loc'[a].i = loc[a].i /\ loc'[a].next = loc[a].next /\ loc'[a].at = loc[a].at
          /\ \/ outcome' = outcome
             \/ outcome = loc[a].raw /\ outcome'.is = loc[a].next /\ outcome'.at = loc[a].at
        BY <1>1, <1>4, PutOutcomeDoes
    <2>2. faults <= faults' /\ clock <= clock' /\ plan' = plan
        BY <1>1, <2>1 DEF Turn
    <2>3. outcome'.at <= clock' /\ outcome'.at >= outcome.at /\ (outcome.is = "canceled" => outcome'.is # "running")
        BY <1>1, <2>1 DEF VerdictInv
    <2>4. VerdictInv(a)' /\ (a \in Workers => LoopInv(a)' /\ LateInv(a)')
        <3>1. CASE Ended(a)
            BY <2>1, <3>1, EndedKeeps
        <3>2. CASE pc'[a] = "read" /\ loc'[a].i = loc[a].i /\ loc'[a].next = loc[a].next /\ loc'[a].at = loc[a].at
            BY <1>1, <2>1, <2>2, <3>2, Quiet DEF VerdictInv, LoopInv, LateInv, InLoop
        <3> QED
            BY <2>1, <3>1, <3>2
    <2> QED
        BY <2>1, <2>2, <2>3, <2>4, QuietKeeps
<1> QED
    BY <1>2, <1>3, <1>4 DEF RecordRunOutcome

\* A worker's steps that leave the calls, the lock and the verdict alone.
LEMMA WorkerQuiet ==
    ASSUME IInv, NEW w \in Workers, Turn(w), UNCHANGED <<tool, canceled, condemned, outcome, clock, lock, effects>>, faults <= faults',
           loc'[w].at <= clock, pc'[w] # "put", LoopInv(w)', LateInv(w)'
    PROVE  IInv' /\ outcome' = outcome
<1>1. /\ Types /\ clock \in Nat /\ outcome.at <= clock /\ faults \in Nat /\ w \in Actors
    BY Quiet
<1>2. VerdictInv(w)'
    BY DEF VerdictInv
<1> QED
    BY <1>1, <1>2, QuietKeeps

\* Admission, gates and replays.
LEMMA QuietStepKeeps ==
    ASSUME IInv, NEW w \in Workers,
           Enter(w) \/ AssertNotCanceled(w) \/ ModelStep(w) \/ CancelGate(w) \/ GetTool(w) \/ CompensationGate(w)
    PROVE  IInv' /\ outcome' = outcome
<1>1. Types /\ LoopInv(w) /\ LateInv(w) /\ VerdictInv(w) /\ faults \in Nat /\ w \in Actors
    BY Quiet
<1>2. /\ Turn(w) /\ late'[w] = late[w] /\ loc'[w].at = loc[w].at
      /\ UNCHANGED <<model, tool, canceled, condemned, outcome, clock, lock, effects, faults>>
      /\ \/ pc[w] \in {"idle", "canceled?"} /\ pc'[w] \in {"idle", "canceled?", "lock"}
         \/ pc[w] = "model" /\ pc'[w] = "gate"
         \/ pc[w] = "model" /\ pc'[w] = "tool" /\ loc'[w] = loc[w] /\ loc[w].i <= plan.calls
         \/ pc[w] = "model" /\ pc'[w] = "stamp" /\ loc'[w].next = "completed"
         \/ pc[w] = "gate" /\ (pc'[w] = "unlock" \/ (pc'[w] = "call" /\ ~canceled))
         \/ pc[w] = "tool" /\ pc'[w] = "model"
         \/ pc[w] = "tool" /\ pc'[w] = "tombstone?" /\ loc'[w] = loc[w]
         \/ pc[w] = "tombstone?" /\ loc'[w] = loc[w] /\ (pc'[w] = "unlock" \/ (pc'[w] = "claim" /\ ~condemned))
    BY <1>1, QuietDoes
<1>3. plan' = plan
    BY <1>2 DEF Turn
<1>4. LoopInv(w)'
    BY <1>1, <1>2, <1>3 DEF LoopInv, InLoop
<1>5. LateInv(w)'
    BY <1>1, <1>2 DEF LateInv
<1>6. loc'[w].at <= clock /\ pc'[w] # "put" /\ faults <= faults'
    BY <1>1, <1>2 DEF VerdictInv
<1> QED
    BY <1>2, <1>4, <1>5, <1>6, WorkerQuiet

\* The lock is taken, and nobody is in the loop.
LEMMA AcquireKeeps ==
    ASSUME IInv, NEW w \in Workers, AcquireLock(w)
    PROVE  IInv' /\ outcome' = outcome
<1>1. Types /\ LoopInv(w) /\ LateInv(w) /\ VerdictInv(w) /\ faults \in Nat /\ w \in Actors /\ clock \in Nat /\ outcome.at <= clock
    BY Quiet
<1>2. /\ Turn(w) /\ late'[w] = late[w] /\ pc[w] = "lock"
      /\ UNCHANGED <<model, tool, canceled, condemned, outcome, clock, effects, faults>>
      /\ \/ lock = "free" /\ lock' = w /\ pc'[w] = "stamp" /\ loc'[w].at = loc[w].at
         \/ UNCHANGED lock /\ pc'[w] = "idle" /\ loc'[w] = NoLocals
    BY <1>1, AcquireDoes
<1>3. LateInv(w)' /\ LoopInv(w)'
    BY <1>1, <1>2 DEF LateInv, LoopInv, InLoop
<1>4. CASE lock = "free" /\ lock' = w /\ pc'[w] = "stamp" /\ loc'[w].at = loc[w].at
    <2>1. \A v \in Workers : v # w => ~InLoop(v)
        BY <1>1, <1>4, Numbers DEF IInv, LoopInv, Types
    <2>2. VerdictInv(w)'
        BY <1>1, <1>2, <1>4 DEF VerdictInv
    <2>3. \A i \in Calls : effects[i] <= effects'[i] /\ CallInv(i)'
        BY <1>2 DEF IInv, CallInv, Types, Shared
    <2> QED
        BY <1>1, <1>2, <1>3, <2>1, <2>2, <2>3, ActorKeeps
<1>5. CASE UNCHANGED lock /\ pc'[w] = "idle" /\ loc'[w] = NoLocals
    <2>1. loc'[w].at <= clock /\ pc'[w] # "put" /\ faults <= faults'
        BY <1>1, <1>2, <1>5, Empty DEF Types
    <2> QED
        BY <1>2, <1>3, <1>5, <2>1, WorkerQuiet
<1> QED
    BY <1>2, <1>4, <1>5

\* The lock is released by its holder, who leaves the loop.
LEMMA ReleaseKeeps ==
    ASSUME IInv, NEW w \in Workers, Release(w)
    PROVE  IInv' /\ outcome' = outcome
<1>1. Types /\ LoopInv(w) /\ LateInv(w) /\ VerdictInv(w) /\ faults \in Nat /\ w \in Actors /\ clock \in Nat /\ outcome.at <= clock
    BY Quiet
<1>2. /\ Turn(w) /\ late'[w] = late[w] /\ pc[w] = "unlock"
      /\ UNCHANGED <<model, tool, canceled, condemned, outcome, clock, effects, faults>>
      /\ \/ pc'[w] = "stamp" /\ loc'[w].next = "failed" /\ loc'[w].at = loc[w].at
         \/ pc'[w] = "idle" /\ loc'[w] = NoLocals
    BY <1>1, ReleaseDoes
<1>3. LateInv(w)' /\ LoopInv(w)'
    BY <1>1, <1>2 DEF LateInv, LoopInv, InLoop
<1>4. \A v \in Workers : v # w => ~InLoop(v)
    BY <1>2, OneInLoop DEF InLoop
<1>5. VerdictInv(w)'
    BY <1>1, <1>2, Empty DEF VerdictInv, Types
<1>6. \A i \in Calls : effects[i] <= effects'[i] /\ CallInv(i)'
    BY <1>2 DEF IInv, CallInv, Types, Shared
<1> QED
    BY <1>1, <1>2, <1>3, <1>4, <1>5, <1>6, ActorKeeps

\* A model call after the flag is the last one: no gate lets the worker through again.
LEMMA CallModelKeeps ==
    ASSUME IInv, NEW w \in Workers, CallModel(w)
    PROVE  IInv' /\ outcome' = outcome
<1>1. Types /\ LoopInv(w) /\ LateInv(w) /\ VerdictInv(w) /\ w \in Actors
    BY Quiet
<1>2. /\ Turn(w) /\ pc[w] = "call" /\ pc'[w] \in {"model", "unlock"} /\ loc'[w].at = loc[w].at
      /\ UNCHANGED <<tool, canceled, condemned, outcome, clock, lock, effects>> /\ faults <= faults'
      /\ late'[w].effects = late[w].effects /\ late'[w].steps = (IF canceled THEN late[w].steps + 1 ELSE late[w].steps)
    BY <1>1, CallModelDoes
<1>3. LoopInv(w)'
    BY <1>1, <1>2 DEF LoopInv, InLoop
<1>4. late[w].steps \in Nat
    BY <1>1, Fields
<1>5. LateInv(w)'
    BY <1>1, <1>2, <1>4 DEF LateInv
<1>6. loc'[w].at <= clock /\ pc'[w] # "put"
    BY <1>1, <1>2 DEF VerdictInv
<1> QED
    BY <1>2, <1>3, <1>5, <1>6, WorkerQuiet

\* A worker that writes the record of its call, or makes its effect, is alone in the loop.
LEMMA CallKeeps ==
    ASSUME IInv, NEW w \in Workers, Turn(w), InLoop(w), LoopInv(w)', LateInv(w)', NEW k \in Calls, pc'[w] # "put",
           UNCHANGED <<canceled, condemned, outcome, clock, lock>>, faults <= faults', loc'[w].at = loc[w].at,
           \A i \in Calls : i # k => tool'[i] = tool[i] /\ effects'[i] = effects[i],
           effects[k] <= effects'[k], CallInv(k)'
    PROVE  IInv' /\ outcome' = outcome
<1>1. Types /\ VerdictInv(w) /\ w \in Actors /\ clock \in Nat /\ outcome.at <= clock
    BY Quiet
<1>2. VerdictInv(w)'
    BY <1>1 DEF VerdictInv
<1>3. \A v \in Workers : v # w => ~InLoop(v)
    BY OneInLoop
<1>4. ASSUME NEW i \in Calls PROVE effects[i] <= effects'[i] /\ CallInv(i)'
    <2>1. CASE i = k
        BY <2>1
    <2>2. CASE i # k
        <3>1. tool'[i] = tool[i] /\ effects'[i] = effects[i] /\ effects[i] \in Nat /\ CallInv(i)
            BY <1>1, <2>2 DEF IInv, Types, Shared
        <3> QED
            BY <3>1 DEF CallInv
    <2> QED
        BY <2>1, <2>2
<1> QED
    BY <1>1, <1>2, <1>3, <1>4, ActorKeeps

\* The claim: what has happened is not executed again.
LEMMA ClaimToolKeeps ==
    ASSUME IInv, NEW w \in Workers, ClaimTool(w)
    PROVE  IInv' /\ outcome' = outcome
<1>1. Types /\ LoopInv(w) /\ LateInv(w) /\ faults \in Nat /\ w \in Actors
    BY Quiet
<1>2. /\ Turn(w) /\ pc[w] = "claim" /\ loc'[w] = loc[w] /\ late'[w] = late[w] /\ loc[w].i \in Calls
      /\ UNCHANGED <<canceled, condemned, outcome, clock, lock, effects, faults>>
      /\ tool' = [tool EXCEPT ![loc[w].i] = "running"]
      /\ pc'[w] = (IF tool[loc[w].i] # "none" /\ effects[loc[w].i] > 0 THEN "save" ELSE "execute")
    BY <1>1, ClaimToolDoes
<1>3. PICK k \in Calls : k = loc[w].i
    BY <1>2
<1>4. /\ tool \in [Calls -> ToolRecords] /\ effects \in [Calls -> Nat] /\ plan' = plan /\ CallInv(k)
      /\ k <= plan.calls
    BY <1>1, <1>2, <1>3 DEF Types, Shared, Turn, IInv, LoopInv
<1>5. tool'[k] = "running" /\ \A i \in Calls : i # k => tool'[i] = tool[i] /\ effects'[i] = effects[i]
    BY <1>2, <1>3, <1>4
<1>6. effects[k] \in Nat /\ effects'[k] = effects[k] /\ CallInv(k)'
    BY <1>2, <1>3, <1>4, <1>5 DEF CallInv
<1>7. LoopInv(w)'
    BY <1>1, <1>2, <1>3, <1>4, <1>5, <1>6 DEF LoopInv, InLoop, CallInv
<1>8. LateInv(w)'
    BY <1>1, <1>2, <1>3 DEF LateInv
<1> QED
    BY <1>1, <1>2, <1>3, <1>5, <1>6, <1>7, <1>8, CallKeeps DEF InLoop

\* The effect: it happens once, and after the tombstone it is the worker's last.
LEMMA ExecuteKeeps ==
    ASSUME IInv, NEW w \in Workers, Execute(w)
    PROVE  IInv' /\ outcome' = outcome
<1>1. Types /\ LoopInv(w) /\ LateInv(w) /\ w \in Actors /\ late[w].effects \in Nat
    BY Quiet, Fields
<1>2. /\ Turn(w) /\ pc[w] = "execute" /\ loc'[w] = loc[w] /\ loc[w].i \in Calls
      /\ UNCHANGED <<tool, canceled, condemned, outcome, clock, lock>> /\ faults <= faults'
      /\ \/ /\ effects' = [effects EXCEPT ![loc[w].i] = effects[loc[w].i] + 1] /\ pc'[w] \in {"save", "fail"}
            /\ late'[w].steps = late[w].steps
            /\ late'[w].effects = (IF condemned THEN late[w].effects + 1 ELSE late[w].effects)
         \/ effects' = effects /\ pc'[w] = "fail" /\ late'[w] = late[w]
    BY <1>1, ExecuteDoes
<1>3. PICK k \in Calls : k = loc[w].i
    BY <1>2
<1>4. /\ effects \in [Calls -> Nat] /\ plan' = plan /\ CallInv(k) /\ effects[k] = 0 /\ tool[k] # "none"
      /\ k <= plan.calls
    BY <1>1, <1>2, <1>3 DEF Types, Shared, Turn, IInv, LoopInv
<1>5. \A i \in Calls : i # k => tool'[i] = tool[i] /\ effects'[i] = effects[i]
    BY <1>2, <1>3, <1>4
<1>6. LateInv(w)'
    BY <1>1, <1>2, <1>3 DEF LateInv
<1>7. CASE effects' = [effects EXCEPT ![k] = effects[k] + 1] /\ pc'[w] \in {"save", "fail"}
    <2>1. effects'[k] = 1
        BY <1>2, <1>3, <1>4, <1>7
    <2>2. CallInv(k)' /\ effects[k] <= effects'[k]
        BY <1>2, <1>3, <1>4, <2>1 DEF CallInv
    <2>3. LoopInv(w)'
        BY <1>1, <1>2, <1>3, <1>4, <1>7, <2>1 DEF LoopInv, InLoop
    <2> QED
        BY <1>2, <1>3, <1>5, <1>6, <1>7, <2>2, <2>3, CallKeeps DEF InLoop
<1>8. CASE effects' = effects /\ pc'[w] = "fail"
    <2>1. CallInv(k)' /\ effects[k] <= effects'[k]
        BY <1>2, <1>3, <1>4, <1>8 DEF CallInv
    <2>2. LoopInv(w)'
        BY <1>1, <1>2, <1>3, <1>4, <1>8 DEF LoopInv, InLoop
    <2> QED
        BY <1>2, <1>3, <1>5, <1>6, <1>8, <2>1, <2>2, CallKeeps DEF InLoop
<1> QED
    BY <1>2, <1>3, <1>7, <1>8

\* The record: success is saved only of what has happened.
LEMMA SaveToolKeeps ==
    ASSUME IInv, NEW w \in Workers, SaveTool(w)
    PROVE  IInv' /\ outcome' = outcome
<1>1. Types /\ LoopInv(w) /\ LateInv(w) /\ faults \in Nat /\ w \in Actors
    BY Quiet
<1>2. /\ Turn(w) /\ pc[w] \in {"save", "fail"} /\ pc'[w] = "model" /\ late'[w] = late[w] /\ loc[w].i \in Calls /\ loc'[w].at = loc[w].at
      /\ UNCHANGED <<canceled, condemned, outcome, clock, lock, effects, faults>>
      /\ tool' = [tool EXCEPT ![loc[w].i] = IF pc[w] = "save" THEN "succeeded" ELSE "failed"]
    BY <1>1, SaveToolDoes
<1>3. PICK k \in Calls : k = loc[w].i
    BY <1>2
<1>4. /\ tool \in [Calls -> ToolRecords] /\ effects \in [Calls -> Nat] /\ CallInv(k)
    BY <1>1, <1>2, <1>3 DEF Types, Shared, IInv
<1>5. /\ tool'[k] = (IF pc[w] = "save" THEN "succeeded" ELSE "failed")
      /\ \A i \in Calls : i # k => tool'[i] = tool[i] /\ effects'[i] = effects[i]
    BY <1>2, <1>3, <1>4
<1>6. effects[k] \in Nat /\ effects'[k] = effects[k] /\ CallInv(k)'
    BY <1>1, <1>2, <1>3, <1>4, <1>5 DEF CallInv, LoopInv
<1>7. LoopInv(w)' /\ LateInv(w)'
    BY <1>1, <1>2, <1>3 DEF LoopInv, InLoop, LateInv
<1> QED
    BY <1>1, <1>2, <1>3, <1>5, <1>6, <1>7, CallKeeps DEF InLoop

\* A crash leaves the lock behind.
LEMMA CrashKeeps ==
    ASSUME IInv, NEW w \in Workers, Crash(w)
    PROVE  IInv' /\ outcome' = outcome
<1>1. Types /\ LoopInv(w) /\ LateInv(w) /\ clock \in Nat
    BY Quiet
<1>2. /\ Turn(w) /\ pc'[w] = "idle" /\ loc'[w] = NoLocals /\ late'[w] = late[w] /\ faults <= faults'
      /\ UNCHANGED <<tool, canceled, condemned, outcome, clock, lock, effects>>
    BY <1>1, CrashDoes
<1>3. LoopInv(w)' /\ LateInv(w)' /\ pc'[w] # "put"
    BY <1>1, <1>2 DEF LoopInv, InLoop, LateInv
<1>4. loc'[w].at <= clock
    BY <1>1, <1>2, Empty DEF Types
<1> QED
    BY <1>2, <1>3, <1>4, WorkerQuiet

\* The flag of a cancellation.
LEMMA CancelKeeps ==
    ASSUME IInv, Cancel
    PROVE  IInv' /\ outcome' = outcome
<1>1. Types /\ clock \in Nat /\ outcome.at <= clock /\ faults \in Nat /\ Canceler \in Actors /\ Canceler \notin Workers /\ VerdictInv(Canceler)
    BY Quiet, Numbers DEF Types
<1>2. /\ Turn(Canceler) /\ pc'[Canceler] = "stamp" /\ loc'[Canceler].at = loc[Canceler].at
      /\ UNCHANGED <<tool, condemned, outcome, clock, lock, effects, faults>> /\ canceled'
    BY <1>1, CancelDoes
<1>3. VerdictInv(Canceler)'
    BY <1>1, <1>2 DEF VerdictInv
<1> QED
    BY <1>1, <1>2, <1>3, QuietKeeps

\* The lock of a worker that is gone runs out: nobody is in the loop.
LEMMA LapseKeeps ==
    ASSUME IInv, LapseLock
    PROVE  IInv' /\ outcome' = outcome
<1>1. /\ UNCHANGED <<plan, model, tool, canceled, condemned, outcome, clock, pc, loc, comp, op, effects, refunds, faults, late, outlived>>
      /\ lock \in Workers /\ pc[lock] = "idle" /\ lock' = "free"
    BY DEF LapseLock, journal, world, bounds
<1>2. Types /\ Calls' = Calls
    BY <1>1 DEF IInv, Calls
<1>3. Types'
    BY <1>1, <1>2 DEF Types, Shared, Locals, Works, Late
<1>4. \A v \in Workers : ~InLoop(v)
    BY <1>1 DEF IInv, LoopInv, InLoop
<1>5. \A w \in Workers : LoopInv(w)' /\ LateInv(w)'
    BY <1>1, <1>4 DEF IInv, LoopInv, LateInv, InLoop
<1>6. outcome'.at <= clock' /\ \A a \in Actors : VerdictInv(a)'
    BY <1>1 DEF IInv, VerdictInv
<1>7. /\ \A i \in Calls : CallInv(i)' /\ RefundInv(i)'
      /\ \A o \in Operators : UnwindInv(o)'
    BY <1>1, <1>2 DEF IInv, CallInv, RefundInv, UnwindInv
<1>8. faults' = 0 => (\A i \in Calls : ClaimInv(i)') /\ (\A o \in Operators : HolderInv(o)')
    BY <1>1 DEF IInv, ClaimInv, HolderInv
<1> QED
    BY <1>1, <1>2, <1>3, <1>5, <1>6, <1>7, <1>8 DEF IInv

-----------------------------------------------------------------------------
(* What the operators' steps do *)

\* An operator's local variables.
LEMMA OpFields ==
    ASSUME Types, NEW o \in Operators
    PROVE  /\ op[o] \in Works /\ op[o].pc \in OpLabels /\ op[o].at \in 0 .. plan.calls /\ op[o].seen \in [Calls -> ToolRecords]
           /\ op[o].found \in CompRecords /\ (op[o].at > 0 => op[o].at \in Calls /\ op[o].at - 1 \in 0 .. plan.calls)
           /\ plan.calls \in Nat /\ NoComp \in CompRecords /\ NoComp.is = "none"
<1>1. op[o] \in Works /\ plan.calls \in Nat /\ Calls = 1 .. plan.calls
    BY Numbers DEF Types
<1>2. op[o].pc \in OpLabels /\ op[o].at \in 0 .. plan.calls /\ op[o].seen \in [Calls -> ToolRecords] /\ op[o].found \in CompRecords
    BY <1>1 DEF Works
<1>3. NoComp \in CompRecords /\ NoComp.is = "none"
    BY DEF NoComp, CompRecords
<1> QED
    BY <1>1, <1>2, <1>3

\* What no operator writes.
Kept ==
    /\ UNCHANGED <<plan, model, tool, canceled, outcome, clock, lock, pc, loc, late, effects, outlived>>
    /\ condemned => condemned'

\* A turn of operator o.
OpTurn(o) ==
    /\ Types' /\ Kept
    /\ \A p \in Operators : p # o => op'[p] = op[p]

\* An operator moves.
LEMMA OpMoved ==
    ASSUME Types, NEW o \in Operators, NEW r \in Works, op' = [op EXCEPT ![o] = r], Shared', Kept
    PROVE  OpTurn(o) /\ op'[o] = r
<1>1. UNCHANGED <<plan, pc, loc, late>> /\ Locals' = Locals /\ Works' = Works /\ Late' = Late /\ Actors' = Actors
    BY DEF Kept, Locals, Works, Late, Calls, Actors
<1>2. op \in [Operators -> Works]
    BY DEF Types
<1>3. op' \in [Operators -> Works] /\ op'[o] = r /\ \A p \in Operators : p # o => op'[p] = op[p]
    BY <1>2
<1>4. Types'
    BY <1>1, <1>3 DEF Types
<1> QED
    BY <1>3, <1>4 DEF OpTurn

\* It changes its place only.
LEMMA OpWent ==
    ASSUME Types, NEW o \in Operators, NEW label \in OpLabels, OpAt(o, label), Shared', Kept
    PROVE  /\ OpTurn(o) /\ op'[o].pc = label /\ op'[o].at = op[o].at /\ op'[o].seen = op[o].seen /\ op'[o].found = op[o].found
<1> DEFINE r == [op[o] EXCEPT !.pc = label]
<1>1. r \in Works /\ r.pc = label /\ r.at = op[o].at /\ r.seen = op[o].seen /\ r.found = op[o].found
    BY OpFields DEF Works
<1>2. op' = [op EXCEPT ![o] = r]
    BY DEF OpAt
<1> HIDE DEF r
<1>3. OpTurn(o) /\ op'[o] = r
    BY <1>1, <1>2, OpMoved
<1> QED
    BY <1>1, <1>3

\* It goes on with the call before.
LEMMA OpNext ==
    ASSUME Types, NEW o \in Operators, op[o].at > 0, NextEntry(o), Shared', Kept
    PROVE  /\ OpTurn(o) /\ op'[o].pc = "entry" /\ op'[o].at = op[o].at - 1 /\ op'[o].seen = op[o].seen
<1> DEFINE r == [op[o] EXCEPT !.at = op[o].at - 1, !.pc = "entry", !.found = NoComp]
<1>1. r \in Works /\ r.pc = "entry" /\ r.at = op[o].at - 1 /\ r.seen = op[o].seen
    BY OpFields DEF Works, OpLabels
<1>2. op' = [op EXCEPT ![o] = r]
    BY OpFields DEF NextEntry, Types, Works
<1> HIDE DEF r
<1>3. OpTurn(o) /\ op'[o] = r
    BY <1>1, <1>2, OpMoved
<1> QED
    BY <1>1, <1>3

\* It stops.
LEMMA OpStop ==
    ASSUME Types, NEW o \in Operators, Stop(o), Shared', Kept
    PROVE  /\ OpTurn(o) /\ op'[o].pc = "idle" /\ \A i \in Calls : op'[o].seen[i] = "none"
<1>1. 0 \in 0 .. plan.calls /\ [i \in Calls |-> "none"] \in [Calls -> ToolRecords] /\ NoComp \in CompRecords /\ "idle" \in OpLabels
    BY OpFields DEF ToolRecords, OpLabels
<1>2. NoWork \in Works /\ NoWork.pc = "idle" /\ NoWork.seen = [i \in Calls |-> "none"]
    BY <1>1 DEF NoWork, Works
<1>3. OpTurn(o) /\ op'[o] = NoWork
    BY <1>2, OpMoved DEF Stop
<1> QED
    BY <1>2, <1>3

\* What is left to show of an operator's turn.
LEMMA OperatorKeeps ==
    ASSUME IInv, NEW o \in Operators, OpTurn(o), UnwindInv(o)',
           \A i \in Calls : refunds[i] <= refunds'[i] /\ RefundInv(i)',
           faults' = 0 => (\A i \in Calls : ClaimInv(i)') /\ (\A p \in Operators : HolderInv(p)')
    PROVE  IInv' /\ outcome' = outcome
<1>1. /\ UNCHANGED <<plan, model, tool, canceled, outcome, clock, lock, pc, loc, late, effects, outlived>>
      /\ (condemned => condemned') /\ Types /\ Types' /\ Calls' = Calls
    BY DEF OpTurn, Kept, IInv, Calls
<1>2. outcome'.at <= clock' /\ \A a \in Actors : VerdictInv(a)'
    BY <1>1 DEF IInv, VerdictInv
<1>3. \A w \in Workers : LoopInv(w)' /\ LateInv(w)'
    BY <1>1 DEF IInv, LoopInv, InLoop, LateInv
<1>4. \A i \in Calls : CallInv(i)'
    BY <1>1 DEF IInv, CallInv
<1>5. \A i \in Calls : refunds[i] \in Nat /\ refunds'[i] \in Nat
    BY <1>1 DEF Types, Shared
<1>6. \A p \in Operators : UnwindInv(p)'
    <2> SUFFICES ASSUME NEW p \in Operators, p # o PROVE UnwindInv(p)'
        OBVIOUS
    <2>1. UnwindInv(p) /\ op'[p] = op[p] /\ (op[p].at > 0 => op[p].at \in Calls)
        BY <1>1, OpFields DEF IInv, OpTurn
    <2> QED
        BY <1>1, <1>5, <2>1 DEF UnwindInv
<1> QED
    BY <1>1, <1>2, <1>3, <1>4, <1>6 DEF IInv

\* A turn that neither claims, refunds nor lets go keeps the claims.
LEMMA ClaimsStay ==
    ASSUME IInv, NEW o \in Operators, OpTurn(o), UNCHANGED <<comp, refunds, faults>>,
           op[o].pc \notin {"hook", "compensated"}, op'[o].pc \notin {"hook", "compensated", "comp-failed"},
           op'[o].pc = "claim" => faults # 0 \/ op'[o].at \in outlived \/ op'[o].found = NoComp
    PROVE  /\ \A i \in Calls : refunds[i] <= refunds'[i] /\ RefundInv(i)'
           /\ faults' = 0 => (\A i \in Calls : ClaimInv(i)') /\ (\A p \in Operators : HolderInv(p)')
<1>1. \A i \in Calls : refunds[i] <= refunds'[i] /\ RefundInv(i)'
    BY DEF IInv, Types, Shared, RefundInv, OpTurn, Kept
<1>2. ASSUME faults' = 0 PROVE (\A i \in Calls : ClaimInv(i)') /\ (\A p \in Operators : HolderInv(p)')
    <2>1. /\ (\A i \in Calls : ClaimInv(i)) /\ (\A p \in Operators : HolderInv(p)) /\ (\A p \in Operators : p # o => op'[p] = op[p])
          /\ outlived' = outlived
        BY <1>2 DEF IInv, OpTurn, Kept
    <2>2. ASSUME NEW i \in Calls PROVE ClaimInv(i)'
        BY <2>1 DEF ClaimInv
    <2>3. ASSUME NEW p \in Operators PROVE HolderInv(p)'
        BY <1>2, <2>1 DEF HolderInv
    <2> QED
        BY <2>2, <2>3
<1> QED
    BY <1>1, <1>2

-----------------------------------------------------------------------------
(* An operator's turn keeps the invariant *)

\* compensateRun reads the run: what it reads as succeeded has happened.
LEMMA CompensateRunKeeps ==
    ASSUME IInv, NEW o \in Operators, CompensateRun(o)
    PROVE  IInv' /\ outcome' = outcome
<1> DEFINE r == [pc |-> "condemn", at |-> plan.calls, seen |-> tool, found |-> NoComp]
<1>1. /\ Kept /\ UNCHANGED <<comp, refunds, faults, condemned>> /\ op[o].pc = "idle" /\ op' = [op EXCEPT ![o] = r]
      /\ Types /\ tool \in [Calls -> ToolRecords] /\ UNCHANGED <<plan, tool, effects>>
    BY DEF CompensateRun, Kept, journal, world, IInv, Types, Shared
<1>2. r \in Works /\ r.pc = "condemn" /\ r.at = plan.calls /\ r.seen = tool
    BY <1>1, OpFields DEF Works, OpLabels
<1>3. Shared'
    BY <1>1, Still DEF Kept
<1> HIDE DEF r
<1>4. OpTurn(o) /\ op'[o] = r
    BY <1>1, <1>2, <1>3, OpMoved
<1>5. \A i \in Calls : i \in Nat /\ i <= plan.calls /\ plan.calls \in Nat /\ (tool[i] = "succeeded" => effects[i] > 0)
    BY <1>1, OpFields DEF Calls, IInv, CallInv
<1>6. UnwindInv(o)'
    BY <1>1, <1>2, <1>4, <1>5 DEF UnwindInv, Calls
<1>7. /\ \A i \in Calls : refunds[i] <= refunds'[i] /\ RefundInv(i)'
      /\ faults' = 0 => (\A i \in Calls : ClaimInv(i)') /\ (\A p \in Operators : HolderInv(p)')
    BY <1>1, <1>2, <1>4, ClaimsStay
<1> QED
    BY <1>4, <1>6, <1>7, OperatorKeeps

\* The tombstone.
LEMMA CondemnKeeps ==
    ASSUME IInv, NEW o \in Operators, Condemn(o)
    PROVE  IInv' /\ outcome' = outcome
<1>1. /\ Kept /\ UNCHANGED <<comp, refunds, faults, plan, effects>> /\ condemned' = TRUE /\ op[o].pc = "condemn" /\ OpAt(o, "entry")
      /\ Types /\ "entry" \in OpLabels /\ UnwindInv(o)
    BY DEF Condemn, Kept, world, bounds, IInv, OpLabels
<1>2. Shared'
    BY <1>1 DEF Kept, Types, Shared, Calls
<1>3. OpTurn(o) /\ op'[o].pc = "entry" /\ op'[o].at = op[o].at /\ op'[o].seen = op[o].seen
    BY <1>1, <1>2, OpWent
<1>4. UnwindInv(o)'
    BY <1>1, <1>3 DEF UnwindInv, Calls
<1>5. /\ \A i \in Calls : refunds[i] <= refunds'[i] /\ RefundInv(i)'
      /\ faults' = 0 => (\A i \in Calls : ClaimInv(i)') /\ (\A p \in Operators : HolderInv(p)')
    BY <1>1, <1>3, ClaimsStay
<1> QED
    BY <1>3, <1>4, <1>5, OperatorKeeps

\* An operator that stops leaves no obligation behind.
LEMMA StoppedKeeps ==
    ASSUME NEW o \in Operators, plan' = plan, op'[o].pc = "idle", \A i \in Calls : op'[o].seen[i] = "none"
    PROVE  UnwindInv(o)'
BY DEF UnwindInv, Calls

\* The next call's turn comes when this one is refunded, or need not be.
LEMMA NextKeeps ==
    ASSUME IInv, NEW o \in Operators, OpTurn(o), op[o].pc # "idle", op[o].at > 0, UNCHANGED refunds,
           op'[o].pc = "entry", op'[o].at = op[o].at - 1, op'[o].seen = op[o].seen,
           op[o].seen[op[o].at] = "succeeded" => refunds[op[o].at] > 0
    PROVE  UnwindInv(o)'
<1>1. /\ UnwindInv(o) /\ plan' = plan /\ Calls' = Calls /\ UNCHANGED effects /\ op[o].at \in Nat /\ Types /\ plan.calls \in Nat
      /\ op[o].at \in Calls
    BY OpFields DEF IInv, OpTurn, Kept, Calls
<1>2. ASSUME NEW i \in Calls, op[o].seen[i] = "succeeded"
      PROVE  effects[i] > 0 /\ (i > op[o].at - 1 => refunds[i] > 0)
    <2>1. i \in Nat /\ (i > op[o].at - 1 => i > op[o].at \/ i = op[o].at)
        BY <1>1 DEF Calls
    <2> QED
        BY <1>1, <1>2, <2>1 DEF UnwindInv
<1> QED
    BY <1>1, <1>2 DEF UnwindInv

\* The entry in hand.
LEMMA EntryKeeps ==
    ASSUME IInv, NEW o \in Operators, Entry(o)
    PROVE  IInv' /\ outcome' = outcome
<1>1. /\ Kept /\ UNCHANGED <<comp, refunds, faults, condemned, plan, effects>> /\ op[o].pc = "entry" /\ "get" \in OpLabels
      /\ Types /\ UnwindInv(o) /\ op[o].at \in 0 .. plan.calls /\ plan.calls \in Nat /\ (op[o].at > 0 => op[o].at \in Calls)
    BY OpFields DEF Entry, Kept, journal, world, bounds, IInv, OpLabels
<1>2. Shared'
    BY <1>1, Still DEF Kept
<1>3. OpTurn(o) /\ UnwindInv(o)' /\ op'[o].pc \in {"idle", "entry", "get"}
    <2>1. CASE Stop(o)
        BY <1>1, <1>2, <2>1, OpStop, StoppedKeeps
    <2>2. CASE op[o].at > 0 /\ op[o].seen[op[o].at] # "succeeded" /\ NextEntry(o)
        <3>1. OpTurn(o) /\ op'[o].pc = "entry" /\ op'[o].at = op[o].at - 1 /\ op'[o].seen = op[o].seen
            BY <1>1, <1>2, <2>2, OpNext
        <3> QED
            BY <1>1, <2>2, <3>1, NextKeeps
    <2>3. CASE op[o].at > 0 /\ OpAt(o, "get") /\ (op[o].seen[op[o].at] = "succeeded" \/ effects[op[o].at] # 0)
        <3>1. OpTurn(o) /\ op'[o].pc = "get" /\ op'[o].at = op[o].at /\ op'[o].seen = op[o].seen
            BY <1>1, <1>2, <2>3, OpWent
        <3>2. effects[op[o].at] > 0
            BY <1>1, <2>3 DEF UnwindInv, Types, Shared
        <3>3. UnwindInv(o)'
            BY <1>1, <2>3, <3>1, <3>2 DEF UnwindInv, Calls
        <3> QED
            BY <3>1, <3>3
    <2> QED
        BY <1>1, <2>1, <2>2, <2>3 DEF Entry, This
<1>4. /\ \A i \in Calls : refunds[i] <= refunds'[i] /\ RefundInv(i)'
      /\ faults' = 0 => (\A i \in Calls : ClaimInv(i)') /\ (\A p \in Operators : HolderInv(p)')
    BY <1>1, <1>3, ClaimsStay
<1> QED
    BY <1>3, <1>4, OperatorKeeps

\* The comp record that is found.
LEMMA GetCompKeeps ==
    ASSUME IInv, NEW o \in Operators, GetComp(o)
    PROVE  IInv' /\ outcome' = outcome
<1>1. /\ Kept /\ UNCHANGED <<comp, refunds, faults, condemned, plan, effects>> /\ op[o].pc = "get" /\ "claim" \in OpLabels
      /\ Types /\ UnwindInv(o) /\ op[o].at > 0 /\ op[o].at \in Calls /\ effects[op[o].at] > 0 /\ comp[op[o].at] \in CompRecords
      /\ op[o] \in Works
    BY OpFields DEF GetComp, Kept, journal, world, bounds, IInv, OpLabels, UnwindInv, Types, Shared
<1>2. Shared'
    BY <1>1, Still DEF Kept
<1>3. OpTurn(o) /\ UnwindInv(o)' /\ op'[o].pc \in {"idle", "entry", "claim"} /\ (op'[o].pc = "claim" => faults # 0 \/ op'[o].at \in outlived \/ op'[o].found = NoComp)
    <2>1. CASE Stop(o)
        BY <1>1, <1>2, <2>1, OpStop, StoppedKeeps
    <2>2. CASE comp[op[o].at].is = "compensated" /\ NextEntry(o)
        <3>1. OpTurn(o) /\ op'[o].pc = "entry" /\ op'[o].at = op[o].at - 1 /\ op'[o].seen = op[o].seen
            BY <1>1, <1>2, <2>2, OpNext
        <3>2. refunds[op[o].at] > 0
            BY <1>1, <2>2 DEF IInv, RefundInv
        <3> QED
            BY <1>1, <3>1, <3>2, NextKeeps
    <2>3. CASE /\ comp[op[o].at].is \notin {"compensated", "running"}
               /\ op' = [op EXCEPT ![o].found = comp[op[o].at], ![o].pc = "claim"]
        <3> DEFINE r == [op[o] EXCEPT !.found = comp[op[o].at], !.pc = "claim"]
        <3>1. r \in Works /\ r.pc = "claim" /\ r.at = op[o].at /\ r.seen = op[o].seen /\ r.found = comp[op[o].at]
            BY <1>1 DEF Works
        <3>2. op' = [op EXCEPT ![o] = r]
            BY <1>1, <2>3 DEF Types, Works
        <3> HIDE DEF r
        <3>3. OpTurn(o) /\ op'[o] = r
            BY <1>1, <1>2, <3>1, <3>2, OpMoved
        <3>4. UnwindInv(o)'
            BY <1>1, <3>1, <3>3 DEF UnwindInv, Calls
        <3>5. faults = 0 /\ op[o].at \notin outlived => comp[op[o].at] = NoComp
            BY <1>1, <2>3 DEF IInv, ClaimInv
        <3> QED
            BY <3>1, <3>3, <3>4, <3>5
    <2> QED
        BY <1>1, <2>1, <2>2, <2>3 DEF GetComp, This
<1>4. /\ \A i \in Calls : refunds[i] <= refunds'[i] /\ RefundInv(i)'
      /\ faults' = 0 => (\A i \in Calls : ClaimInv(i)') /\ (\A p \in Operators : HolderInv(p)')
    BY <1>1, <1>3, ClaimsStay
<1> QED
    BY <1>3, <1>4, OperatorKeeps

\* Without faults, two operators have one call in hand only if its claim was outlived.
LEMMA OneHolder ==
    ASSUME IInv, faults = 0, NEW o \in Operators, NEW p \in Operators, p # o, op[o].at \notin outlived,
           op[o].pc \in {"hook", "compensated"}, op[p].pc \in {"hook", "compensated"}
    PROVE  op[p].at # op[o].at
<1>1. HolderInv(o) /\ HolderInv(p)
    BY DEF IInv
<1> QED
    BY <1>1 DEF HolderInv

\* The claim.
LEMMA ClaimCompKeeps ==
    ASSUME IInv, NEW o \in Operators, ClaimComp(o)
    PROVE  IInv' /\ outcome' = outcome
<1>1. /\ Kept /\ UNCHANGED <<refunds, faults, condemned, plan, effects, outlived>> /\ op[o].pc = "claim" /\ "hook" \in OpLabels
      /\ Types /\ UnwindInv(o) /\ op[o].at > 0 /\ op[o].at \in Calls /\ effects[op[o].at] > 0 /\ comp \in [Calls -> CompRecords]
    BY OpFields DEF ClaimComp, Kept, journal, world, bounds, IInv, OpLabels, UnwindInv, Types, Shared
<1>2. CASE Stop(o) /\ UNCHANGED comp
    <2>1. Shared'
        BY <1>1, <1>2, Still DEF Kept
    <2>2. OpTurn(o) /\ op'[o].pc = "idle" /\ \A i \in Calls : op'[o].seen[i] = "none"
        BY <1>1, <1>2, <2>1, OpStop
    <2>3. UnwindInv(o)'
        BY <1>1, <2>2, StoppedKeeps
    <2>4. /\ \A i \in Calls : refunds[i] <= refunds'[i] /\ RefundInv(i)'
          /\ faults' = 0 => (\A i \in Calls : ClaimInv(i)') /\ (\A p \in Operators : HolderInv(p)')
        BY <1>1, <1>2, <2>2, ClaimsStay
    <2> QED
        BY <2>2, <2>3, <2>4, OperatorKeeps
<1>3. CASE /\ op[o].found # NoComp \/ comp[op[o].at] = NoComp
           /\ comp' = [comp EXCEPT ![op[o].at] = [is |-> "running", by |-> o]]
           /\ OpAt(o, "hook")
    <2> DEFINE c == [is |-> "running", by |-> o]
    <2>1. c \in CompRecords /\ c.is = "running" /\ c.by = o
        BY DEF CompRecords
    <2> HIDE DEF c
    <2>2. PICK k \in Calls : k = op[o].at
        BY <1>1
    <2>3. comp' = [comp EXCEPT ![k] = c]
        BY <1>3, <2>2 DEF c
    <2>4. comp' \in [Calls -> CompRecords] /\ comp'[k] = c /\ \A i \in Calls : i # k => comp'[i] = comp[i]
        BY <1>1, <2>1, <2>2, <2>3
    <2>5. Shared'
        BY <1>1, <2>4 DEF Kept, Types, Shared, Calls
    <2>6. OpTurn(o) /\ op'[o].pc = "hook" /\ op'[o].at = op[o].at /\ op'[o].seen = op[o].seen
        BY <1>1, <1>3, <2>5, OpWent
    <2>7. UnwindInv(o)'
        BY <1>1, <2>6 DEF UnwindInv, Calls
    <2>8. ASSUME NEW i \in Calls PROVE refunds[i] <= refunds'[i] /\ RefundInv(i)'
        <3>1. refunds[i] \in Nat /\ RefundInv(i)
            BY <1>1 DEF IInv, Types, Shared
        <3>2. i = k \/ comp'[i] = comp[i]
            BY <2>4
        <3> QED
            BY <1>1, <2>1, <2>4, <3>1, <3>2 DEF RefundInv
    <2>9. ASSUME faults' = 0 PROVE (\A i \in Calls : ClaimInv(i)') /\ (\A p \in Operators : HolderInv(p)')
        <3>1. /\ (\A i \in Calls : ClaimInv(i)) /\ (\A p \in Operators : HolderInv(p))
              /\ \A p \in Operators : p # o => op'[p] = op[p]
            BY <1>1, <2>6, <2>9 DEF IInv, OpTurn
        <3>2. k \notin outlived => comp[k] = NoComp /\ comp[k].is = "none" /\ refunds[k] = 0
            BY <1>1, <1>3, <2>2, <3>1, OpFields DEF HolderInv, ClaimInv
        <3>3. ASSUME NEW i \in Calls PROVE ClaimInv(i)'
            <4>1. CASE i = k
                BY <1>1, <2>1, <2>2, <2>4, <2>6, <3>2, <4>1 DEF ClaimInv
            <4>2. CASE i # k
                <5>1. comp'[i] = comp[i] /\ ClaimInv(i)
                    BY <2>4, <3>1, <4>2
                <5> QED
                    BY <1>1, <2>6, <3>1, <5>1 DEF ClaimInv
            <4> QED
                BY <4>1, <4>2
        <3>4. ASSUME NEW p \in Operators PROVE HolderInv(p)'
            <4>1. CASE p = o
                BY <1>1, <2>2, <2>4, <2>6, <3>2, <4>1 DEF HolderInv, c
            <4>2. CASE p # o
                <5>1. HolderInv(p) /\ op'[p] = op[p]
                    BY <3>1, <4>2
                <5>2. ASSUME op[p].pc \in {"hook", "compensated"}, op[p].at \notin outlived PROVE comp'[op[p].at] = comp[op[p].at]
                    <6>1. comp[op[p].at].is = "running" /\ op[p].at \in Calls
                        BY <1>1, <5>1, <5>2, OpFields DEF HolderInv, IInv, UnwindInv
                    <6>2. op[p].at # k
                        BY <3>2, <5>2, <6>1
                    <6> QED
                        BY <2>4, <6>1, <6>2
                <5> QED
                    BY <1>1, <5>1, <5>2 DEF HolderInv
            <4> QED
                BY <4>1, <4>2
        <3> QED
            BY <3>3, <3>4
    <2> QED
        BY <2>6, <2>7, <2>8, <2>9, OperatorKeeps
<1> QED
    BY <1>2, <1>3 DEF ClaimComp, This

\* The hook: without faults it runs once, as its operator alone holds the claim.
LEMMA HookKeeps ==
    ASSUME IInv, NEW o \in Operators, Hook(o)
    PROVE  IInv' /\ outcome' = outcome
<1>1. /\ Kept /\ UNCHANGED <<comp, condemned, plan, effects, outlived>> /\ op[o].pc = "hook" /\ Types /\ UnwindInv(o)
      /\ "compensated" \in OpLabels /\ "comp-failed" \in OpLabels
      /\ op[o].at > 0 /\ op[o].at \in Calls /\ effects[op[o].at] > 0 /\ refunds \in [Calls -> Nat] /\ faults \in Nat
    BY OpFields DEF Hook, Kept, journal, IInv, OpLabels, UnwindInv, Types, Shared
<1>2. PICK k \in Calls : k = op[o].at
    BY <1>1
<1>3. PICK d \in {0, 1} : refunds' = [refunds EXCEPT ![k] = refunds[k] + d] /\ (OpAt(o, "compensated") => d = 1)
        /\ ((OpAt(o, "compensated") /\ faults' = faults) \/ (OpAt(o, "comp-failed") /\ Fault))
    <2>1. CASE refunds' = [refunds EXCEPT ![k] = refunds[k] + 1]
        BY <1>1, <1>2, <2>1 DEF Hook, This
    <2>2. CASE UNCHANGED refunds /\ OpAt(o, "comp-failed") /\ Fault
        <3>1. refunds' = [refunds EXCEPT ![k] = refunds[k] + 0]
            BY <1>1, <2>2
        <3>2. ~OpAt(o, "compensated")
            BY <1>1, <2>2 DEF OpAt, Types, Works
        <3> QED
            BY <2>2, <3>1, <3>2
    <2> QED
        BY <1>2, <2>1, <2>2 DEF Hook, This
<1>4. /\ refunds' \in [Calls -> Nat] /\ refunds'[k] = refunds[k] + d /\ refunds[k] \in Nat
      /\ \A i \in Calls : refunds[i] \in Nat /\ refunds[i] <= refunds'[i] /\ (i # k => refunds'[i] = refunds[i])
    BY <1>1, <1>3
<1>5. faults' \in Nat /\ (Fault => faults' # 0)
    BY <1>1, <1>3, Counted
<1>6. Shared'
    BY <1>1, <1>4, <1>5 DEF Kept, Types, Shared, Calls
<1>7. /\ OpTurn(o) /\ op'[o].at = op[o].at /\ op'[o].seen = op[o].seen
      /\ \/ op'[o].pc = "compensated" /\ d = 1 /\ faults' = faults
         \/ op'[o].pc = "comp-failed" /\ faults' # 0
    BY <1>1, <1>3, <1>5, <1>6, OpWent
<1>8. UnwindInv(o)'
    BY <1>1, <1>2, <1>4, <1>7 DEF UnwindInv, Calls
<1>9. ASSUME NEW i \in Calls PROVE refunds[i] <= refunds'[i] /\ RefundInv(i)'
    <2>1. RefundInv(i) /\ (i = k \/ refunds'[i] = refunds[i])
        BY <1>4 DEF IInv
    <2> QED
        BY <1>1, <1>2, <1>4, <2>1 DEF RefundInv
<1>10. ASSUME faults' = 0 PROVE (\A i \in Calls : ClaimInv(i)') /\ (\A p \in Operators : HolderInv(p)')
    <2>1. op'[o].pc = "compensated" /\ d = 1 /\ faults = 0
        BY <1>7, <1>10
    <2>2. /\ (\A i \in Calls : ClaimInv(i)) /\ (\A p \in Operators : HolderInv(p))
          /\ \A p \in Operators : p # o => op'[p] = op[p]
        BY <1>7, <2>1 DEF IInv, OpTurn
    <2>3. k \notin outlived => comp[k] = [is |-> "running", by |-> o] /\ refunds[k] = 0 /\ refunds'[k] = 1 /\ comp[k].is = "running" /\ comp[k].by = o
        BY <1>1, <1>2, <1>4, <2>1, <2>2 DEF HolderInv
    <2>4. ASSUME NEW i \in Calls PROVE ClaimInv(i)'
        <3>1. CASE i = k
            BY <1>1, <1>2, <1>7, <2>1, <2>3, <3>1 DEF ClaimInv
        <3>2. CASE i # k
            <4>1. refunds'[i] = refunds[i] /\ ClaimInv(i) /\ comp'[i] = comp[i]
                BY <1>1, <1>4, <2>2, <3>2
            <4> QED
                BY <1>1, <1>7, <2>1, <2>2, <4>1 DEF ClaimInv
        <3> QED
            BY <3>1, <3>2
    <2>5. ASSUME NEW p \in Operators PROVE HolderInv(p)'
        <3>1. CASE p = o
            BY <1>1, <1>2, <1>7, <2>1, <2>3, <3>1 DEF HolderInv
        <3>2. CASE p # o
            <4>1. HolderInv(p) /\ op'[p] = op[p]
                BY <2>2, <3>2
            <4>2. ASSUME op[p].pc = "hook", op[p].at \notin outlived PROVE refunds'[op[p].at] = refunds[op[p].at]
                <5>1. op[p].at # k /\ op[p].at \in Calls
                    BY <1>1, <1>2, <2>1, <3>2, <4>2, OneHolder, OpFields DEF IInv, UnwindInv
                <5> QED
                    BY <1>4, <5>1
            <4> QED
                BY <1>1, <4>1, <4>2 DEF HolderInv
        <3> QED
            BY <3>1, <3>2
    <2> QED
        BY <2>4, <2>5
<1> QED
    BY <1>7, <1>8, <1>9, <1>10, OperatorKeeps

\* The terminal record.
LEMMA PutCompKeeps ==
    ASSUME IInv, NEW o \in Operators, PutComp(o)
    PROVE  IInv' /\ outcome' = outcome
<1> DEFINE c == [is |-> op[o].pc, by |-> o]
<1>1. /\ Kept /\ UNCHANGED <<refunds, faults, condemned, plan, effects, outlived>> /\ op[o].pc \in {"compensated", "comp-failed"} /\ Types /\ UnwindInv(o)
      /\ op[o].at > 0 /\ op[o].at \in Calls /\ comp \in [Calls -> CompRecords] /\ faults \in Nat
    BY OpFields DEF PutComp, Kept, journal, world, bounds, IInv, UnwindInv, Types, Shared
<1>2. c \in CompRecords /\ c.is = op[o].pc /\ comp' = [comp EXCEPT ![op[o].at] = c]
    BY <1>1 DEF CompRecords, PutComp, This
<1> HIDE DEF c
<1>3. PICK k \in Calls : k = op[o].at
    BY <1>1
<1>4. comp' \in [Calls -> CompRecords] /\ comp'[k] = c /\ \A i \in Calls : i # k => comp'[i] = comp[i]
    BY <1>1, <1>2, <1>3
<1>5. Shared'
    BY <1>1, <1>4 DEF Kept, Types, Shared, Calls
<1>6. OpTurn(o) /\ UnwindInv(o)' /\ op'[o].pc \in {"idle", "entry"}
    <2>1. CASE op[o].pc = "compensated" /\ NextEntry(o)
        <3>1. OpTurn(o) /\ op'[o].pc = "entry" /\ op'[o].at = op[o].at - 1 /\ op'[o].seen = op[o].seen
            BY <1>1, <1>5, <2>1, OpNext
        <3>2. refunds[op[o].at] > 0
            BY <1>1, <2>1 DEF UnwindInv
        <3> QED
            BY <1>1, <3>1, <3>2, NextKeeps
    <2>2. CASE Stop(o)
        BY <1>1, <1>5, <2>2, OpStop, StoppedKeeps
    <2> QED
        BY <2>1, <2>2 DEF PutComp
<1>7. ASSUME NEW i \in Calls PROVE refunds[i] <= refunds'[i] /\ RefundInv(i)'
    <2>1. refunds[i] \in Nat /\ RefundInv(i)
        BY <1>1 DEF IInv, Types, Shared
    <2>2. i = k \/ comp'[i] = comp[i]
        BY <1>4
    <2> QED
        BY <1>1, <1>2, <1>3, <1>4, <2>1, <2>2 DEF RefundInv, UnwindInv
<1>8. ASSUME faults' = 0 PROVE (\A i \in Calls : ClaimInv(i)') /\ (\A p \in Operators : HolderInv(p)')
    <2>1. /\ (\A i \in Calls : ClaimInv(i)) /\ (\A p \in Operators : HolderInv(p)) /\ faults = 0
          /\ \A p \in Operators : p # o => op'[p] = op[p]
        BY <1>1, <1>6, <1>8 DEF IInv, OpTurn
    <2>2. op[o].pc = "compensated" /\ comp'[k].is = "compensated"
        BY <1>1, <1>2, <1>4, <2>1 DEF HolderInv
    <2>3. ASSUME NEW i \in Calls PROVE ClaimInv(i)'
        <3>1. CASE i = k
            BY <1>1, <2>1, <2>2, <3>1 DEF ClaimInv
        <3>2. CASE i # k
            <4>1. ClaimInv(i) /\ comp'[i] = comp[i] /\ (i \notin outlived /\ comp[i].is = "running" => comp[i].by # o)
                BY <1>3, <1>4, <2>1, <3>2 DEF ClaimInv
            <4> QED
                BY <1>1, <2>1, <4>1 DEF ClaimInv
        <3> QED
            BY <3>1, <3>2
    <2>4. ASSUME NEW p \in Operators PROVE HolderInv(p)'
        <3>1. CASE p = o
            BY <1>6, <3>1 DEF HolderInv
        <3>2. CASE p # o
            <4>1. HolderInv(p) /\ op'[p] = op[p]
                BY <2>1, <3>2
            <4>2. ASSUME op[p].pc \in {"hook", "compensated"}, op[p].at \notin outlived PROVE comp'[op[p].at] = comp[op[p].at]
                <5>1. op[p].at # k /\ op[p].at \in Calls
                    BY <1>1, <1>3, <2>1, <2>2, <3>2, <4>2, OneHolder, OpFields DEF IInv, UnwindInv
                <5> QED
                    BY <1>4, <5>1
            <4> QED
                BY <1>1, <4>1, <4>2 DEF HolderInv
        <3> QED
            BY <3>1, <3>2
    <2> QED
        BY <2>3, <2>4
<1> QED
    BY <1>6, <1>7, <1>8, OperatorKeeps

\* An operator crashes: a fault.
LEMMA CrashOperatorKeeps ==
    ASSUME IInv, NEW o \in Operators, CrashOperator(o)
    PROVE  IInv' /\ outcome' = outcome
<1>1. /\ Kept /\ UNCHANGED <<comp, refunds, condemned, plan, effects>> /\ Stop(o) /\ Types /\ faults' \in Nat /\ faults' # 0
    BY Counted DEF CrashOperator, Kept, journal, world, IInv
<1>2. Shared'
    BY <1>1 DEF Kept, Types, Shared, Calls
<1>3. OpTurn(o) /\ op'[o].pc = "idle" /\ \A i \in Calls : op'[o].seen[i] = "none"
    BY <1>1, <1>2, OpStop
<1>4. UnwindInv(o)'
    BY <1>1, <1>3, StoppedKeeps
<1>5. \A i \in Calls : refunds[i] <= refunds'[i] /\ RefundInv(i)'
    BY <1>1 DEF IInv, Types, Shared, RefundInv
<1> QED
    BY <1>1, <1>3, <1>4, <1>5, OperatorKeeps

\* A claim goes stale: either its operator is gone, so there was a fault, or it is outlived.
LEMMA StaleCompKeeps ==
    ASSUME IInv, NEW k \in Calls, StaleComp(k)
    PROVE  IInv' /\ outcome' = outcome
<1>1. /\ UNCHANGED <<plan, model, tool, canceled, condemned, outcome, clock, lock, pc, loc, op, effects, refunds, faults, late>>
      /\ comp[k].is = "running" /\ outlived' = (IF op[comp[k].by].pc = "idle" THEN outlived ELSE outlived \cup {k}) /\ comp' = [comp EXCEPT ![k].is = "stale"]
      /\ Types /\ comp \in [Calls -> CompRecords] /\ Calls' = Calls
    BY DEF StaleComp, journal, world, bounds, IInv, Types, Shared, Calls
<1>2. faults = 0 => k \in outlived'
    BY <1>1 DEF IInv, ClaimInv
<1> DEFINE c == [comp[k] EXCEPT !.is = "stale"]
<1>3. c \in CompRecords /\ c.is = "stale" /\ comp' = [comp EXCEPT ![k] = c]
    BY <1>1 DEF CompRecords
<1> HIDE DEF c
<1>4. comp' \in [Calls -> CompRecords] /\ comp'[k] = c /\ \A i \in Calls : i # k => comp'[i] = comp[i]
    BY <1>1, <1>3
<1>5. Types'
    BY <1>1, <1>4 DEF Types, Shared, Locals, Works, Late
<1>6. \A w \in Workers : LoopInv(w)' /\ LateInv(w)'
    BY <1>1 DEF IInv, LoopInv, LateInv, InLoop
<1>7. outcome'.at <= clock' /\ \A a \in Actors : VerdictInv(a)'
    BY <1>1 DEF IInv, VerdictInv
<1>8. \A o \in Operators : UnwindInv(o)'
    BY <1>1 DEF IInv, UnwindInv
<1>9. ASSUME NEW i \in Calls PROVE CallInv(i)' /\ RefundInv(i)'
    <2>1. CallInv(i) /\ RefundInv(i) /\ (i = k \/ comp'[i] = comp[i])
        BY <1>4 DEF IInv
    <2> QED
        BY <1>1, <1>3, <1>4, <2>1 DEF CallInv, RefundInv
<1>10. ASSUME faults' = 0 PROVE (\A i \in Calls : ClaimInv(i)') /\ (\A o \in Operators : HolderInv(o)')
    <2>1. outlived \subseteq outlived' /\ k \in outlived' /\ (\A i \in Calls : ClaimInv(i)) /\ (\A o \in Operators : HolderInv(o))
        BY <1>1, <1>2, <1>10 DEF IInv
    <2>2. ASSUME NEW i \in Calls PROVE ClaimInv(i)'
        <3>1. i \notin outlived' => i \notin outlived /\ comp'[i] = comp[i]
            BY <1>4, <2>1
        <3> QED
            BY <1>1, <2>1, <3>1 DEF ClaimInv
    <2>3. ASSUME NEW o \in Operators PROVE HolderInv(o)'
        <3>1. op[o].pc \in {"hook", "compensated"} => op[o].at \in Calls
            BY <1>1, OpFields DEF IInv, UnwindInv
        <3>2. op[o].at \notin outlived' => op[o].at \notin outlived /\ (op[o].pc \in {"hook", "compensated"} => comp'[op[o].at] = comp[op[o].at])
            BY <1>4, <2>1, <3>1
        <3> QED
            BY <1>1, <2>1, <3>2 DEF HolderInv
    <2> QED
        BY <2>2, <2>3
<1> QED
    BY <1>1, <1>5, <1>6, <1>7, <1>8, <1>9, <1>10 DEF IInv
-----------------------------------------------------------------------------
(* The theorems *)

\* The invariant holds at first.
LEMMA Initially ==
    ASSUME Init PROVE IInv
<1>1. /\ plan \in Plans /\ clock = 1 /\ outcome = NoOutcome /\ NoOutcome.at = 0 /\ NoOutcome.is = "none" /\ NoOutcome \in Outcomes
      /\ NoComp \in CompRecords /\ NoComp.is = "none" /\ model = {} /\ lock = "free" /\ faults = 0
      /\ tool = [i \in Calls |-> "none"] /\ comp = [i \in Calls |-> NoComp] /\ effects = [i \in Calls |-> 0] /\ refunds = [i \in Calls |-> 0]
      /\ pc = [a \in Actors |-> "idle"] /\ loc = [a \in Actors |-> NoLocals] /\ op = [o \in Operators |-> NoWork]
      /\ late = [a \in Actors |-> [steps |-> 0, effects |-> 0]]
      /\ canceled = FALSE /\ condemned = FALSE /\ outlived = {}
    BY DEF Init, NoOutcome, Outcomes, Statuses, NoComp, CompRecords
<1>2. Shared
    BY <1>1 DEF Shared, ToolRecords
<1>3. /\ NoLocals \in Locals /\ NoLocals.at = 0 /\ plan.calls \in Nat /\ 0 \in 0 .. plan.calls /\ Workers \subseteq Actors
    BY <1>2, Empty, Numbers
<1>4. NoWork \in Works /\ NoWork.pc = "idle" /\ NoWork.seen = [i \in Calls |-> "none"]
    BY <1>1, <1>3 DEF NoWork, Works, ToolRecords, OpLabels
<1>5. [steps |-> 0, effects |-> 0] \in Late
    BY DEF Late
<1>6. Types
    BY <1>1, <1>2, <1>3, <1>4, <1>5 DEF Types, Labels
<1>7. outcome.at <= clock /\ \A a \in Actors : VerdictInv(a)
    BY <1>1, <1>3 DEF VerdictInv
<1>8. \A w \in Workers : LoopInv(w) /\ LateInv(w)
    <2> SUFFICES ASSUME NEW w \in Workers PROVE LoopInv(w) /\ LateInv(w)
        OBVIOUS
    <2>1. pc[w] = "idle" /\ late[w].steps = 0 /\ late[w].effects = 0
        BY <1>1, <1>3
    <2> QED
        BY <2>1 DEF LoopInv, InLoop, LateInv
<1>9. \A i \in Calls : CallInv(i) /\ RefundInv(i) /\ ClaimInv(i)
    BY <1>1 DEF CallInv, RefundInv, ClaimInv
<1>10. \A o \in Operators : UnwindInv(o) /\ HolderInv(o)
    BY <1>1, <1>4 DEF UnwindInv, HolderInv
<1> QED
    BY <1>6, <1>7, <1>8, <1>9, <1>10 DEF IInv

\* Every step keeps it, and no step makes the verdict older.
LEMMA Inductive ==
    ASSUME IInv, [Next]_vars
    PROVE  IInv' /\ outcome'.at >= outcome.at /\ (outcome.is = "canceled" => outcome'.is # "running")
<1>1. ASSUME IInv' /\ outcome' = outcome
      PROVE  IInv' /\ outcome'.at >= outcome.at /\ (outcome.is = "canceled" => outcome'.is # "running")
    <2>1. outcome.at \in Nat
        BY DEF IInv, Types, Shared, Outcomes
    <2> QED
        BY <1>1, <2>1
<1>2. ASSUME NEW w \in Workers, Enter(w) \/ RunDurable(w) \/ Crash(w)
      PROVE  IInv' /\ outcome'.at >= outcome.at /\ (outcome.is = "canceled" => outcome'.is # "running")
    <2>1. CASE RecordRunOutcome(w)
        BY <2>1, RecordRunOutcomeKeeps, Quiet
    <2>2. CASE Enter(w) \/ AssertNotCanceled(w) \/ ModelStep(w) \/ CancelGate(w) \/ GetTool(w) \/ CompensationGate(w)
        BY <1>1, <2>2, QuietStepKeeps
    <2>3. CASE AcquireLock(w) \/ Release(w) \/ Crash(w)
        BY <1>1, <2>3, AcquireKeeps, ReleaseKeeps, CrashKeeps
    <2>4. CASE CallModel(w) \/ ClaimTool(w) \/ Execute(w) \/ SaveTool(w)
        BY <1>1, <2>4, CallModelKeeps, ClaimToolKeeps, ExecuteKeeps, SaveToolKeeps
    <2> QED
        BY <1>2, <2>1, <2>2, <2>3, <2>4 DEF RunDurable
<1>3. CASE Cancel
    BY <1>1, <1>3, CancelKeeps
<1>4. CASE RecordRunOutcome(Canceler)
    BY <1>4, RecordRunOutcomeKeeps DEF Actors
<1>5. CASE LapseLock
    BY <1>1, <1>5, LapseKeeps
<1>6. ASSUME NEW o \in Operators, CompensateRun(o) \/ Unwind(o) \/ CrashOperator(o)
      PROVE  IInv' /\ outcome' = outcome
    BY <1>6, CompensateRunKeeps, CrashOperatorKeeps, CondemnKeeps, EntryKeeps, GetCompKeeps, ClaimCompKeeps, HookKeeps, PutCompKeeps DEF Unwind
<1>7. ASSUME NEW i \in Calls, StaleComp(i)
      PROVE  IInv' /\ outcome' = outcome
    BY <1>7, StaleCompKeeps
<1>8. CASE UNCHANGED vars
    <2>1. /\ UNCHANGED <<plan, model, tool, canceled, condemned, outcome, clock, lock, pc, loc, comp, op, effects, refunds, faults, late, outlived>>
          /\ Calls' = Calls
        BY <1>8 DEF vars, journal, world, bounds, Calls
    <2>2. Types'
        BY <2>1 DEF IInv, Types, Shared, Locals, Works, Late
    <2>3. IInv'
        BY <2>1, <2>2 DEF IInv, VerdictInv, LoopInv, InLoop, LateInv, CallInv, RefundInv, UnwindInv, ClaimInv, HolderInv
    <2> QED
        BY <1>1, <2>1, <2>3
<1> QED
    BY <1>1, <1>2, <1>3, <1>4, <1>5, <1>6, <1>7, <1>8 DEF Next

\* Spec => []IInv: holder, records, verdicts and claims agree in every reachable state.
THEOREM Invariance == Spec => []IInv
<1>1. Init => IInv
    BY Initially
<1>2. IInv /\ [Next]_vars => IInv'
    BY Inductive
<1> QED
    BY <1>1, <1>2, PTL DEF Spec

\* After the flag of a cancellation a worker makes at most the model call it was about to make, and
\* after the tombstone at most the side effect it was about to produce (cancel.ts, compensation.ts).
THEOREM StopsHold == Spec => []StopsReach
<1>1. IInv => StopsReach
    BY DEF IInv, LateInv, StopsReach, CancelStopsSpending, CondemnStopsEffects
<1> QED
    BY <1>1, Invariance, PTL

\* Every call has at most one effect, whatever crashes; only what happened is refunded, and, however
\* many operators unwind, once: as long as no hook fails, no operator dies and the call's hook ends
\* within the claim's 30 seconds (durable-tool, compensateRun).
THEOREM EffectsHold == Spec => []EffectsExact
<1>1. ASSUME IInv PROVE EffectsExact
    <2>1. Types /\ plan.calls \in Nat
        BY <1>1, Numbers DEF IInv, Types
    <2>2. EffectOnce /\ RefundsEarned /\ RefundOnce
        BY <1>1 DEF IInv, CallInv, RefundInv, ClaimInv, EffectOnce, RefundsEarned, RefundOnce
    <2>3. \A i \in Calls : /\ tool[i] \in {"none", "running", "succeeded", "failed"}
                            /\ comp[i].is \in {"none", "running", "stale", "compensated", "comp-failed"}
                            /\ tool[i] = "succeeded" => effects[i] > 0
        <3> SUFFICES ASSUME NEW i \in Calls
                     PROVE  /\ tool[i] \in {"none", "running", "succeeded", "failed"}
                            /\ comp[i].is \in {"none", "running", "stale", "compensated", "comp-failed"}
                            /\ tool[i] = "succeeded" => effects[i] > 0
            OBVIOUS
        <3>1. tool[i] \in ToolRecords /\ comp[i] \in CompRecords /\ CallInv(i)
            BY <1>1, <2>1 DEF Types, Shared, IInv
        <3> QED
            BY <3>1 DEF ToolRecords, CompRecords, CallInv
    <2>4. /\ model \subseteq 1 .. plan.calls + 1 /\ lock \in Workers \cup {"free"}
          /\ outcome.is \in {"none", "running", "completed", "failed", "canceled"} /\ outcome.at \in 0 .. clock
        BY <1>1, <2>1 DEF Types, Shared, Outcomes, Statuses, IInv
    <2>5. \A a \in Actors : loc[a].i \in 1 .. plan.calls + 1 /\ loc[a].tries \in 0 .. 2
        BY <2>1, Fields
    <2>6. TypeOK
        BY <2>3, <2>4, <2>5 DEF TypeOK
    <2> QED
        BY <2>2, <2>6 DEF EffectsExact
<1>2. IInv => EffectsExact
    BY <1>1
<1> QED
    BY <1>2, Invariance, PTL

\* A call is refunded only after every later call the operator read as succeeded, whoever unwound it.
THEOREM ReverseHolds == Spec => ReverseOrder
<1> DEFINE InOrder == \A o \in Operators : op[o].pc = "hook" /\ refunds' # refunds =>
                         \A i \in Calls : i > This(o) /\ op[o].seen[i] = "succeeded" => refunds[i] > 0
<1>1. IInv /\ [Next]_vars => [InOrder]_vars
    BY DEF IInv, UnwindInv, This
<1> QED
    BY <1>1, Invariance, PTL DEF Spec, ReverseOrder

\* No verdict is replaced by an older one and no start marker buries a cancellation (outcome.ts),
\* whoever races whom between the read of the record and the conditional put.
THEOREM Monotone == Spec => OutcomeMonotone
<1> DEFINE Forward == /\ outcome'.at >= outcome.at
                      /\ outcome.is = "canceled" => outcome'.is # "running"
<1>1. IInv /\ [Next]_vars => [Forward]_vars
    BY Inductive
<1> QED
    BY <1>1, Invariance, PTL DEF Spec, OutcomeMonotone
=============================================================================
