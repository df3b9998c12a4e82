------------------------------ MODULE OrgUsage ------------------------------
(***************************************************************************)
(* The usage counter of an organization (packages/durable/src/budget.ts)   *)
(* and its correction when a run is erased (retention.ts): a finished run  *)
(* is added once, under its marker; a reader that finds no counter scans   *)
(* the runs and backfills it; a purge subtracts what the marker says was   *)
(* added.  The budget gate (checkBudget) reads the counter and tops it up  *)
(* with the live cost of the runs that are not completed.                  *)
(*                                                                         *)
(* Every run costs 1, and the totals are kept run by run: what a total     *)
(* says of a run is how often its cost is in it.  The store has incrBy.    *)
(***************************************************************************)
EXTENDS Integers

CONSTANTS Runs, Workers, Readers, Purgers,
          Settings   \* what the store holds at first and who is at work

\* counted: the counter already holds the old runs; purge: operators erase
\* runs; bounds: executions of runs, calls of getOrgUsage, processes that die
ASSUME UsageAssumption ==
    \A s \in Settings :
          /\ s.old \subseteq Runs /\ s.maxExecs \in Nat /\ s.maxReads \in Nat /\ s.maxCrashes \in Nat
          /\ s.counted \in BOOLEAN /\ s.purge \in BOOLEAN

VARIABLES setting,   \* the element of Settings this behaviour is about
          data,      \* the run has model records, from which its cost is computed
          outcome,   \* the record `:outcome`
          marker,    \* the runs with a `:usage-counted` marker
          legacy,    \* the document __usage__: the runs in its total
          ctr,       \* the atomic counters under __usage__
          pc, loc,
          execs, reads, crashes,
          erased,    \* history: how far a run's erasure has come, and whether a worker
                     \* was on the run meanwhile
          overtaken, \* history: the runs executed or purged while a reader backfilled
          repurged   \* history: the runs whose purge was begun more than once

store == <<data, outcome, marker, legacy, ctr>>
bounds == <<setting, execs, reads, crashes>>
history == <<erased, overtaken, repurged>>
vars == <<store, pc, loc, bounds, history>>
-----------------------------------------------------------------------------
Actors == Workers \union Readers \union Purgers
Zero == [r \in Runs |-> 0]
One(r) == [Zero EXCEPT ![r] = 1]
Plus(f, g) == [r \in Runs |-> f[r] + g[r]]

\* the run at hand and its cost as read; a reader's listing, and what it has seen;
\* history: the runs that were counted, or live, from the start of the read until
\* now, and whether no worker has been on the run of the purge
NoLocals == [run |-> "none", cost |-> 0, todo |-> {}, done |-> {}, seen |-> Zero,
             counted |-> {}, live |-> {}, alone |-> FALSE]

\* deriveRunStatus: a run without an outcome is older than outcomes, and completed
Completed(r) == outcome[r] \in {"none", "completed"}

Exists == legacy.some \/ ctr.some
InLegacy(r) == IF r \in legacy.of THEN 1 ELSE 0

\* readUsageCounter: what the two totals together say of a run
Total(r) == InLegacy(r) + ctr.of[r]

Init ==
    /\ setting \in Settings
    /\ data = [r \in Runs |-> r \in setting.old]
    /\ outcome = [r \in Runs |-> "none"]
    /\ marker = IF setting.counted THEN setting.old ELSE {}
    /\ legacy = [some |-> setting.counted, of |-> marker]
    /\ ctr = [some |-> FALSE, of |-> Zero]
    /\ pc = [a \in Actors |-> "idle"]
    /\ loc = [a \in Actors |-> NoLocals]
    /\ execs = 0 /\ reads = 0 /\ crashes = 0
    /\ erased = [r \in Runs |-> "no"] /\ overtaken = {} /\ repurged = {}

Go(a, label) == pc' = [pc EXCEPT ![a] = label]
Return(a) == Go(a, "idle") /\ loc' = [loc EXCEPT ![a] = NoLocals]

Crash(a) ==
    /\ pc[a] # "idle" /\ crashes < setting.maxCrashes
    /\ crashes' = crashes + 1
    /\ Return(a)
    /\ UNCHANGED <<store, setting, execs, reads, history>>

\* A purge of the run has begun (and may have died half-way).
Erasing(r) == erased[r] # "no"

\* A reader that found no counter has yet to put what it backfills.
Backfilling(u) == pc[u] \in {"scan", "scan-costs", "mark", "put"}
Overtake(r) == overtaken' = IF \E u \in Readers : Backfilling(u) THEN overtaken \union {r} ELSE overtaken

\* listRuns
Listed == {r \in Runs : data[r]}

\* getRunCost: the run's journaled steps
Cost(r) == IF data[r] THEN 1 ELSE 0
-----------------------------------------------------------------------------
(* A run's execution and recordRunUsage at its end *)

\* A host executes a run, or one again that ended, was suspended or has crashed;
\* the id of an erased run is not used again.
Execute(w, r) ==
    /\ pc[w] = "idle" /\ execs < setting.maxExecs /\ erased[r] \in {"no", "begun"}
    /\ execs' = execs + 1
    /\ data' = [data EXCEPT ![r] = TRUE]
    /\ outcome' = [outcome EXCEPT ![r] = "running"]
    /\ loc' = [a \in Actors |->
                 IF a = w THEN [NoLocals EXCEPT !.run = r]
                 ELSE IF loc[a].run = r THEN [loc[a] EXCEPT !.alone = FALSE] ELSE loc[a]]
    /\ Go(w, "claim")
    /\ Overtake(r)
    /\ UNCHANGED <<marker, legacy, ctr, setting, reads, crashes, erased, repurged>>

\* mutant: the marker is put after the counter, as it once was
ClaimMarkerLate(w) ==
    /\ pc[w] = "claim"
    /\ Go(w, IF loc[w].run \in marker THEN "succeed" ELSE "cost")
    /\ UNCHANGED <<store, loc, bounds, history>>

\* The claim of the marker: who does not win it does not count.
ClaimMarker(w) ==
    /\ pc[w] = "claim"
    /\ Go(w, IF loc[w].run \in marker THEN "succeed" ELSE "cost")
    /\ marker' = marker \union {loc[w].run}
    /\ UNCHANGED <<data, outcome, legacy, ctr, loc, bounds, history>>

\* getRunCost of the finished run
ReadCost(w) ==
    /\ pc[w] = "cost"
    /\ loc' = [loc EXCEPT ![w].cost = Cost(loc[w].run)]
    /\ Go(w, "add")
    /\ UNCHANGED <<store, bounds, history>>

\* addUsage: incrBy
AddUsage(w) ==
    /\ pc[w] = "add"
    /\ ctr' = [some |-> TRUE, of |-> [ctr.of EXCEPT ![loc[w].run] = @ + loc[w].cost]]
    /\ Go(w, "succeed")
    /\ UNCHANGED <<data, outcome, marker, legacy, loc, bounds, history>>

\* runSucceeded
Succeed(w) ==
    /\ pc[w] = "succeed"
    /\ outcome' = [outcome EXCEPT ![loc[w].run] = "completed"]
    /\ loc' = [a \in Actors |-> IF a = w THEN NoLocals ELSE [loc[a] EXCEPT !.live = @ \ {loc[w].run}]]
    /\ Go(w, "idle")
    /\ UNCHANGED <<data, marker, legacy, ctr, bounds, history>>
-----------------------------------------------------------------------------
(* getOrgUsage, as checkBudget calls it (with the live cost) *)

GetLegacy(u) ==
    /\ pc[u] = "idle" /\ reads < setting.maxReads
    /\ reads' = reads + 1
    /\ loc' = [loc EXCEPT ![u] = [NoLocals EXCEPT
                 !.seen = [r \in Runs |-> InLegacy(r)],
                 !.counted = {r \in Listed : ~Erasing(r) /\ Total(r) >= 1},
                 !.live = {r \in Listed : ~Erasing(r) /\ ~Completed(r)}]]
    /\ Go(u, IF legacy.some THEN "counters" ELSE "counter?")
    /\ UNCHANGED <<store, setting, execs, crashes, history>>

GetCounters(u) ==
    /\ pc[u] \in {"counters", "counter?"}
    /\ \/ /\ pc[u] = "counters" \/ ctr.some
          /\ loc' = [loc EXCEPT ![u].seen = Plus(@, ctr.of)]
          /\ Go(u, "top-up")
          /\ UNCHANGED overtaken
       \/ /\ pc[u] = "counter?" /\ ~ctr.some
          /\ overtaken' = overtaken \union {r \in Runs : \E a \in Actors : loc[a].run = r}
          /\ Go(u, "scan") /\ UNCHANGED loc
    /\ UNCHANGED <<store, bounds, erased, repurged>>

\* mutant: the counter alone is taken to be sufficient
ListLiveNone(u) ==
    /\ pc[u] = "top-up"
    /\ Go(u, "return")
    /\ UNCHANGED <<store, loc, bounds, history>>

\* The counter exists: the runs that are not completed are topped up.
ListLive(u) ==
    /\ pc[u] = "top-up"
    /\ loc' = [loc EXCEPT ![u].todo = {r \in Listed : ~Completed(r)}]
    /\ Go(u, "costs")
    /\ UNCHANGED <<store, bounds, history>>

\* No counter: the full scan, and the runs to backfill.
ListAll(u) ==
    /\ pc[u] = "scan"
    /\ loc' = [loc EXCEPT ![u].todo = Listed, ![u].done = {r \in Listed : Completed(r)}]
    /\ Go(u, "scan-costs")
    /\ UNCHANGED <<store, bounds, history>>

\* The cost of the next listed run; one that was erased since then costs nothing.
AddCost(u) ==
    /\ pc[u] \in {"costs", "scan-costs"}
    /\ \/ \E r \in loc[u].todo :
             /\ loc' = [loc EXCEPT ![u].todo = @ \ {r}, ![u].seen[r] = @ + Cost(r)]
             /\ UNCHANGED pc
       \/ /\ loc[u].todo = {}
          /\ Go(u, IF pc[u] = "costs" THEN "return" ELSE "mark")
          /\ loc' = [loc EXCEPT ![u].todo = loc[u].done]
    /\ UNCHANGED <<store, bounds, history>>

\* The backfill marks the completed runs one by one,
Mark(u) ==
    /\ pc[u] = "mark"
    /\ \/ \E r \in loc[u].todo :
             /\ marker' = marker \union {r}
             /\ loc' = [loc EXCEPT ![u].todo = @ \ {r}]
             /\ UNCHANGED pc
       \/ loc[u].todo = {} /\ Go(u, "put") /\ UNCHANGED <<loc, marker>>
    /\ UNCHANGED <<data, outcome, legacy, ctr, bounds, history>>

\* and puts the total of what they cost.
PutLegacy(u) ==
    /\ pc[u] = "put"
    /\ legacy' = [some |-> TRUE, of |-> {r \in loc[u].done : loc[u].seen[r] >= 1}]
    /\ Go(u, "return")
    /\ UNCHANGED <<data, outcome, marker, ctr, loc, bounds, history>>

Returned(u) ==
    /\ pc[u] = "return"
    /\ Return(u)
    /\ UNCHANGED <<store, bounds, history>>
-----------------------------------------------------------------------------
(* purgeRun: uncountUsage before the deletion *)

Purge(p, r) ==
    /\ setting.purge /\ pc[p] = "idle" /\ data[r]
    /\ loc' = [a \in Actors |->
                 IF a = p THEN [NoLocals EXCEPT !.run = r, !.alone = \A w \in Workers : loc[w].run # r]
                 ELSE [loc[a] EXCEPT !.counted = @ \ {r}, !.live = @ \ {r}]]
    /\ erased' = [erased EXCEPT ![r] = "begun"]
    /\ repurged' = IF Erasing(r) THEN repurged \union {r} ELSE repurged
    /\ Overtake(r)
    /\ Go(p, "marker")
    /\ UNCHANGED <<store, bounds>>

\* Only a marked run is subtracted, and only if there is a counter.
GetMarker(p) ==
    /\ pc[p] = "marker"
    /\ Go(p, IF loc[p].run \in marker THEN "counter" ELSE "delete")
    /\ UNCHANGED <<store, loc, bounds, history>>

GetUsage(p) ==
    /\ pc[p] = "counter"
    /\ Go(p, IF Exists THEN "purge-cost" ELSE "delete")
    /\ UNCHANGED <<store, loc, bounds, history>>

PurgeCost(p) ==
    /\ pc[p] = "purge-cost"
    /\ loc' = [loc EXCEPT ![p].cost = Cost(loc[p].run)]
    /\ Go(p, "subtract")
    /\ UNCHANGED <<store, bounds, history>>

Subtract(p) ==
    /\ pc[p] = "subtract"
    /\ ctr' = [some |-> TRUE, of |-> [ctr.of EXCEPT ![loc[p].run] = @ - loc[p].cost]]
    /\ Go(p, "delete")
    /\ UNCHANGED <<data, outcome, marker, legacy, loc, bounds, history>>

\* purgeOwnNamespace: the run's records, its outcome and its marker go
Delete(p) ==
    /\ pc[p] = "delete"
    /\ LET r == loc[p].run IN
         /\ data' = [data EXCEPT ![r] = FALSE]
         /\ outcome' = [outcome EXCEPT ![r] = "none"]
         /\ marker' = marker \ {r}
         /\ erased' = [erased EXCEPT ![r] = IF loc[p].alone /\ @ # "raced" THEN "alone" ELSE "raced"]
    /\ Return(p)
    /\ UNCHANGED <<legacy, ctr, bounds, overtaken, repurged>>
-----------------------------------------------------------------------------
Record(w) == ClaimMarker(w) \/ ReadCost(w) \/ AddUsage(w) \/ Succeed(w)

GetOrgUsage(u) ==
    \/ GetCounters(u) \/ ListLive(u) \/ ListAll(u) \/ AddCost(u)
    \/ Mark(u) \/ PutLegacy(u) \/ Returned(u)

PurgeRun(p) == GetMarker(p) \/ GetUsage(p) \/ PurgeCost(p) \/ Subtract(p) \/ Delete(p)

Next ==
    \/ \E w \in Workers : Record(w) \/ \E r \in Runs : Execute(w, r)
    \/ \E u \in Readers : GetLegacy(u) \/ GetOrgUsage(u)
    \/ \E p \in Purgers : PurgeRun(p) \/ \E r \in Runs : Purge(p, r)
    \/ \E a \in Actors : Crash(a)

Spec == Init /\ [][Next]_vars
-----------------------------------------------------------------------------
(* Properties *)

\* The types of the store and of the actors' locals.
TypeOK ==
    /\ data \in [Runs -> BOOLEAN]
    /\ outcome \in [Runs -> {"none", "running", "completed"}]
    /\ marker \subseteq Runs
    /\ legacy \in [some : BOOLEAN, of : SUBSET Runs]
    /\ ctr.some \in BOOLEAN /\ \A r \in Runs : ctr.of[r] \in Int
    /\ \A a \in Actors : loc[a].todo \subseteq Runs /\ loc[a].done \subseteq Runs /\ loc[a].cost \in 0 .. 1

\* A run is never billed twice ("never overbills"), by the atomic counter and the
\* legacy document together: not by a second execution, by two at once, by one that
\* follows a crash, or by one of a run that a backfill has counted.  Only a run that
\* is executed while a reader backfills can be (see BilledOnce).
CountedOnce == \A r \in Runs \ overtaken : Total(r) <= 1

\* The budget gate sees the cost of every run that was in the counter when it
\* began to read, and of every run that was live from then until it returned; only
\* a run that completes in between, or is being erased, can be missing.
GateSeesSpending ==
    \A u \in Readers : pc[u] = "return" => \A r \in loc[u].counted \union loc[u].live : loc[u].seen[r] >= 1

\* A run that was erased while no worker was on it leaves no cost behind, whether
\* the legacy document or the atomic counter held it, and whatever crashed; and
\* what is taken out is what was in, unless a process died or the purge was begun
\* twice (see NeverNegative).
NoGhost ==
    \A r \in Runs \ overtaken : erased[r] = "alone" =>
        Total(r) <= 0 /\ (crashes = 0 /\ r \notin repurged => Total(r) = 0)

\* The backfill of an old journal counts every run in it that is not executed again
\* or erased, also when two readers do it at once, when one dies between the markers
\* and the total, and while workers and purgers are at other runs.
BackfillWhole == legacy.some => \A r \in setting.old : outcome[r] = "none" /\ ~Erasing(r) => Total(r) = 1

\* A completed run that no worker is on any more is in the counter, unless a process
\* died or the run is being erased, or was executed while a reader backfilled: no
\* concurrent completion is lost.
CompletedIsCounted ==
    \A r \in Runs \ overtaken :
        outcome[r] = "completed" /\ crashes = 0 /\ ~Erasing(r) /\ (\A w \in Workers : loc[w].run # r) => Total(r) >= 1

\* A run that is not executed or purged while a reader backfills the first counter is
\* counted exactly once: not twice, not lost when it completes or by the backfill, and
\* no longer when it is erased (and everything has its type).
CountedExactly == TypeOK /\ CountedOnce /\ CompletedIsCounted /\ BackfillWhole /\ NoGhost
-----------------------------------------------------------------------------
(* Said in the code's comments and not true of it (README, Disagreements)  *)

\* budget.ts:269-270, "never overbills": a reader that found no counter lists a
\* run which has been counted since, and its backfill counts it again.
BilledOnce == \A r \in Runs : Total(r) <= 1

\* retention.ts:153-156: a purge that is done again after a crash, or at the same
\* time by two operators, subtracts twice, and hides another run's cost.
NeverNegative == \A r \in Runs : Total(r) >= 0
=============================================================================
