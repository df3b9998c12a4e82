-------------------------- MODULE OrgUsageProofs --------------------------
(***************************************************************************)
(* Proofs about the usage counter, for any runs, workers, readers and      *)
(* purgers, and every setting: any number of executions, reads, purges and *)
(* crashes.                                                                *)
(***************************************************************************)
EXTENDS OrgUsage, TLAPS

WorkLabels == {"claim", "cost", "add", "succeed"}
ReadLabels == {"counters", "counter?", "top-up", "costs", "scan", "scan-costs", "mark", "put", "return"}
PurgeLabels == {"marker", "counter", "purge-cost", "subtract", "delete"}
Labels == {"idle"} \cup WorkLabels \cup ReadLabels \cup PurgeLabels
Locals == [run : Runs \cup {"none"}, cost : 0 .. 1, todo : SUBSET Runs, done : SUBSET Runs, seen : [Runs -> Int],
           counted : SUBSET Runs, live : SUBSET Runs, alone : BOOLEAN]

\* The types of the store ...
StoreTypes ==
    /\ setting \in Settings /\ data \in [Runs -> BOOLEAN] /\ outcome \in [Runs -> {"none", "running", "completed"}]
    /\ marker \in SUBSET Runs /\ legacy \in [some : BOOLEAN, of : SUBSET Runs] /\ ctr \in [some : BOOLEAN, of : [Runs -> Int]]
    /\ execs \in Nat /\ reads \in Nat /\ crashes \in Nat
    /\ erased \in [Runs -> {"no", "begun", "alone", "raced"}] /\ overtaken \in SUBSET Runs /\ repurged \in SUBSET Runs

\* ... and of those who act, each at the places of its own role.
Types ==
    /\ StoreTypes
    /\ pc \in [Actors -> Labels] /\ loc \in [Actors -> Locals]
    /\ \A a \in Actors :
          /\ pc[a] \in WorkLabels => a \in Workers /\ loc[a].run \in Runs
          /\ pc[a] \in ReadLabels => a \in Readers
          /\ pc[a] \in PurgeLabels => a \in Purgers /\ loc[a].run \in Runs

On(a, r) == pc[a] \in WorkLabels /\ loc[a].run = r
Purging(a, r) == pc[a] \in PurgeLabels /\ loc[a].run = r
Heavy(a, r) == loc[a].run = r /\ ((pc[a] = "cost" /\ data[r]) \/ (pc[a] = "add" /\ loc[a].cost = 1))
Late(u) == pc[u] \in {"scan-costs", "mark", "put"}

\* Nobody died and the run's purge was begun once.
Calm(r) == crashes = 0 /\ r \notin repurged

\* How far the erasure is tells whether there is data.
DataInv(r) ==
    /\ erased[r] = "begun" => data[r]
    /\ erased[r] \in {"alone", "raced"} => ~data[r]
    /\ ~data[r] /\ erased[r] = "no" => Total(r) <= 0 /\ r \notin marker /\ \A a \in Actors : ~On(a, r)
    /\ \A p \in Actors : Purging(p, r) => erased[r] # "no"
    /\ r \notin repurged => \A p, q \in Actors : Purging(p, r) /\ Purging(q, r) => p = q

\* At most one worker is about to add the run's cost, and only if nothing is billed yet.
BillInv(r) ==
    r \notin overtaken =>
        /\ Total(r) <= 1
        /\ data[r] /\ r \notin marker => Total(r) <= 0 /\ \A a \in Actors : ~Heavy(a, r)
        /\ \A a \in Actors : Heavy(a, r) => Total(r) <= 0
        /\ \A a, b \in Actors : Heavy(a, r) /\ Heavy(b, r) => a = b

\* A purge that no worker has met finds the run's cost in the totals and takes it out.
PurgeInv(p, r) ==
    Purging(p, r) /\ loc[p].alone /\ r \notin overtaken =>
        /\ \A a \in Actors : ~On(a, r)
        /\ erased[r] = "begun" =>
              /\ pc[p] = "subtract" => loc[p].cost = 1
              /\ pc[p] = "delete" => Total(r) <= 0
              /\ Calm(r) =>
                    /\ Total(r) >= 0
                    /\ pc[p] = "marker" /\ r \in marker => Total(r) >= 1
                    /\ pc[p] \in {"counter", "purge-cost", "subtract"} => Total(r) >= 1
GhostInv(r) ==
    erased[r] = "alone" /\ r \notin overtaken =>
        /\ Total(r) <= 0 /\ \A a \in Actors : ~On(a, r)
        /\ Calm(r) => Total(r) >= 0
        /\ r \notin repurged => \A a \in Actors : ~Purging(a, r)

Counting(r) == \E a \in Actors : loc[a].run = r /\ pc[a] \in {"cost", "add"}

\* While nobody dies, a marked run is billed or about to be, and a completed one is
\* marked; an old run that nobody has touched is where the backfill has put it.
DoneInv(r) ==
    erased[r] = "no" =>
        /\ \A a \in Actors : pc[a] = "add" /\ loc[a].run = r => loc[a].cost = 1
        /\ data[r] /\ r \notin setting.old => outcome[r] # "none"
        /\ outcome[r] = "completed" \/ (\E a \in Actors : pc[a] \in {"cost", "add", "succeed"} /\ loc[a].run = r) => r \in marker
        /\ outcome[r] = "none" => \A a \in Actors : ~On(a, r)
        /\ crashes = 0 /\ outcome[r] = "running" => \E a \in Actors : On(a, r)
        /\ r \notin overtaken /\ crashes = 0 /\ r \in marker =>
              Total(r) >= 1 \/ Counting(r) \/ (outcome[r] = "none" /\ \E u \in Actors : pc[u] \in {"mark", "put"})
        /\ r \in setting.old /\ outcome[r] = "none" => data[r] /\ ctr.of[r] = 0 /\ (legacy.some => r \in legacy.of)

\* What a reader has seen of a run it owes the gate, by its place
Owed(u, r) ==
    /\ r \in loc[u].counted =>
          /\ erased[r] = "no"
          /\ pc[u] \in {"counters", "counter?"} => loc[u].seen[r] + ctr.of[r] >= 1
          /\ pc[u] \notin {"counters", "counter?"} => loc[u].seen[r] >= 1
    /\ r \in loc[u].live =>
          /\ erased[r] = "no" /\ data[r] /\ outcome[r] = "running"
          /\ loc[u].seen[r] >= 0
          /\ pc[u] \in {"costs", "scan-costs"} => r \in loc[u].todo \/ loc[u].seen[r] >= 1
          /\ pc[u] \in {"mark", "put", "return"} => loc[u].seen[r] >= 1
SeenInv(u) == pc[u] \in ReadLabels => \A r \in Runs : Owed(u, r)

\* What a backfill holds of a run: of one that is neither executed nor purged meanwhile,
\* that it is completed and what it costs; and the marker, once it is put.
Held(u, r) ==
    /\ r \in loc[u].done /\ ~data[r] => r \in overtaken /\ erased[r] # "no"
    /\ r \in loc[u].done /\ data[r] /\ (pc[u] = "put" \/ (pc[u] = "mark" /\ r \notin loc[u].todo)) => r \in marker
    /\ erased[r] = "no" /\ data[r] /\ (r \notin overtaken \/ outcome[r] = "none") =>
          /\ r \in loc[u].done => outcome[r] # "running"
          /\ outcome[r] # "running" =>
                /\ r \in loc[u].done
                /\ r \in loc[u].todo \/ loc[u].seen[r] >= 1
                /\ pc[u] \in {"mark", "put"} => loc[u].seen[r] >= 1

\* A reader backfills only where nothing is counted: what is executed or purged
\* meanwhile is overtaken, and of the rest the atomic counter says nothing.
ScanInv(u) ==
    /\ pc[u] = "counter?" \/ Backfilling(u) => ~setting.counted /\ \A r \in Runs : loc[u].seen[r] >= 0
    /\ Backfilling(u) =>
          /\ \A a \in Actors : pc[a] \in WorkLabels \cup PurgeLabels => loc[a].run \in overtaken
          /\ \A r \in Runs : r \notin overtaken => ctr.of[r] = 0
    /\ Late(u) => \A r \in Runs : Held(u, r)
    /\ pc[u] = "mark" => loc[u].todo \subseteq loc[u].done

\* No document, no total.
TotalsInv ==
    /\ ~legacy.some => legacy.of = {}
    /\ ~ctr.some => \A r \in Runs : ctr.of[r] = 0
    /\ \A r \in Runs : erased[r] = "no" => ctr.of[r] >= 0
    /\ setting.counted => legacy.some

IInv ==
    /\ Types /\ TotalsInv
    /\ \A r \in Runs : DataInv(r) /\ BillInv(r) /\ GhostInv(r) /\ DoneInv(r)
    /\ \A a \in Actors : (\A r \in Runs : PurgeInv(a, r)) /\ SeenInv(a) /\ ScanInv(a)

\* The settings are what they should be.
LEMMA SettingFacts ==
    ASSUME setting \in Settings
    PROVE  /\ setting.old \subseteq Runs /\ setting.maxExecs \in Nat
           /\ setting.counted \in BOOLEAN /\ setting.purge \in BOOLEAN
BY UsageAssumption

\* The locals of an actor at rest have their types.
LEMMA EmptyLocals == NoLocals \in Locals /\ NoLocals.counted = {} /\ NoLocals.live = {} /\ NoLocals.alone = FALSE
<1>1. Zero \in [Runs -> Int]
    BY DEF Zero
<1> QED
    BY <1>1 DEF NoLocals, Locals

\* A reader's locals once it has begun
LEMMA Reading ==
    ASSUME NEW x \in Locals, NEW A \in [Runs -> Int], NEW B \in SUBSET Runs, NEW C \in SUBSET Runs
    PROVE  [x EXCEPT !.seen = A, !.counted = B, !.live = C] \in Locals
BY DEF Locals

\* The invariant holds of every first state.
LEMMA Begin == ASSUME Init PROVE IInv
<1>1. /\ setting \in Settings /\ setting.old \subseteq Runs /\ setting.maxExecs \in Nat
      /\ setting.counted \in BOOLEAN /\ setting.purge \in BOOLEAN
    BY SettingFacts DEF Init
<1>2. \A a \in Actors : pc[a] = "idle" /\ loc[a] = NoLocals
    BY DEF Init
<1>3. Zero \in [Runs -> Int] /\ \A r \in Runs : Zero[r] = 0
    BY DEF Zero
<1>4. Types
    <2>1. StoreTypes
        BY <1>1, <1>3 DEF Init, StoreTypes
    <2>2. pc \in [Actors -> Labels] /\ loc \in [Actors -> Locals]
        BY EmptyLocals DEF Init, Labels
    <2> QED
        BY <1>2, <2>1, <2>2 DEF Types, WorkLabels, ReadLabels, PurgeLabels
<1>5. TotalsInv
    BY <1>1, <1>2, <1>3 DEF Init, TotalsInv
<1>6. ASSUME NEW r \in Runs PROVE DataInv(r) /\ BillInv(r) /\ GhostInv(r) /\ DoneInv(r)
    <2>1. /\ erased[r] = "no" /\ ctr.of[r] = 0 /\ data[r] = (r \in setting.old) /\ outcome[r] = "none"
          /\ marker = (IF setting.counted THEN setting.old ELSE {}) /\ legacy.of = marker
        BY <1>3 DEF Init
    <2>2. \A a \in Actors : ~On(a, r) /\ ~Heavy(a, r) /\ ~Purging(a, r) /\ pc[a] \notin {"cost", "add", "succeed"}
        BY <1>2 DEF On, Heavy, Purging, WorkLabels, PurgeLabels
    <2>3. Total(r) = IF setting.counted /\ r \in setting.old THEN 1 ELSE 0
        BY <1>1, <2>1 DEF Total, InLegacy
    <2>4. DataInv(r)
        BY <1>1, <2>1, <2>2, <2>3 DEF DataInv
    <2>5. BillInv(r)
        BY <1>1, <2>1, <2>2, <2>3 DEF BillInv
    <2>6. GhostInv(r)
        BY <2>1 DEF GhostInv
    <2>7. DoneInv(r)
        <3>1. r \in marker => Total(r) >= 1
            BY <1>1, <2>1, <2>3
        <3>2. r \in setting.old => data[r] /\ (legacy.some => r \in legacy.of)
            BY <1>1, <2>1 DEF Init
        <3> QED
            BY <2>1, <2>2, <3>1, <3>2 DEF DoneInv
    <2> QED
        BY <2>4, <2>5, <2>6, <2>7
<1>7. ASSUME NEW a \in Actors PROVE (\A r \in Runs : PurgeInv(a, r)) /\ SeenInv(a) /\ ScanInv(a)
    BY <1>2 DEF PurgeInv, Purging, SeenInv, ScanInv, Backfilling, Late, PurgeLabels, ReadLabels
<1> QED
    BY <1>4, <1>5, <1>6, <1>7 DEF IInv

\* A step of a reader
ReaderMoves(u) ==
    /\ UNCHANGED <<setting, data, outcome, ctr, erased, repurged, crashes>>
    /\ \A a \in Actors : a # u => pc'[a] = pc[a] /\ loc'[a] = loc[a]
    /\ pc[u] \in ReadLabels \cup {"idle"} /\ pc'[u] \in ReadLabels \cup {"idle"}
    /\ marker \subseteq marker' /\ overtaken \subseteq overtaken'

\* Nobody comes to a run or leaves one.
LEMMA ReaderSame ==
    ASSUME NEW u \in Actors, ReaderMoves(u), NEW r \in Runs
    PROVE  /\ \A a \in Actors : (On(a, r)' <=> On(a, r)) /\ (Heavy(a, r)' <=> Heavy(a, r)) /\ (Purging(a, r)' <=> Purging(a, r))
           /\ Counting(r)' <=> Counting(r)
           /\ Calm(r)' <=> Calm(r)
           /\ \A a \in Actors : pc[a] \in WorkLabels \cup PurgeLabels \/ pc'[a] \in WorkLabels \cup PurgeLabels
                                 => pc'[a] = pc[a] /\ loc'[a] = loc[a]
<1>1. \A a \in Actors : pc[a] \in WorkLabels \cup PurgeLabels \/ pc'[a] \in WorkLabels \cup PurgeLabels
                          => pc'[a] = pc[a] /\ loc'[a] = loc[a]
    BY DEF ReaderMoves, WorkLabels, PurgeLabels, ReadLabels
<1>2. \A a \in Actors : (On(a, r)' <=> On(a, r)) /\ (Purging(a, r)' <=> Purging(a, r))
    BY <1>1 DEF On, Purging
<1>3. \A a \in Actors : Heavy(a, r)' <=> Heavy(a, r)
    BY <1>1 DEF ReaderMoves, Heavy, WorkLabels
<1>4. Counting(r)' <=> Counting(r)
    BY <1>1 DEF Counting, WorkLabels
<1> QED
    BY <1>1, <1>2, <1>3, <1>4 DEF ReaderMoves, Calm

RunInv(r) == DataInv(r) /\ BillInv(r) /\ GhostInv(r) /\ DoneInv(r) /\ \A a \in Actors : PurgeInv(a, r)

\* A step that puts neither a marker nor a total changes nothing of what is said of a run.
LEMMA ReaderRuns ==
    ASSUME IInv, NEW u \in Actors, ReaderMoves(u), UNCHANGED <<marker, legacy>>, NEW r \in Runs,
           pc[u] \in {"mark", "put"} => pc'[u] \in {"mark", "put"}
    PROVE  RunInv(r)'
<1>1. DataInv(r) /\ BillInv(r) /\ GhostInv(r) /\ DoneInv(r) /\ \A a \in Actors : PurgeInv(a, r)
    BY DEF IInv
<1>2. /\ data' = data /\ outcome' = outcome /\ erased' = erased /\ setting' = setting /\ crashes' = crashes /\ repurged' = repurged
      /\ ctr' = ctr /\ marker' = marker /\ legacy' = legacy /\ (r \in overtaken => r \in overtaken')
    BY DEF ReaderMoves
<1>3. Total(r)' = Total(r)
    BY <1>2 DEF Total, InLegacy
<1>4. /\ \A a \in Actors : (On(a, r)' <=> On(a, r)) /\ (Heavy(a, r)' <=> Heavy(a, r)) /\ (Purging(a, r)' <=> Purging(a, r))
      /\ Counting(r)' <=> Counting(r)
      /\ Calm(r)' <=> Calm(r)
      /\ \A a \in Actors : pc[a] \in WorkLabels \cup PurgeLabels \/ pc'[a] \in WorkLabels \cup PurgeLabels
                            => pc'[a] = pc[a] /\ loc'[a] = loc[a]
    BY ReaderSame
<1>5. DataInv(r)'
    BY <1>1, <1>2, <1>3, <1>4 DEF DataInv
<1>6. BillInv(r)'
    BY <1>1, <1>2, <1>3, <1>4 DEF BillInv
<1>7. GhostInv(r)'
    BY <1>1, <1>2, <1>3, <1>4 DEF GhostInv
<1>8. DoneInv(r)'
    <2>1. \A a \in Actors : pc'[a] \in {"cost", "add", "succeed"} => pc'[a] = pc[a] /\ loc'[a] = loc[a]
        BY <1>4 DEF WorkLabels
    <2>2. \A a \in Actors : pc[a] \in {"mark", "put"} => pc'[a] \in {"mark", "put"}
        BY DEF ReaderMoves
    <2> QED
        BY <1>1, <1>2, <1>3, <1>4, <2>1, <2>2 DEF DoneInv
<1>9. ASSUME NEW a \in Actors PROVE PurgeInv(a, r)'
    <2>1. Purging(a, r) => pc'[a] = pc[a] /\ loc'[a] = loc[a]
        BY <1>4 DEF Purging
    <2> QED
        BY <1>1, <1>2, <1>3, <1>4, <2>1 DEF PurgeInv
<1> QED
    BY <1>5, <1>6, <1>7, <1>8, <1>9 DEF RunInv

\* What the others hold stays true: the markers and what is overtaken only grow.
LEMMA ReaderFrame ==
    ASSUME IInv, NEW u \in Actors, ReaderMoves(u), Types', TotalsInv', SeenInv(u)', ScanInv(u)', \A r \in Runs : RunInv(r)'
    PROVE  IInv'
<1>1. ASSUME NEW a \in Actors PROVE SeenInv(a)' /\ ScanInv(a)'
    <2>1. CASE a = u
        BY <2>1
    <2>2. CASE a # u
        <3>1. pc'[a] = pc[a] /\ loc'[a] = loc[a] /\ SeenInv(a) /\ ScanInv(a)
            BY <2>2 DEF ReaderMoves, IInv
        <3>2. SeenInv(a)'
            BY <3>1 DEF SeenInv, Owed, ReaderMoves
        <3>3. /\ \A b \in Actors : pc'[b] \in WorkLabels \cup PurgeLabels => pc'[b] = pc[b] /\ loc'[b] = loc[b]
              /\ setting' = setting /\ ctr' = ctr /\ overtaken \subseteq overtaken'
            BY DEF ReaderMoves, WorkLabels, PurgeLabels, ReadLabels
        <3>4. ASSUME Late(a), NEW r \in Runs PROVE Held(a, r)'
            <4>1. Held(a, r)
                BY <3>1, <3>4 DEF ScanInv
            <4> QED
                BY <3>1, <4>1 DEF Held, ReaderMoves
        <3>5. ScanInv(a)'
            <4>1. Late(a)' <=> Late(a)
                BY <3>1 DEF Late
            <4>2. Backfilling(a)' <=> Backfilling(a)
                BY <3>1 DEF Backfilling
            <4> QED
                BY <3>1, <3>3, <3>4, <4>1, <4>2 DEF ScanInv
        <3> QED
            BY <3>2, <3>5
    <2> QED
        BY <2>1, <2>2
<1> QED
    BY <1>1 DEF IInv, RunInv

\* A reader's step has the types if what it holds has.
LEMMA ReaderTypes ==
    ASSUME IInv, NEW u \in Readers, NEW l \in ReadLabels \cup {"idle"}, NEW x \in Locals,
           pc' = [pc EXCEPT ![u] = l], loc' = [loc EXCEPT ![u] = x],
           UNCHANGED <<setting, data, outcome, ctr, erased, repurged, crashes, execs>>, reads' \in Nat,
           marker' \in SUBSET Runs, legacy' \in [some : BOOLEAN, of : SUBSET Runs], overtaken' \in SUBSET Runs
    PROVE  Types' /\ u \in Actors /\ pc'[u] = l /\ loc'[u] = x /\ \A a \in Actors : a # u => pc'[a] = pc[a] /\ loc'[a] = loc[a]
<1>1. Types /\ u \in Actors
    BY DEF IInv, Actors
<1>2. pc' \in [Actors -> Labels] /\ loc' \in [Actors -> Locals]
    BY <1>1 DEF Types, Labels
<1>3. StoreTypes'
    BY <1>1 DEF Types, StoreTypes
<1>4. pc'[u] = l /\ loc'[u] = x /\ \A a \in Actors : a # u => pc'[a] = pc[a] /\ loc'[a] = loc[a]
    BY <1>1 DEF Types
<1>5. l \notin WorkLabels \cup PurgeLabels
    BY DEF WorkLabels, PurgeLabels, ReadLabels
<1> QED
    BY <1>1, <1>2, <1>3, <1>4, <1>5 DEF Types

\* Totals are what they were while no document is put.
LEMMA ReaderTotals == ASSUME IInv, NEW u \in Actors, ReaderMoves(u), UNCHANGED legacy PROVE TotalsInv'
BY DEF IInv, TotalsInv, ReaderMoves

\* getOrgUsage begins: what is counted or live now is what the gate is owed.
LEMMA GetLegacyStep == ASSUME IInv, NEW u \in Readers, GetLegacy(u) PROVE IInv'
<1> DEFINE x == [NoLocals EXCEPT
                 !.seen = [r \in Runs |-> InLegacy(r)],
                 !.counted = {r \in Listed : ~Erasing(r) /\ Total(r) >= 1},
                 !.live = {r \in Listed : ~Erasing(r) /\ ~Completed(r)}]
           l == IF legacy.some THEN "counters" ELSE "counter?"
<1>1. x \in Locals
    <2>1. [r \in Runs |-> InLegacy(r)] \in [Runs -> Int] /\ Listed \subseteq Runs
        BY DEF InLegacy, Listed
    <2>2. {r \in Listed : ~Erasing(r) /\ Total(r) >= 1} \subseteq Runs /\ {r \in Listed : ~Erasing(r) /\ ~Completed(r)} \subseteq Runs
        BY <2>1
    <2> QED
        BY <2>1, <2>2, EmptyLocals, Reading
<1>2. /\ x.seen = [r \in Runs |-> InLegacy(r)]
      /\ x.counted = {r \in Listed : ~Erasing(r) /\ Total(r) >= 1}
      /\ x.live = {r \in Listed : ~Erasing(r) /\ ~Completed(r)}
    BY DEF NoLocals
<1> HIDE DEF x
<1>3. /\ loc' = [loc EXCEPT ![u] = x] /\ pc' = [pc EXCEPT ![u] = l] /\ pc[u] = "idle" /\ reads' = reads + 1
      /\ UNCHANGED <<store, setting, execs, crashes, history>>
    BY DEF GetLegacy, Go, x
<1>4. l \in {"counters", "counter?"} /\ l \in ReadLabels
    BY DEF ReadLabels
<1> HIDE DEF l
<1>5. StoreTypes /\ reads' \in Nat
    BY <1>3 DEF IInv, Types, StoreTypes
<1>6. Types' /\ u \in Actors /\ pc'[u] = l /\ loc'[u] = x /\ \A a \in Actors : a # u => pc'[a] = pc[a] /\ loc'[a] = loc[a]
    BY <1>1, <1>3, <1>4, <1>5, ReaderTypes DEF store, history, StoreTypes
<1>7. ReaderMoves(u)
    BY <1>3, <1>4, <1>6 DEF ReaderMoves, store, history
<1>8. TotalsInv'
    BY <1>3, <1>6, <1>7, ReaderTotals DEF store
<1>9. SeenInv(u)'
    <2> SUFFICES ASSUME NEW r \in Runs PROVE Owed(u, r)'
        BY DEF SeenInv
    <2>1. ctr.of[r] \in Int /\ InLegacy(r) \in 0 .. 1 /\ x.seen[r] = InLegacy(r) /\ outcome[r] \in {"none", "running", "completed"}
        BY <1>2, <1>5 DEF StoreTypes, InLegacy
    <2>2. r \in x.counted => erased[r] = "no" /\ InLegacy(r) + ctr.of[r] >= 1
        BY <1>2 DEF Erasing, Total
    <2>3. r \in x.live => erased[r] = "no" /\ data[r] /\ outcome[r] = "running"
        BY <1>2, <2>1 DEF Erasing, Completed, Listed
    <2> QED
        BY <1>3, <1>4, <1>6, <2>1, <2>2, <2>3 DEF Owed, store, history
<1>10. ScanInv(u)'
    <2>1. setting.counted => l = "counters"
        BY DEF IInv, TotalsInv, l
    <2>2. \A r \in Runs : x.seen[r] >= 0
        <3>1. \A r \in Runs : InLegacy(r) \in Int /\ InLegacy(r) >= 0
            BY DEF InLegacy
        <3> QED
            BY <1>2, <3>1
    <2>3. setting.counted \in BOOLEAN /\ setting' = setting
        BY <1>3, <1>5, SettingFacts DEF StoreTypes
    <2>4. pc'[u] \in {"counters", "counter?"} /\ (setting.counted => pc'[u] = "counters") /\ \A r \in Runs : loc'[u].seen[r] >= 0
        BY <1>4, <1>6, <2>1, <2>2
    <2> QED
        BY <2>3, <2>4 DEF ScanInv, Backfilling, Late
<1>11. \A r \in Runs : RunInv(r)'
    BY <1>3, <1>6, <1>7, ReaderRuns DEF store
<1> QED
    BY <1>6, <1>7, <1>8, <1>9, <1>10, <1>11, ReaderFrame

\* The two totals together have every run that was counted at the start: the cost a
\* worker adds in between is in the second one.
LEMMA GetCountersStep == ASSUME IInv, NEW u \in Readers, GetCounters(u) PROVE IInv'
<1>1. /\ StoreTypes /\ u \in Actors /\ loc[u] \in Locals /\ SeenInv(u) /\ ScanInv(u) /\ TotalsInv
      /\ pc[u] \in {"counters", "counter?"} /\ pc[u] \in ReadLabels /\ ctr.of \in [Runs -> Int] /\ loc[u].seen \in [Runs -> Int]
    BY DEF IInv, Types, Actors, GetCounters, ReadLabels, Locals, StoreTypes
<1>2. UNCHANGED <<store, bounds, erased, repurged>> /\ setting.counted \in BOOLEAN
    BY <1>1, SettingFacts DEF GetCounters, StoreTypes
<1>3. /\ UNCHANGED <<setting, data, outcome, ctr, erased, repurged, crashes, execs, marker, legacy>> /\ reads' \in Nat
      /\ marker' \in SUBSET Runs /\ legacy' \in [some : BOOLEAN, of : SUBSET Runs]
    BY <1>1, <1>2 DEF store, bounds, StoreTypes
<1>4. {"top-up", "scan"} \subseteq ReadLabels
    BY DEF ReadLabels
<1>5. CASE (pc[u] = "counters" \/ ctr.some) /\ loc' = [loc EXCEPT ![u].seen = Plus(@, ctr.of)] /\ pc' = [pc EXCEPT ![u] = "top-up"] /\ UNCHANGED overtaken
    <2> DEFINE x == [loc[u] EXCEPT !.seen = Plus(@, ctr.of)]
    <2>1. Plus(loc[u].seen, ctr.of) \in [Runs -> Int] /\ \A r \in Runs : Plus(loc[u].seen, ctr.of)[r] = loc[u].seen[r] + ctr.of[r]
        BY <1>1 DEF Plus
    <2>2. x \in Locals /\ x.seen = Plus(loc[u].seen, ctr.of) /\ x.counted = loc[u].counted /\ x.live = loc[u].live
        BY <1>1, <2>1 DEF Locals
    <2>3. loc' = [loc EXCEPT ![u] = x]
        BY <1>5
    <2> HIDE DEF x
    <2>4. pc' = [pc EXCEPT ![u] = "top-up"] /\ "top-up" \in ReadLabels \cup {"idle"} /\ x \in Locals
        BY <1>5, <1>4, <2>2
    <2>5. Types' /\ u \in Actors /\ pc'[u] = "top-up" /\ loc'[u] = x /\ \A a \in Actors : a # u => pc'[a] = pc[a] /\ loc'[a] = loc[a]
        <3>1. overtaken' \in SUBSET Runs
            BY <1>1, <1>5 DEF StoreTypes
        <3> QED
            BY <1>3, <2>3, <2>4, <3>1, ReaderTypes
    <2>6. ReaderMoves(u)
        BY <1>1, <1>3, <1>5, <2>5 DEF ReaderMoves, ReadLabels
    <2>7. TotalsInv'
        BY <1>1, <1>2, <2>6, ReaderTotals DEF store
    <2>8. SeenInv(u)'
        <3> SUFFICES ASSUME NEW r \in Runs PROVE Owed(u, r)'
            BY DEF SeenInv
        <3>1. Owed(u, r) /\ x.seen[r] = loc[u].seen[r] + ctr.of[r] /\ loc[u].seen[r] \in Int /\ ctr.of[r] \in Int
            BY <1>1, <2>1, <2>2 DEF SeenInv
        <3>2. erased[r] = "no" => ctr.of[r] >= 0
            BY <1>1 DEF TotalsInv
        <3>3. r \in x.counted => erased[r] = "no" /\ x.seen[r] >= 1
            BY <1>1, <2>2, <3>1 DEF Owed
        <3>4. r \in x.live => erased[r] = "no" /\ data[r] /\ outcome[r] = "running" /\ x.seen[r] >= 0
            BY <1>1, <2>2, <3>1, <3>2 DEF Owed
        <3> QED
            BY <1>2, <2>5, <3>3, <3>4 DEF Owed, store
    <2>9. ScanInv(u)'
        BY <2>5 DEF ScanInv, Backfilling, Late
    <2>10. \A r \in Runs : RunInv(r)'
        BY <1>1, <1>3, <2>6, ReaderRuns
    <2> QED
        BY <2>5, <2>6, <2>7, <2>8, <2>9, <2>10, ReaderFrame
<1>6. CASE pc[u] = "counter?" /\ ~ctr.some /\ pc' = [pc EXCEPT ![u] = "scan"] /\ UNCHANGED loc
           /\ overtaken' = overtaken \union {r \in Runs : \E a \in Actors : loc[a].run = r}
    <2>1. loc' = [loc EXCEPT ![u] = loc[u]]
        BY <1>6 DEF IInv, Types
    <2>2. Types' /\ u \in Actors /\ pc'[u] = "scan" /\ loc'[u] = loc[u] /\ \A a \in Actors : a # u => pc'[a] = pc[a] /\ loc'[a] = loc[a]
        <3>1. overtaken' \in SUBSET Runs
            BY <1>1, <1>6 DEF StoreTypes
        <3> QED
            BY <1>1, <1>6, <1>3, <1>4, <2>1, <3>1, ReaderTypes
    <2>3. ReaderMoves(u)
        BY <1>1, <1>3, <1>6, <2>2 DEF ReaderMoves, ReadLabels
    <2>4. TotalsInv'
        BY <1>1, <1>2, <2>3, ReaderTotals DEF store
    <2>5. SeenInv(u)'
        <3> SUFFICES ASSUME NEW r \in Runs PROVE Owed(u, r)'
            BY DEF SeenInv
        <3>1. Owed(u, r) /\ ctr.of[r] = 0 /\ loc[u].seen[r] \in Int
            BY <1>1, <1>6 DEF SeenInv, TotalsInv
        <3>2. r \in loc[u].counted => loc[u].seen[r] >= 1
            BY <1>6, <3>1 DEF Owed
        <3> QED
            BY <1>2, <2>2, <3>1, <3>2 DEF Owed, store
    <2>6. ScanInv(u)'
        <3>1. ~setting.counted /\ setting' = setting /\ \A r \in Runs : loc[u].seen[r] >= 0
            BY <1>1, <1>3, <1>6 DEF ScanInv
        <3>2. ASSUME NEW a \in Actors, pc'[a] \in WorkLabels \cup PurgeLabels PROVE loc'[a].run \in overtaken'
            <4>1. pc[a] = pc'[a] /\ loc'[a] = loc[a]
                BY <2>2, <3>2 DEF WorkLabels, PurgeLabels
            <4>2. loc[a].run \in Runs
                BY <3>2, <4>1 DEF IInv, Types
            <4> QED
                BY <1>6, <4>1, <4>2
        <3>3. \A r \in Runs : ctr'.of[r] = 0
            BY <1>1, <1>3, <1>6 DEF TotalsInv
        <3> QED
            BY <2>2, <3>1, <3>2, <3>3 DEF ScanInv, Late
    <2>7. \A r \in Runs : RunInv(r)'
        BY <1>1, <1>3, <1>6, <2>3, ReaderRuns
    <2> QED
        BY <2>2, <2>3, <2>4, <2>5, <2>6, <2>7, ReaderFrame
<1> QED
    BY <1>5, <1>6 DEF GetCounters, Go

\* The runs that are topped up are the live ones.
LEMMA ListLiveStep == ASSUME IInv, NEW u \in Readers, ListLive(u) PROVE IInv'
<1>1. /\ StoreTypes /\ u \in Actors /\ loc[u] \in Locals /\ SeenInv(u) /\ ScanInv(u) /\ TotalsInv /\ pc[u] = "top-up"
      /\ UNCHANGED <<store, bounds, history>>
    BY DEF IInv, Types, Actors, ListLive
<1> DEFINE live == {r \in Listed : ~Completed(r)}
           x == [loc[u] EXCEPT !.todo = live]
<1>2. live \subseteq Runs /\ \A r \in Runs : data[r] /\ outcome[r] = "running" => r \in live
    BY DEF Listed, Completed
<1>3. /\ x \in Locals /\ x.todo = live /\ x.seen = loc[u].seen /\ x.counted = loc[u].counted /\ x.live = loc[u].live
      /\ loc' = [loc EXCEPT ![u] = x] /\ pc' = [pc EXCEPT ![u] = "costs"]
    BY <1>1, <1>2 DEF Locals, ListLive, Go
<1> HIDE DEF x, live
<1>4. Types' /\ u \in Actors /\ pc'[u] = "costs" /\ loc'[u] = x /\ \A a \in Actors : a # u => pc'[a] = pc[a] /\ loc'[a] = loc[a]
    BY <1>1, <1>3, ReaderTypes DEF store, bounds, history, StoreTypes, ReadLabels
<1>5. ReaderMoves(u)
    BY <1>1, <1>4 DEF ReaderMoves, store, bounds, history, ReadLabels
<1>6. TotalsInv'
    BY <1>1, <1>5, ReaderTotals DEF store
<1>7. SeenInv(u)'
    <2> SUFFICES ASSUME NEW r \in Runs PROVE Owed(u, r)'
        BY DEF SeenInv
    <2>1. Owed(u, r)
        BY <1>1 DEF SeenInv, ReadLabels
    <2> QED
        BY <1>1, <1>2, <1>3, <1>4, <2>1 DEF Owed, store, history
<1>8. ScanInv(u)'
    BY <1>4 DEF ScanInv, Backfilling, Late
<1>9. \A r \in Runs : RunInv(r)'
    BY <1>1, <1>5, ReaderRuns DEF store
<1> QED
    BY <1>4, <1>5, <1>6, <1>7, <1>8, <1>9, ReaderFrame

\* The scan has every run, and the backfill the completed ones.
LEMMA ListAllStep == ASSUME IInv, NEW u \in Readers, ListAll(u) PROVE IInv'
<1>1. /\ StoreTypes /\ u \in Actors /\ loc[u] \in Locals /\ SeenInv(u) /\ ScanInv(u) /\ TotalsInv /\ pc[u] = "scan"
      /\ UNCHANGED <<store, bounds, history>>
    BY DEF IInv, Types, Actors, ListAll
<1> DEFINE done == {r \in Listed : Completed(r)}
           x == [loc[u] EXCEPT !.todo = Listed, !.done = done]
<1>2. Listed \subseteq Runs /\ done \subseteq Runs /\ \A r \in Runs : data[r] => r \in Listed
    BY DEF Listed
<1>3. /\ x \in Locals /\ x.todo = Listed /\ x.done = done /\ x.seen = loc[u].seen /\ x.counted = loc[u].counted /\ x.live = loc[u].live
      /\ loc' = [loc EXCEPT ![u] = x] /\ pc' = [pc EXCEPT ![u] = "scan-costs"]
    BY <1>1, <1>2 DEF Locals, ListAll, Go
<1>4. \A r \in Runs : r \in done <=> data[r] /\ outcome[r] # "running"
    BY <1>1 DEF Listed, Completed, StoreTypes
<1> HIDE DEF x, done
<1>6. Types' /\ u \in Actors /\ pc'[u] = "scan-costs" /\ loc'[u] = x /\ \A a \in Actors : a # u => pc'[a] = pc[a] /\ loc'[a] = loc[a]
    BY <1>1, <1>3, ReaderTypes DEF store, bounds, history, StoreTypes, ReadLabels
<1>7. ReaderMoves(u)
    BY <1>1, <1>6 DEF ReaderMoves, store, bounds, history, ReadLabels
<1>8. TotalsInv'
    BY <1>1, <1>7, ReaderTotals DEF store
<1>9. SeenInv(u)'
    <2> SUFFICES ASSUME NEW r \in Runs PROVE Owed(u, r)'
        BY DEF SeenInv
    <2>1. Owed(u, r)
        BY <1>1 DEF SeenInv, ReadLabels
    <2> QED
        BY <1>1, <1>2, <1>3, <1>6, <2>1 DEF Owed, store, history
<1>10. ScanInv(u)'
    <2>1. UNCHANGED <<setting, data, outcome, marker, ctr, overtaken, erased>>
        BY <1>1 DEF store, bounds, history
    <2>2. ASSUME NEW r \in Runs PROVE Held(u, r)'
        BY <1>2, <1>3, <1>4, <1>6, <2>1 DEF Held
    <2>3. /\ ~setting.counted /\ \A r \in Runs : loc[u].seen[r] >= 0 /\ (r \notin overtaken => ctr.of[r] = 0)
          /\ \A a \in Actors : pc[a] \in WorkLabels \cup PurgeLabels => loc[a].run \in overtaken
        BY <1>1 DEF ScanInv, Backfilling
    <2>4. \A a \in Actors : pc'[a] \in WorkLabels \cup PurgeLabels => loc'[a].run \in overtaken'
        BY <1>6, <2>1, <2>3 DEF WorkLabels, PurgeLabels
    <2> QED
        BY <1>3, <1>6, <2>1, <2>2, <2>3, <2>4 DEF ScanInv
<1>11. \A r \in Runs : RunInv(r)'
    BY <1>1, <1>7, ReaderRuns DEF store
<1> QED
    BY <1>6, <1>7, <1>8, <1>9, <1>10, <1>11, ReaderFrame

\* What a total says of a run is an integer.
LEMMA TotalInt == ASSUME StoreTypes, NEW r \in Runs PROVE Total(r) \in Int /\ ctr.of[r] \in Int /\ InLegacy(r) \in 0 .. 1
BY DEF StoreTypes, Total, InLegacy

\* A run with data has its cost added when its turn comes.
LEMMA AddCostStep == ASSUME IInv, NEW u \in Readers, AddCost(u) PROVE IInv'
<1>1. /\ StoreTypes /\ u \in Actors /\ loc[u] \in Locals /\ SeenInv(u) /\ ScanInv(u) /\ TotalsInv
      /\ pc[u] \in {"costs", "scan-costs"} /\ pc[u] \in ReadLabels /\ UNCHANGED <<store, bounds, history>>
    BY DEF IInv, Types, Actors, AddCost, ReadLabels
<1>2. /\ UNCHANGED <<setting, data, outcome, ctr, erased, overtaken, repurged, crashes, execs, marker, legacy>> /\ reads' \in Nat
      /\ marker' \in SUBSET Runs /\ legacy' \in [some : BOOLEAN, of : SUBSET Runs] /\ overtaken' \in SUBSET Runs
    BY <1>1 DEF store, bounds, history, StoreTypes
<1>3. ASSUME NEW r \in loc[u].todo, UNCHANGED pc,
             loc' = [loc EXCEPT ![u].todo = @ \ {r}, ![u].seen[r] = @ + Cost(r)]
      PROVE  IInv'
    <2>1. /\ r \in Runs /\ loc[u].todo \subseteq Runs /\ loc[u].done \subseteq Runs /\ loc[u].seen \in [Runs -> Int] /\ Cost(r) \in 0 .. 1
          /\ data[r] => Cost(r) = 1
        BY <1>1 DEF Locals, Cost
    <2> DEFINE s == [loc[u].seen EXCEPT ![r] = @ + Cost(r)]
               y == [loc[u] EXCEPT !.todo = @ \ {r}]
               x == [y EXCEPT !.seen = s]
    <2>2. s \in [Runs -> Int] /\ s[r] = loc[u].seen[r] + Cost(r) /\ \A q \in Runs : q # r => s[q] = loc[u].seen[q]
        BY <2>1
    <2>3. y \in Locals /\ y.todo = loc[u].todo \ {r} /\ y.done = loc[u].done /\ y.seen = loc[u].seen /\ y.counted = loc[u].counted /\ y.live = loc[u].live
        BY <1>1, <2>1 DEF Locals
    <2>4. loc' = [loc EXCEPT ![u] = x]
        BY <1>1, <1>3 DEF IInv, Types, Locals
    <2> HIDE DEF s, y
    <2>5. \A q \in Runs : s[q] >= loc[u].seen[q]
        <3> SUFFICES ASSUME NEW q \in Runs PROVE s[q] >= loc[u].seen[q]
            OBVIOUS
        <3>1. loc[u].seen[q] \in Int /\ Cost(r) \in 0 .. 1 /\ loc[u].seen[r] \in Int
            BY <2>1
        <3> QED
            BY <2>2, <3>1
    <2>6. /\ x \in Locals /\ x.todo = loc[u].todo \ {r} /\ x.done = loc[u].done /\ x.seen = s
          /\ x.counted = loc[u].counted /\ x.live = loc[u].live
        BY <2>2, <2>3 DEF Locals
    <2> HIDE DEF x
    <2>7. pc' = [pc EXCEPT ![u] = pc[u]] /\ pc[u] \in ReadLabels \cup {"idle"}
        BY <1>1, <1>3 DEF IInv, Types
    <2>8. Types' /\ u \in Actors /\ pc'[u] = pc[u] /\ loc'[u] = x /\ \A a \in Actors : a # u => pc'[a] = pc[a] /\ loc'[a] = loc[a]
        BY <1>2, <2>6, <2>7, <2>4, ReaderTypes
    <2>9. ReaderMoves(u)
        BY <1>1, <1>2, <2>8 DEF ReaderMoves
    <2>10. TotalsInv'
        BY <1>1, <1>2, <2>9, ReaderTotals
    <2>11. SeenInv(u)'
        <3> SUFFICES ASSUME NEW q \in Runs PROVE Owed(u, q)'
            BY DEF SeenInv
        <3>1. Owed(u, q) /\ s[q] \in Int /\ loc[u].seen[q] \in Int /\ s[q] >= loc[u].seen[q]
            BY <1>1, <2>1, <2>2, <2>5 DEF SeenInv
        <3>2. q \in loc[u].live /\ q = r => s[q] >= 1
            BY <2>1, <2>2, <3>1 DEF Owed
        <3> QED
            BY <1>1, <1>2, <2>6, <2>8, <3>1, <3>2 DEF Owed
    <2>12. ScanInv(u)'
        <3>1. \A q \in Runs : loc[u].seen[q] \in Int /\ s[q] \in Int /\ s[q] >= loc[u].seen[q]
            BY <2>1, <2>2, <2>5
        <3>2. pc[u] = "scan-costs" => \A q \in Runs : s[q] >= 0
            BY <1>1, <3>1 DEF ScanInv, Backfilling
        <3>3. ASSUME pc[u] = "scan-costs", NEW q \in Runs PROVE Held(u, q)'
            <4>1. Held(u, q) /\ loc[u].seen[q] >= 0
                BY <1>1, <3>3 DEF ScanInv, Late, Backfilling
            <4>2. data[q] /\ (q \in loc[u].todo \/ loc[u].seen[q] >= 1) => q \in loc[u].todo \ {r} \/ s[q] >= 1
                BY <2>1, <2>2, <3>1, <4>1
            <4> QED
                BY <1>2, <2>6, <2>8, <3>3, <4>1, <4>2 DEF Held
        <3>4. pc[u] = "scan-costs" =>
                 /\ ~setting.counted /\ \A q \in Runs : q \notin overtaken => ctr.of[q] = 0
                 /\ \A a \in Actors : pc'[a] \in WorkLabels \cup PurgeLabels => loc'[a].run \in overtaken'
            BY <1>1, <1>2, <2>8 DEF ScanInv, Backfilling, WorkLabels, PurgeLabels
        <3> QED
            BY <1>1, <1>2, <2>6, <2>8, <3>2, <3>3, <3>4 DEF ScanInv, Backfilling, Late
    <2>13. \A q \in Runs : RunInv(q)'
        BY <1>1, <1>2, <2>8, <2>9, ReaderRuns
    <2> QED
        BY <2>8, <2>9, <2>10, <2>11, <2>12, <2>13, ReaderFrame
<1>4. CASE /\ loc[u].todo = {}
           /\ pc' = [pc EXCEPT ![u] = IF pc[u] = "costs" THEN "return" ELSE "mark"]
           /\ loc' = [loc EXCEPT ![u].todo = loc[u].done]
    <2> DEFINE x == [loc[u] EXCEPT !.todo = loc[u].done]
               l == IF pc[u] = "costs" THEN "return" ELSE "mark"
    <2>1. /\ x \in Locals /\ x.todo = loc[u].done /\ x.done = loc[u].done /\ x.seen = loc[u].seen
          /\ x.counted = loc[u].counted /\ x.live = loc[u].live /\ loc' = [loc EXCEPT ![u] = x]
        BY <1>1, <1>4 DEF Locals
    <2>2. /\ pc' = [pc EXCEPT ![u] = l] /\ l \in ReadLabels \cup {"idle"} /\ l \in {"mark", "return"}
          /\ (l = "mark" => pc[u] = "scan-costs") /\ x \in Locals
        BY <1>1, <1>4, <2>1 DEF ReadLabels
    <2> HIDE DEF x, l
    <2>3. Types' /\ u \in Actors /\ pc'[u] = l /\ loc'[u] = x /\ \A a \in Actors : a # u => pc'[a] = pc[a] /\ loc'[a] = loc[a]
        BY <1>2, <2>1, <2>2, ReaderTypes
    <2>4. ReaderMoves(u)
        BY <1>1, <1>2, <2>2, <2>3 DEF ReaderMoves
    <2>5. TotalsInv'
        BY <1>1, <1>2, <2>4, ReaderTotals
    <2>6. SeenInv(u)'
        <3> SUFFICES ASSUME NEW q \in Runs PROVE Owed(u, q)'
            BY DEF SeenInv
        <3>1. Owed(u, q)
            BY <1>1 DEF SeenInv
        <3> QED
            BY <1>1, <1>2, <1>4, <2>1, <2>2, <2>3, <3>1 DEF Owed
    <2>7. ScanInv(u)'
        <3>1. ASSUME l = "mark", NEW q \in Runs PROVE Held(u, q)'
            <4>1. Held(u, q)
                BY <1>1, <2>2, <3>1 DEF ScanInv, Late
            <4> QED
                BY <1>2, <1>4, <2>1, <2>2, <2>3, <3>1, <4>1 DEF Held
        <3>2. l = "mark" =>
                 /\ ~setting.counted /\ \A q \in Runs : loc[u].seen[q] >= 0 /\ (q \notin overtaken => ctr.of[q] = 0)
                 /\ \A a \in Actors : pc'[a] \in WorkLabels \cup PurgeLabels => loc'[a].run \in overtaken'
            BY <1>1, <1>2, <2>2, <2>3 DEF ScanInv, Backfilling, WorkLabels, PurgeLabels
        <3> QED
            BY <1>1, <1>2, <2>1, <2>2, <2>3, <3>1, <3>2 DEF ScanInv, Backfilling, Late
    <2>8. \A q \in Runs : RunInv(q)'
        BY <1>1, <1>2, <2>4, ReaderRuns
    <2> QED
        BY <2>3, <2>4, <2>5, <2>6, <2>7, <2>8, ReaderFrame
<1> QED
    BY <1>3, <1>4 DEF AddCost, Go

\* A backfill goes on with what it holds.
LEMMA Backfills ==
    ASSUME IInv, NEW u \in Actors, pc[u] = "mark", pc'[u] \in {"mark", "put"}, UNCHANGED <<setting, ctr, overtaken>>,
           loc'[u].seen = loc[u].seen, loc'[u].todo \subseteq loc[u].todo, loc'[u].done = loc[u].done,
           \A a \in Actors : a # u => pc'[a] = pc[a] /\ loc'[a] = loc[a], \A r \in Runs : Held(u, r)'
    PROVE  ScanInv(u)'
<1>1. ScanInv(u)
    BY DEF IInv
<1>2. \A a \in Actors : pc'[a] \in WorkLabels \cup PurgeLabels => loc'[a].run \in overtaken'
    BY <1>1 DEF ScanInv, Backfilling, WorkLabels, PurgeLabels
<1> QED
    BY <1>1, <1>2 DEF ScanInv, Backfilling

\* The backfill marks a run that it counts, or one that is counted: or the run is overtaken.
LEMMA MarkStep == ASSUME IInv, NEW u \in Readers, Mark(u) PROVE IInv'
<1>1. /\ StoreTypes /\ u \in Actors /\ loc[u] \in Locals /\ SeenInv(u) /\ ScanInv(u) /\ TotalsInv
      /\ pc[u] = "mark" /\ UNCHANGED <<data, outcome, legacy, ctr, bounds, history>>
    BY DEF IInv, Types, Actors, Mark
<1>2. /\ UNCHANGED <<setting, data, outcome, ctr, erased, overtaken, repurged, crashes, execs, legacy>> /\ reads' \in Nat
      /\ legacy' \in [some : BOOLEAN, of : SUBSET Runs] /\ overtaken' \in SUBSET Runs /\ marker \in SUBSET Runs
    BY <1>1 DEF bounds, history, StoreTypes
<1>3. ASSUME NEW r \in loc[u].todo, UNCHANGED pc, marker' = marker \union {r}, loc' = [loc EXCEPT ![u].todo = @ \ {r}]
      PROVE  IInv'
    <2> DEFINE x == [loc[u] EXCEPT !.todo = @ \ {r}]
    <2>1. /\ x \in Locals /\ x.todo = loc[u].todo \ {r} /\ x.done = loc[u].done /\ x.seen = loc[u].seen
          /\ x.counted = loc[u].counted /\ x.live = loc[u].live /\ loc' = [loc EXCEPT ![u] = x]
        BY <1>1, <1>3 DEF Locals
    <2>2. /\ pc' = [pc EXCEPT ![u] = "mark"] /\ "mark" \in ReadLabels \cup {"idle"} /\ x \in Locals
          /\ marker' \in SUBSET Runs /\ r \in Runs /\ marker \subseteq marker'
        BY <1>1, <1>2, <1>3, <2>1 DEF ReadLabels, IInv, Types, Locals
    <2> HIDE DEF x
    <2>3. Types' /\ u \in Actors /\ pc'[u] = "mark" /\ loc'[u] = x /\ \A a \in Actors : a # u => pc'[a] = pc[a] /\ loc'[a] = loc[a]
        BY <1>2, <2>1, <2>2, ReaderTypes
    <2>4. /\ Held(u, r) /\ r \in loc[u].done
          /\ \A q \in Runs : q # r => (q \in marker' <=> q \in marker)
        BY <1>1, <1>3, <2>2 DEF ScanInv, Late
    <2>5. ReaderMoves(u)
        BY <1>1, <1>2, <2>2, <2>3 DEF ReaderMoves
    <2>6. TotalsInv'
        BY <1>1, <1>2, <2>5, ReaderTotals
    <2>7. SeenInv(u)'
        <3> SUFFICES ASSUME NEW q \in Runs PROVE Owed(u, q)'
            BY DEF SeenInv
        <3>1. Owed(u, q)
            BY <1>1 DEF SeenInv, ReadLabels
        <3> QED
            BY <1>1, <1>2, <2>1, <2>3, <3>1 DEF Owed
    <2>8. ScanInv(u)'
        <3>1. ASSUME NEW q \in Runs PROVE Held(u, q)'
            <4>1. Held(u, q)
                BY <1>1 DEF ScanInv, Late
            <4>2. q \notin loc[u].todo \ {r} => q \notin loc[u].todo \/ q \in marker'
                BY <1>3
            <4> QED
                BY <1>1, <1>2, <2>1, <2>2, <2>3, <4>1, <4>2 DEF Held
        <3> QED
            BY <1>1, <1>2, <2>1, <2>3, <3>1, Backfills
    <2>9. ASSUME NEW q \in Runs PROVE RunInv(q)'
        <3>1. /\ DataInv(q) /\ BillInv(q) /\ GhostInv(q) /\ DoneInv(q) /\ \A a \in Actors : PurgeInv(a, q)
              /\ \A a \in Actors : (On(a, q)' <=> On(a, q)) /\ (Heavy(a, q)' <=> Heavy(a, q)) /\ (Purging(a, q)' <=> Purging(a, q))
              /\ (Counting(q)' <=> Counting(q)) /\ (Calm(q)' <=> Calm(q))
              /\ \A a \in Actors : pc[a] \in WorkLabels \cup PurgeLabels \/ pc'[a] \in WorkLabels \cup PurgeLabels
                                    => pc'[a] = pc[a] /\ loc'[a] = loc[a]
            BY <2>3, <2>5, ReaderSame DEF IInv
        <3>2. Total(q)' = Total(q)
            BY <1>2 DEF Total, InLegacy
        <3>3. DataInv(q)'
            BY <1>2, <2>4, <3>1, <3>2 DEF DataInv, Held
        <3>4. BillInv(q)'
            BY <1>2, <2>2, <3>1, <3>2 DEF BillInv
        <3>5. GhostInv(q)'
            BY <1>2, <3>1, <3>2 DEF GhostInv
        <3>6. DoneInv(q)'
            <4>1. \A a \in Actors : pc'[a] \in {"cost", "add", "succeed"} => pc'[a] = pc[a] /\ loc'[a] = loc[a]
                BY <3>1 DEF WorkLabels
            <4>2. pc' = pc
                BY <1>3
            <4>3. erased[r] = "no" => data[r]
                BY <2>2, <2>4 DEF Held, IInv, Types, StoreTypes
            <4>4. q = r /\ erased[r] = "no" /\ r \notin overtaken => outcome[r] \in {"none", "completed"}
                BY <1>1, <2>2, <2>4, <4>3 DEF Held, StoreTypes
            <4> QED
                BY <1>1, <1>2, <2>2, <2>4, <3>1, <3>2, <4>1, <4>2, <4>4 DEF DoneInv
        <3>7. ASSUME NEW a \in Actors PROVE PurgeInv(a, q)'
            <4>1. Purging(a, q) => pc'[a] = pc[a] /\ loc'[a] = loc[a] /\ q \in overtaken
                BY <1>1, <3>1 DEF Purging, ScanInv, Backfilling
            <4> QED
                BY <1>2, <3>1, <4>1 DEF PurgeInv
        <3> QED
            BY <3>3, <3>4, <3>5, <3>6, <3>7 DEF RunInv
    <2> QED
        BY <2>3, <2>5, <2>6, <2>7, <2>8, <2>9, ReaderFrame
<1>4. CASE loc[u].todo = {} /\ pc' = [pc EXCEPT ![u] = "put"] /\ UNCHANGED <<loc, marker>>
    <2>1. loc' = [loc EXCEPT ![u] = loc[u]] /\ pc' = [pc EXCEPT ![u] = "put"] /\ "put" \in ReadLabels \cup {"idle"} /\ marker' \in SUBSET Runs
        BY <1>2, <1>4 DEF IInv, Types, ReadLabels
    <2>2. Types' /\ u \in Actors /\ pc'[u] = "put" /\ loc'[u] = loc[u] /\ \A a \in Actors : a # u => pc'[a] = pc[a] /\ loc'[a] = loc[a]
        BY <1>1, <1>2, <2>1, ReaderTypes
    <2>3. ReaderMoves(u)
        BY <1>1, <1>2, <1>4, <2>1, <2>2 DEF ReaderMoves, ReadLabels
    <2>4. TotalsInv'
        BY <1>1, <1>2, <2>3, ReaderTotals
    <2>5. SeenInv(u)'
        <3> SUFFICES ASSUME NEW q \in Runs PROVE Owed(u, q)'
            BY DEF SeenInv
        <3>1. Owed(u, q)
            BY <1>1 DEF SeenInv, ReadLabels
        <3> QED
            BY <1>1, <1>2, <2>2, <3>1 DEF Owed
    <2>6. ScanInv(u)'
        <3>1. ASSUME NEW q \in Runs PROVE Held(u, q)'
            <4>1. Held(u, q)
                BY <1>1 DEF ScanInv, Late
            <4> QED
                BY <1>1, <1>2, <1>4, <2>2, <4>1 DEF Held
        <3> QED
            BY <1>1, <1>2, <2>2, <3>1, Backfills
    <2>7. \A q \in Runs : RunInv(q)'
        BY <1>1, <1>2, <1>4, <2>2, <2>3, ReaderRuns
    <2> QED
        BY <2>2, <2>3, <2>4, <2>5, <2>6, <2>7, ReaderFrame
<1> QED
    BY <1>3, <1>4 DEF Mark, Go

\* The document holds the completed runs, but for those that were overtaken.
LEMMA PutLegacyStep == ASSUME IInv, NEW u \in Readers, PutLegacy(u) PROVE IInv'
<1>1. /\ StoreTypes /\ u \in Actors /\ loc[u] \in Locals /\ SeenInv(u) /\ ScanInv(u) /\ TotalsInv
      /\ pc[u] = "put" /\ UNCHANGED <<data, outcome, marker, ctr, loc, bounds, history>>
    BY DEF IInv, Types, Actors, PutLegacy
<1>2. /\ UNCHANGED <<setting, data, outcome, ctr, erased, overtaken, repurged, crashes, execs, marker>> /\ reads' \in Nat
      /\ overtaken' \in SUBSET Runs /\ marker' \in SUBSET Runs
    BY <1>1 DEF bounds, history, StoreTypes
<1>3. /\ loc[u].done \subseteq Runs /\ legacy' = [some |-> TRUE, of |-> {r \in loc[u].done : loc[u].seen[r] >= 1}]
      /\ legacy' \in [some : BOOLEAN, of : SUBSET Runs]
    BY <1>1 DEF PutLegacy, Locals
<1>4. loc' = [loc EXCEPT ![u] = loc[u]] /\ pc' = [pc EXCEPT ![u] = "return"] /\ "return" \in ReadLabels \cup {"idle"}
    BY <1>1 DEF IInv, Types, ReadLabels, PutLegacy, Go
<1>5. Types' /\ u \in Actors /\ pc'[u] = "return" /\ loc'[u] = loc[u] /\ \A a \in Actors : a # u => pc'[a] = pc[a] /\ loc'[a] = loc[a]
    BY <1>1, <1>2, <1>3, <1>4, ReaderTypes
<1>6. ReaderMoves(u)
    BY <1>1, <1>2, <1>5 DEF ReaderMoves, ReadLabels
<1>7. TotalsInv'
    BY <1>1, <1>2, <1>3 DEF TotalsInv
<1>8. SeenInv(u)'
    <2> SUFFICES ASSUME NEW q \in Runs PROVE Owed(u, q)'
        BY DEF SeenInv
    <2>1. Owed(u, q)
        BY <1>1 DEF SeenInv, ReadLabels
    <2> QED
        BY <1>1, <1>2, <1>5, <2>1 DEF Owed
<1>9. ScanInv(u)'
    BY <1>5 DEF ScanInv, Backfilling, Late
<1>10. ASSUME NEW r \in Runs PROVE RunInv(r)'
    <2>1. /\ DataInv(r) /\ BillInv(r) /\ GhostInv(r) /\ DoneInv(r) /\ \A a \in Actors : PurgeInv(a, r)
          /\ \A a \in Actors : (On(a, r)' <=> On(a, r)) /\ (Heavy(a, r)' <=> Heavy(a, r)) /\ (Purging(a, r)' <=> Purging(a, r))
          /\ (Counting(r)' <=> Counting(r)) /\ (Calm(r)' <=> Calm(r))
        BY <1>5, <1>6, ReaderSame DEF IInv
    <2>2. Held(u, r) /\ (r \notin overtaken => ctr.of[r] = 0 /\ \A a \in Actors : ~On(a, r) /\ ~Purging(a, r))
        BY <1>1 DEF ScanInv, Backfilling, Late, On, Purging
    <2>3. ctr.of[r] \in Int /\ InLegacy(r) \in 0 .. 1 /\ Total(r) = InLegacy(r) + ctr.of[r] /\ Total(r)' = InLegacy(r)' + ctr.of[r]
        BY <1>1, <1>2, TotalInt DEF Total
    <2>4. InLegacy(r)' = (IF r \in loc[u].done /\ loc[u].seen[r] >= 1 THEN 1 ELSE 0)
        BY <1>3 DEF InLegacy
    <2>5. \A a \in Actors : Heavy(a, r) => On(a, r)
        BY DEF Heavy, On, WorkLabels
    <2>6. DataInv(r)'
        <3>1. ~data[r] /\ erased[r] = "no" => Total(r)' <= 0
            BY <2>1, <2>2, <2>3, <2>4 DEF DataInv, Held
        <3> QED
            BY <1>2, <2>1, <3>1 DEF DataInv
    <2>7. BillInv(r)'
        <3>1. r \notin overtaken => Total(r)' <= 1 /\ \A a \in Actors : ~Heavy(a, r)
            BY <2>2, <2>3, <2>4, <2>5
        <3>2. r \notin overtaken /\ data[r] /\ r \notin marker => Total(r)' <= 0
            BY <1>1, <2>2, <2>3, <2>4 DEF Held
        <3> QED
            BY <1>2, <2>1, <3>1, <3>2 DEF BillInv
    <2>8. GhostInv(r)'
        <3>1. erased[r] = "alone" /\ r \notin overtaken => Total(r)' = 0
            BY <2>1, <2>2, <2>3, <2>4 DEF DataInv, Held
        <3> QED
            BY <1>2, <2>1, <3>1 DEF GhostInv
    <2>9. DoneInv(r)'
        <3>1. erased[r] = "no" /\ r \notin overtaken /\ crashes = 0 /\ r \in marker => Total(r)' >= 1
            <4> SUFFICES ASSUME erased[r] = "no", r \notin overtaken, crashes = 0, r \in marker PROVE Total(r)' >= 1
                OBVIOUS
            <4>1. data[r] /\ outcome[r] # "running"
                BY <1>1, <2>1, <2>2 DEF DataInv, DoneInv, StoreTypes
            <4> QED
                BY <1>1, <2>2, <2>3, <2>4, <4>1 DEF Held
        <3>2. erased[r] = "no" /\ r \in setting.old /\ outcome[r] = "none" => r \in legacy'.of
            <4> SUFFICES ASSUME erased[r] = "no", r \in setting.old, outcome[r] = "none" PROVE r \in legacy'.of
                OBVIOUS
            <4>1. data[r]
                BY <2>1 DEF DoneInv
            <4> QED
                BY <1>1, <1>3, <2>2, <4>1 DEF Held
        <3>3. \A a \in Actors : pc'[a] \in {"cost", "add", "succeed"} => pc'[a] = pc[a] /\ loc'[a] = loc[a]
            BY <1>5
        <3> QED
            BY <1>2, <2>1, <3>1, <3>2, <3>3 DEF DoneInv
    <2>10. ASSUME NEW a \in Actors PROVE PurgeInv(a, r)'
        BY <1>2, <2>1, <2>2 DEF PurgeInv
    <2> QED
        BY <2>6, <2>7, <2>8, <2>9, <2>10 DEF RunInv
<1> QED
    BY <1>5, <1>6, <1>7, <1>8, <1>9, <1>10, ReaderFrame

\* A reader returns.
LEMMA ReturnedStep == ASSUME IInv, NEW u \in Readers, Returned(u) PROVE IInv'
<1>1. StoreTypes /\ u \in Actors /\ pc[u] = "return" /\ UNCHANGED <<store, bounds, history>>
    BY DEF IInv, Types, Actors, Returned
<1>2. /\ UNCHANGED <<setting, data, outcome, ctr, erased, overtaken, repurged, crashes, execs, marker, legacy>> /\ reads' \in Nat
      /\ marker' \in SUBSET Runs /\ legacy' \in [some : BOOLEAN, of : SUBSET Runs] /\ overtaken' \in SUBSET Runs
    BY <1>1 DEF store, bounds, history, StoreTypes
<1>3. loc' = [loc EXCEPT ![u] = NoLocals] /\ pc' = [pc EXCEPT ![u] = "idle"] /\ "idle" \in ReadLabels \cup {"idle"} /\ NoLocals \in Locals
    BY EmptyLocals DEF Returned, Return, Go
<1>4. Types' /\ u \in Actors /\ pc'[u] = "idle" /\ loc'[u] = NoLocals /\ \A a \in Actors : a # u => pc'[a] = pc[a] /\ loc'[a] = loc[a]
    BY <1>2, <1>3, ReaderTypes
<1>5. ReaderMoves(u)
    BY <1>1, <1>2, <1>4 DEF ReaderMoves, ReadLabels
<1>6. TotalsInv'
    BY <1>1, <1>2, <1>5, ReaderTotals
<1>7. SeenInv(u)' /\ ScanInv(u)'
    BY <1>4 DEF SeenInv, ScanInv, Backfilling, Late, ReadLabels
<1>8. \A r \in Runs : RunInv(r)'
    BY <1>1, <1>2, <1>5, ReaderRuns
<1> QED
    BY <1>4, <1>5, <1>6, <1>7, <1>8, ReaderFrame

\* A step of a worker or of a purger, at the run r: what the others hold stays, but for
\* what the step takes from them
Keeps(a) ==
    /\ loc'[a].run = loc[a].run /\ loc'[a].cost = loc[a].cost /\ loc'[a].todo = loc[a].todo /\ loc'[a].done = loc[a].done
    /\ loc'[a].seen = loc[a].seen /\ loc'[a].counted \subseteq loc[a].counted /\ loc'[a].live \subseteq loc[a].live
    /\ loc'[a].alone => loc[a].alone

RunMoves(b, r) ==
    /\ UNCHANGED <<setting, legacy, crashes>>
    /\ \A q \in Runs : q # r => /\ data'[q] = data[q] /\ outcome'[q] = outcome[q] /\ erased'[q] = erased[q]
                                /\ q \in marker' <=> q \in marker
                                /\ q \in overtaken' <=> q \in overtaken
                                /\ q \in repurged' <=> q \in repurged
                                /\ ctr'.of[q] = ctr.of[q]
    /\ ctr' = ctr \/ ctr'.some
    /\ erased'[r] = "no" => erased[r] = "no" /\ outcome'[r] # "none" /\ ctr'.of[r] >= 0
    /\ data'[r] => (data[r] \/ erased[r] = "no") /\ (r \in marker => r \in marker')
    /\ data[r] /\ ~data'[r] => erased'[r] # "no"
    /\ r \in overtaken => r \in overtaken'
    /\ (\E u \in Actors : Backfilling(u)) => r \in overtaken'
    /\ \A a \in Actors : a # b => pc'[a] = pc[a] /\ Keeps(a)
    /\ pc[b] \notin ReadLabels /\ pc'[b] \notin ReadLabels
    /\ pc[b] \in WorkLabels \cup PurgeLabels => loc[b].run = r
    /\ pc'[b] \in WorkLabels \cup PurgeLabels => loc'[b].run = r

\* Such a step leaves what is said of another run.
LEMMA OtherRuns ==
    ASSUME IInv, NEW b \in Actors, NEW r \in Runs, RunMoves(b, r), NEW q \in Runs, q # r
    PROVE  RunInv(q)'
<1>1. DataInv(q) /\ BillInv(q) /\ GhostInv(q) /\ DoneInv(q)
    BY DEF IInv
<1>2. /\ data'[q] = data[q] /\ outcome'[q] = outcome[q] /\ erased'[q] = erased[q] /\ setting' = setting /\ crashes' = crashes
      /\ q \in marker' <=> q \in marker
      /\ q \in overtaken' <=> q \in overtaken
      /\ q \in repurged' <=> q \in repurged
      /\ ctr'.of[q] = ctr.of[q] /\ legacy' = legacy
    BY DEF RunMoves
<1>3. Total(q)' = Total(q) /\ (Calm(q)' <=> Calm(q))
    BY <1>2 DEF Total, InLegacy, Calm
<1>4. \A a \in Actors : a # b => pc'[a] = pc[a] /\ loc'[a].run = loc[a].run /\ loc'[a].cost = loc[a].cost
    BY DEF RunMoves, Keeps
<1>5. /\ pc[b] \in WorkLabels \cup PurgeLabels => loc[b].run # q
      /\ pc'[b] \in WorkLabels \cup PurgeLabels => loc'[b].run # q
    BY DEF RunMoves
<1>6. \A a \in Actors : (On(a, q)' <=> On(a, q)) /\ (Purging(a, q)' <=> Purging(a, q))
    BY <1>4, <1>5 DEF On, Purging
<1>7. \A a \in Actors : Heavy(a, q)' <=> Heavy(a, q)
    BY <1>2, <1>4, <1>5 DEF Heavy, WorkLabels
<1>8. Counting(q)' <=> Counting(q)
    BY <1>4, <1>5 DEF Counting, WorkLabels
<1>9. \A a \in Actors : pc'[a] \in WorkLabels \cup PurgeLabels /\ loc'[a].run = q
                          => pc'[a] = pc[a] /\ loc'[a].run = loc[a].run /\ loc'[a].cost = loc[a].cost
    BY <1>4, <1>5
<1>10. DataInv(q)'
    BY <1>1, <1>2, <1>3, <1>6, <1>9 DEF DataInv
<1>11. BillInv(q)'
    BY <1>1, <1>2, <1>3, <1>7 DEF BillInv
<1>12. GhostInv(q)'
    BY <1>1, <1>2, <1>3, <1>6 DEF GhostInv
<1>13. DoneInv(q)'
    <2>1. \A a \in Actors : pc[a] \in {"mark", "put"} => pc'[a] \in {"mark", "put"}
        BY DEF RunMoves, ReadLabels
    <2> QED
        BY <1>1, <1>2, <1>3, <1>6, <1>8, <1>9, <2>1 DEF DoneInv, WorkLabels
<1>14. ASSUME NEW p \in Actors PROVE PurgeInv(p, q)'
    <2>1. CASE p = b
        BY <1>5, <2>1 DEF PurgeInv, Purging
    <2>2. CASE p # b
        <3>1. pc'[p] = pc[p] /\ Keeps(p) /\ PurgeInv(p, q)
            BY <2>2 DEF RunMoves, IInv
        <3> QED
            BY <1>2, <1>3, <1>6, <3>1 DEF PurgeInv, Keeps
    <2> QED
        BY <2>1, <2>2
<1> QED
    BY <1>10, <1>11, <1>12, <1>13, <1>14 DEF RunInv

\* Of the run itself the step has to show this; the rest of the invariant follows.
RunKept(b, r) == RunInv(r)' /\ \A a \in Actors : a # b /\ pc[a] \in ReadLabels => Owed(a, r)'

\* What is left to show of a step at a run is what it does to that run.
LEMMA RunFrame ==
    ASSUME IInv, NEW b \in Actors, NEW r \in Runs, RunMoves(b, r), Types', RunKept(b, r)
    PROVE  IInv'
<1>1. ASSUME NEW q \in Runs PROVE RunInv(q)'
    BY OtherRuns DEF RunKept
<1>2. TotalsInv'
    <2>1. TotalsInv
        BY DEF IInv
    <2>2. \A q \in Runs : erased'[q] = "no" => ctr'.of[q] >= 0
        BY <2>1 DEF TotalsInv, RunMoves
    <2> QED
        BY <2>1, <2>2 DEF TotalsInv, RunMoves
<1>3. ASSUME NEW a \in Actors PROVE SeenInv(a)' /\ ScanInv(a)'
    <2>1. CASE a = b
        BY <2>1 DEF RunMoves, SeenInv, ScanInv, Backfilling, Late, ReadLabels
    <2>2. CASE a # b
        <3>1. pc'[a] = pc[a] /\ Keeps(a) /\ SeenInv(a) /\ ScanInv(a)
            BY <2>2 DEF RunMoves, IInv
        <3>2. SeenInv(a)'
            <4> SUFFICES ASSUME pc[a] \in ReadLabels, NEW q \in Runs PROVE Owed(a, q)'
                BY <3>1 DEF SeenInv
            <4>1. CASE q = r
                BY <2>2, <4>1 DEF RunKept
            <4>2. CASE q # r
                <5>1. Owed(a, q) /\ data'[q] = data[q] /\ outcome'[q] = outcome[q] /\ erased'[q] = erased[q] /\ ctr'.of[q] = ctr.of[q]
                    BY <3>1, <4>2 DEF SeenInv, RunMoves
                <5> QED
                    BY <3>1, <5>1 DEF Owed, Keeps
            <4> QED
                BY <4>1, <4>2
        <3>3. ASSUME Late(a), NEW q \in Runs PROVE Held(a, q)'
            <4>1. Held(a, q) /\ Backfilling(a)
                BY <3>1, <3>3 DEF ScanInv, Late, Backfilling
            <4>2. CASE q = r
                BY <3>1, <4>1, <4>2 DEF Held, RunMoves, Keeps
            <4>3. CASE q # r
                <5>1. /\ data'[q] = data[q] /\ outcome'[q] = outcome[q] /\ erased'[q] = erased[q]
                      /\ (q \in marker' <=> q \in marker) /\ (q \in overtaken' <=> q \in overtaken)
                    BY <4>3 DEF RunMoves
                <5> QED
                    BY <3>1, <4>1, <5>1 DEF Held, Keeps
            <4> QED
                BY <4>2, <4>3
        <3>4. ASSUME Backfilling(a)
              PROVE  /\ \A c \in Actors : pc'[c] \in WorkLabels \cup PurgeLabels => loc'[c].run \in overtaken'
                     /\ \A q \in Runs : q \notin overtaken' => ctr'.of[q] = 0
            <4>1. r \in overtaken' /\ \A q \in Runs : q # r => (q \in overtaken' <=> q \in overtaken) /\ ctr'.of[q] = ctr.of[q]
                BY <3>4 DEF RunMoves
            <4>2. ASSUME NEW c \in Actors, pc'[c] \in WorkLabels \cup PurgeLabels PROVE loc'[c].run \in overtaken'
                <5>1. CASE c = b
                    BY <4>1, <4>2, <5>1 DEF RunMoves
                <5>2. CASE c # b
                    <6>1. pc'[c] = pc[c] /\ loc'[c].run = loc[c].run
                        BY <5>2 DEF RunMoves, Keeps
                    <6>2. loc[c].run \in Runs /\ loc[c].run \in overtaken
                        BY <3>1, <3>4, <4>2, <6>1 DEF ScanInv, IInv, Types
                    <6> QED
                        BY <4>1, <6>1, <6>2
                <5> QED
                    BY <5>1, <5>2
            <4> QED
                BY <3>1, <3>4, <4>1, <4>2 DEF ScanInv
        <3>5. ScanInv(a)'
            <4>1. (Late(a)' <=> Late(a)) /\ (Backfilling(a)' <=> Backfilling(a)) /\ setting' = setting
                BY <3>1 DEF Late, Backfilling, RunMoves
            <4> QED
                BY <3>1, <3>3, <3>4, <4>1 DEF ScanInv, Keeps
        <3> QED
            BY <3>2, <3>5
    <2> QED
        BY <2>1, <2>2
<1> QED
    BY <1>1, <1>2, <1>3 DEF IInv, RunInv

\* The types after a step of a worker or of a purger
LEMMA RunTypes ==
    ASSUME Types, NEW b \in Actors, NEW l \in Labels, l \notin ReadLabels, StoreTypes',
           pc' = [pc EXCEPT ![b] = l], loc' \in [Actors -> Locals], \A a \in Actors : a # b => loc'[a].run = loc[a].run,
           l \in WorkLabels => b \in Workers /\ loc'[b].run \in Runs, l \in PurgeLabels => b \in Purgers /\ loc'[b].run \in Runs
    PROVE  Types' /\ pc'[b] = l /\ \A a \in Actors : a # b => pc'[a] = pc[a]
<1>1. pc' \in [Actors -> Labels] /\ pc'[b] = l /\ \A a \in Actors : a # b => pc'[a] = pc[a]
    BY DEF Types
<1> QED
    BY <1>1 DEF Types

\* Records of locals, changed
LEMMA Changed ==
    ASSUME NEW x \in Locals, NEW r \in Runs
    PROVE  /\ [x EXCEPT !.alone = FALSE] \in Locals /\ \A c \in 0 .. 1 : [x EXCEPT !.cost = c] \in Locals
           /\ [x EXCEPT !.live = @ \ {r}] \in Locals /\ [x EXCEPT !.counted = @ \ {r}, !.live = @ \ {r}] \in Locals
           /\ [x EXCEPT !.run = r] \in Locals /\ \A v \in BOOLEAN : [x EXCEPT !.run = r, !.alone = v] \in Locals
<1>1. /\ x.run \in Runs \cup {"none"} /\ x.cost \in 0 .. 1 /\ x.todo \in SUBSET Runs /\ x.done \in SUBSET Runs /\ x.seen \in [Runs -> Int]
      /\ x.counted \in SUBSET Runs /\ x.live \in SUBSET Runs /\ x.alone \in BOOLEAN
    BY DEF Locals
<1>2. [x EXCEPT !.alone = FALSE] \in Locals
    BY DEF Locals
<1>3. ASSUME NEW c \in 0 .. 1 PROVE [x EXCEPT !.cost = c] \in Locals
    BY DEF Locals
<1>4. [x EXCEPT !.live = @ \ {r}] \in Locals
    BY <1>1 DEF Locals
<1>5. [x EXCEPT !.counted = @ \ {r}, !.live = @ \ {r}] \in Locals
    BY <1>1 DEF Locals
<1>6. [x EXCEPT !.run = r] \in Locals
    BY DEF Locals
<1>7. ASSUME NEW v \in BOOLEAN PROVE [x EXCEPT !.run = r, !.alone = v] \in Locals
    BY DEF Locals
<1> QED
    BY <1>2, <1>3, <1>4, <1>5, <1>6, <1>7

\* Only a worker is on a run, and what is heavy is on it.
LEMMA OnRun ==
    ASSUME IInv, NEW r \in Runs, NEW a \in Actors
    PROVE  /\ On(a, r) => a \in Workers /\ loc[a].run = r
           /\ Heavy(a, r) => On(a, r)
BY DEF IInv, Types, On, Heavy, WorkLabels

\* A run that is executed again is still billed at most once: its marker is there, or nothing is billed.
LEMMA ExecuteStep == ASSUME IInv, NEW w \in Workers, NEW r \in Runs, Execute(w, r) PROVE IInv'
<1>1. /\ Types /\ StoreTypes /\ w \in Actors /\ pc[w] = "idle" /\ erased[r] \in {"no", "begun"}
      /\ DataInv(r) /\ BillInv(r) /\ GhostInv(r) /\ DoneInv(r) /\ TotalsInv
    BY DEF IInv, Types, Actors, Execute
<1>2. /\ execs' = execs + 1 /\ data' = [data EXCEPT ![r] = TRUE]
      /\ outcome' = [outcome EXCEPT ![r] = "running"]
      /\ UNCHANGED <<marker, legacy, ctr, setting, reads, crashes, erased, repurged>> /\ pc' = [pc EXCEPT ![w] = "claim"]
      /\ overtaken' = IF \E u \in Readers : Backfilling(u) THEN overtaken \union {r} ELSE overtaken
    BY DEF Execute, Go, Overtake
<1>3. /\ data'[r] = TRUE /\ outcome'[r] = "running"
      /\ \A q \in Runs : q # r => data'[q] = data[q] /\ outcome'[q] = outcome[q]
    BY <1>1, <1>2 DEF StoreTypes
<1>4. StoreTypes'
    BY <1>1, <1>2 DEF StoreTypes
<1>5. /\ overtaken \subseteq overtaken' /\ \A q \in Runs : q # r => (q \in overtaken' <=> q \in overtaken)
      /\ (\E u \in Actors : Backfilling(u)) => r \in overtaken'
    BY <1>1, <1>2 DEF Types, Backfilling, ReadLabels
<1>6. /\ loc' \in [Actors -> Locals] /\ loc'[w] = [NoLocals EXCEPT !.run = r]
      /\ \A a \in Actors : a # w => loc'[a] = IF loc[a].run = r THEN [loc[a] EXCEPT !.alone = FALSE] ELSE loc[a]
    <2>1. \A a \in Actors : loc[a] \in Locals /\ [loc[a] EXCEPT !.alone = FALSE] \in Locals
        BY <1>1, Changed DEF Types
    <2>2. [NoLocals EXCEPT !.run = r] \in Locals
        BY EmptyLocals, Changed
    <2> QED
        BY <1>1, <2>1, <2>2 DEF Execute
<1>7. loc'[w].run = r
    BY <1>6 DEF NoLocals
<1>8. \A a \in Actors : a # w => Keeps(a) /\ loc'[a].live = loc[a].live /\ loc'[a].counted = loc[a].counted
                                 /\ (loc[a].run = r => ~loc'[a].alone)
    <2> SUFFICES ASSUME NEW a \in Actors, a # w
                 PROVE  Keeps(a) /\ loc'[a].live = loc[a].live /\ loc'[a].counted = loc[a].counted /\ (loc[a].run = r => ~loc'[a].alone)
        OBVIOUS
    <2>1. loc[a] \in Locals
        BY <1>1 DEF Types
    <2>2. CASE loc[a].run = r
        <3>1. loc'[a] = [loc[a] EXCEPT !.alone = FALSE]
            BY <1>6, <2>2
        <3> QED
            BY <2>1, <3>1 DEF Keeps, Locals
    <2>3. CASE loc[a].run # r
        <3>1. loc'[a] = loc[a]
            BY <1>6, <2>3
        <3> QED
            BY <2>3, <3>1 DEF Keeps
    <2> QED
        BY <2>2, <2>3
<1>9. Types' /\ pc'[w] = "claim" /\ \A a \in Actors : a # w => pc'[a] = pc[a]
    <2>1. "claim" \in Labels /\ "claim" \notin ReadLabels /\ "claim" \notin PurgeLabels
        BY DEF Labels, WorkLabels, ReadLabels, PurgeLabels
    <2> QED
        BY <1>1, <1>2, <1>4, <1>6, <1>7, <1>8, <2>1, RunTypes DEF Keeps
<1>10. RunMoves(w, r)
    <2>1. erased'[r] = "no" => ctr'.of[r] >= 0
        BY <1>1, <1>2 DEF TotalsInv
    <2>2. data[r] \/ erased[r] = "no"
        BY <1>1 DEF DataInv
    <2> QED
        BY <1>1, <1>2, <1>3, <1>5, <1>7, <1>8, <1>9, <2>1, <2>2 DEF RunMoves, WorkLabels, PurgeLabels, ReadLabels
<1>11. Total(r)' = Total(r) /\ Total(r) \in Int /\ On(w, r)'
    BY <1>1, <1>2, <1>7, <1>9, TotalInt DEF Total, InLegacy, On, WorkLabels
<1>12. \A a \in Actors : Heavy(a, r)' => Heavy(a, r)
    <2> SUFFICES ASSUME NEW a \in Actors, Heavy(a, r)' PROVE Heavy(a, r)
        OBVIOUS
    <2>1. a # w /\ pc'[a] = pc[a] /\ loc'[a].run = loc[a].run /\ loc'[a].cost = loc[a].cost
        BY <1>8, <1>9 DEF Heavy, Keeps
    <2>2. On(a, r)
        BY <2>1 DEF Heavy, On, WorkLabels
    <2>3. data[r]
        BY <1>1, <2>2 DEF DataInv, StoreTypes
    <2> QED
        BY <2>1, <2>3 DEF Heavy
<1>13. RunKept(w, r)
    <2>1. DataInv(r)'
        BY <1>1, <1>2, <1>3, <1>8, <1>9 DEF DataInv, Purging, Keeps, PurgeLabels
    <2>2. BillInv(r)'
        <3>1. data[r] \/ (Total(r) <= 0 /\ \A a \in Actors : ~Heavy(a, r))
            BY <1>1, OnRun DEF DataInv, StoreTypes
        <3> QED
            BY <1>1, <1>2, <1>5, <1>11, <1>12, <3>1 DEF BillInv
    <2>3. GhostInv(r)'
        BY <1>1, <1>2 DEF GhostInv
    <2>4. DoneInv(r)'
        <3>1. Counting(r) => Counting(r)'
            BY <1>1, <1>8, <1>9 DEF Counting, Keeps
        <3>2. \A a \in Actors : pc'[a] \in {"cost", "add", "succeed"} => a # w /\ pc'[a] = pc[a] /\ loc'[a].run = loc[a].run /\ loc'[a].cost = loc[a].cost
            BY <1>8, <1>9 DEF Keeps
        <3>3. (\E u \in Actors : pc[u] \in {"mark", "put"}) => r \in overtaken'
            BY <1>5 DEF Backfilling
        <3>4. \A a \in Actors : On(a, r) => On(a, r)'
            BY <1>1, <1>8, <1>9 DEF On, Keeps, WorkLabels
        <3> QED
            BY <1>1, <1>2, <1>3, <1>5, <1>11, <3>1, <3>2, <3>3, <3>4 DEF DoneInv
    <2>5. \A a \in Actors : PurgeInv(a, r)'
        BY <1>8, <1>9 DEF PurgeInv, Purging, Keeps, PurgeLabels
    <2>6. ASSUME NEW a \in Actors, a # w, pc[a] \in ReadLabels PROVE Owed(a, r)'
        <3>1. Owed(a, r)
            BY <2>6 DEF IInv, SeenInv
        <3> QED
            BY <1>2, <1>3, <1>8, <1>9, <2>6, <3>1 DEF Owed, Keeps
    <2> QED
        BY <2>1, <2>2, <2>3, <2>4, <2>5, <2>6 DEF RunKept, RunInv
<1> QED
    BY <1>1, <1>9, <1>10, <1>13, RunFrame

\* A step that changes the place and the locals of nobody else
LEMMA SoloTypes ==
    ASSUME Types, NEW b \in Actors, NEW l \in Labels, l \notin ReadLabels, StoreTypes', NEW x \in Locals,
           pc' = [pc EXCEPT ![b] = l], loc' = [loc EXCEPT ![b] = x],
           l \in WorkLabels => b \in Workers /\ x.run \in Runs, l \in PurgeLabels => b \in Purgers /\ x.run \in Runs
    PROVE  /\ Types' /\ pc'[b] = l /\ loc'[b] = x
           /\ \A a \in Actors : a # b => pc'[a] = pc[a] /\ loc'[a] = loc[a]
<1>1. loc' \in [Actors -> Locals] /\ loc'[b] = x /\ \A a \in Actors : a # b => loc'[a] = loc[a]
    BY DEF Types
<1> QED
    BY <1>1, RunTypes

\* What holds where a worker or a purger is, at its run
LEMMA AtRun ==
    ASSUME IInv, NEW b \in Actors, pc[b] \in WorkLabels \cup PurgeLabels
    PROVE  /\ Types /\ StoreTypes /\ TotalsInv /\ loc[b] \in Locals /\ loc[b].run \in Runs /\ pc[b] \notin ReadLabels
           /\ DataInv(loc[b].run) /\ BillInv(loc[b].run) /\ GhostInv(loc[b].run) /\ DoneInv(loc[b].run)
           /\ (\E u \in Actors : Backfilling(u)) => loc[b].run \in overtaken
<1>1. Types /\ StoreTypes /\ TotalsInv /\ loc[b] \in Locals /\ loc[b].run \in Runs
    BY DEF IInv, Types
<1>2. pc[b] \notin ReadLabels
    BY DEF WorkLabels, ReadLabels, PurgeLabels
<1>3. (\E u \in Actors : Backfilling(u)) => loc[b].run \in overtaken
    BY DEF IInv, ScanInv
<1> QED
    BY <1>1, <1>2, <1>3 DEF IInv

\* A worker's step at the run where it is leaves the purges as they are: those of this
\* run have met the worker.
LEMMA WorkerSame ==
    ASSUME IInv, NEW w \in Actors, pc[w] \in WorkLabels, pc'[w] \in WorkLabels \cup {"idle"}, NEW r \in Runs, loc[w].run = r,
           \A a \in Actors : a # w => pc'[a] = pc[a] /\ loc'[a].run = loc[a].run /\ (loc'[a].alone => loc[a].alone),
           UNCHANGED <<erased, overtaken, repurged, crashes>>
    PROVE  /\ On(w, r) /\ \A a \in Actors : Purging(a, r)' <=> Purging(a, r)
           /\ Calm(r)' <=> Calm(r)
           /\ GhostInv(r)' /\ \A a \in Actors : PurgeInv(a, r)'
<1>1. On(w, r) /\ GhostInv(r) /\ pc[w] \notin PurgeLabels /\ pc'[w] \notin PurgeLabels
    BY DEF On, IInv, WorkLabels, PurgeLabels
<1>2. \A a \in Actors : Purging(a, r)' <=> Purging(a, r)
    BY <1>1 DEF Purging
<1>3. GhostInv(r)'
    BY <1>1 DEF GhostInv
<1>4. ASSUME NEW a \in Actors PROVE PurgeInv(a, r)'
    <2>1. PurgeInv(a, r) /\ (Purging(a, r)' => a # w)
        BY <1>1 DEF IInv, Purging
    <2> QED
        BY <1>1, <1>2, <2>1 DEF PurgeInv
<1> QED
    BY <1>1, <1>2, <1>3, <1>4 DEF Calm

\* Who wins the marker is the only one to bill the run.
LEMMA ClaimMarkerStep == ASSUME IInv, NEW w \in Workers, ClaimMarker(w) PROVE IInv'
<1>1. w \in Actors /\ pc[w] = "claim" /\ pc[w] \in WorkLabels
    BY DEF Actors, ClaimMarker, WorkLabels
<1>2. PICK r \in Runs : loc[w].run = r
    BY <1>1, AtRun
<1>3. /\ Types /\ StoreTypes /\ TotalsInv /\ loc[w] \in Locals /\ pc[w] \notin ReadLabels
      /\ DataInv(r) /\ BillInv(r) /\ GhostInv(r) /\ DoneInv(r) /\ ((\E u \in Actors : Backfilling(u)) => r \in overtaken)
    BY <1>1, <1>2, AtRun DEF IInv
<1>a. erased[r] = "no" => outcome[r] # "none" /\ data[r]
    BY <1>1, <1>2, <1>3 DEF DoneInv, DataInv, On, StoreTypes
<1> DEFINE l == IF r \in marker THEN "succeed" ELSE "cost"
<1>4. /\ marker' = marker \cup {r} /\ UNCHANGED <<data, outcome, legacy, ctr, loc, setting, execs, reads, crashes, erased, overtaken, repurged>>
      /\ pc' = [pc EXCEPT ![w] = l] /\ loc' = [loc EXCEPT ![w] = loc[w]] /\ StoreTypes'
    BY <1>2, <1>3 DEF ClaimMarker, Go, bounds, history, Types, StoreTypes
<1>5. /\ l \in {"succeed", "cost"} /\ l \in Labels /\ l \notin ReadLabels /\ l \notin PurgeLabels /\ l \in WorkLabels
      /\ l = "cost" <=> r \notin marker
    BY DEF Labels, WorkLabels, ReadLabels, PurgeLabels
<1> HIDE DEF l
<1>6. /\ Types' /\ pc'[w] = l /\ loc' = loc /\ \A a \in Actors : a # w => pc'[a] = pc[a]
    BY <1>1, <1>2, <1>3, <1>4, <1>5, SoloTypes
<1>7. RunMoves(w, r)
    BY <1>a, <1>2, <1>3, <1>4, <1>5, <1>6 DEF RunMoves, Keeps, TotalsInv
<1>8. Total(r)' = Total(r) /\ Total(r) \in Int
    BY <1>3, <1>4, TotalInt DEF Total, InLegacy
<1>9. On(w, r) /\ \A a \in Actors : On(a, r)' <=> On(a, r)
    BY <1>1, <1>2, <1>5, <1>6 DEF On
<1>10. \A a \in Actors : IF a = w THEN Heavy(a, r)' <=> r \notin marker /\ data[r] ELSE Heavy(a, r)' <=> Heavy(a, r)
    BY <1>2, <1>4, <1>5, <1>6 DEF Heavy
<1>b. /\ \A a \in Actors : Purging(a, r)' <=> Purging(a, r)
      /\ Calm(r)' <=> Calm(r)
      /\ GhostInv(r)' /\ \A a \in Actors : PurgeInv(a, r)'
    BY <1>1, <1>2, <1>4, <1>5, <1>6, WorkerSame DEF Keeps
<1>11. RunKept(w, r)
    <2>1. DataInv(r)'
        BY <1>b, <1>a, <1>3, <1>4, <1>5, <1>6, <1>8, <1>9 DEF DataInv
    <2>2. BillInv(r)'
        <3>1. r \in marker'
            BY <1>4
        <3>2. ASSUME r \notin overtaken, NEW a \in Actors, Heavy(a, r)' PROVE Total(r) <= 0
            BY <1>3, <1>10, <3>2 DEF BillInv
        <3>3. ASSUME r \notin overtaken, NEW a \in Actors, NEW b \in Actors, Heavy(a, r)', Heavy(b, r)' PROVE a = b
            BY <1>3, <1>10, <3>3 DEF BillInv
        <3> QED
            BY <1>3, <1>4, <1>8, <3>1, <3>2, <3>3 DEF BillInv
    <2>4. DoneInv(r)'
        <3>1. r \notin marker => Counting(r)'
            BY <1>1, <1>2, <1>5, <1>6 DEF Counting
        <3>2. Counting(r) => Counting(r)'
            BY <1>1, <1>6 DEF Counting
        <3>3. r \in marker' /\ \A a \in Actors : pc'[a] = "add" => pc[a] = "add"
            BY <1>4, <1>5, <1>6
        <3> QED
            BY <1>a, <1>3, <1>4, <1>8, <1>9, <3>1, <3>2, <3>3 DEF DoneInv
    <2>6. ASSUME NEW a \in Actors, a # w, pc[a] \in ReadLabels PROVE Owed(a, r)'
        <3>1. Owed(a, r)
            BY <2>6 DEF IInv, SeenInv
        <3> QED
            BY <1>4, <1>6, <2>6, <3>1 DEF Owed
    <2> QED
        BY <1>b, <2>1, <2>2, <2>4, <2>6 DEF RunKept, RunInv
<1> QED
    BY <1>1, <1>3, <1>6, <1>7, <1>11, RunFrame

\* The cost of a run that is not erased is there to be read.
LEMMA ReadCostStep == ASSUME IInv, NEW w \in Workers, ReadCost(w) PROVE IInv'
<1>1. w \in Actors /\ pc[w] = "cost" /\ pc[w] \in WorkLabels
    BY DEF Actors, ReadCost, WorkLabels
<1>2. PICK r \in Runs : loc[w].run = r
    BY <1>1, AtRun
<1>3. /\ Types /\ StoreTypes /\ TotalsInv /\ loc[w] \in Locals /\ pc[w] \notin ReadLabels
      /\ DataInv(r) /\ BillInv(r) /\ GhostInv(r) /\ DoneInv(r) /\ ((\E u \in Actors : Backfilling(u)) => r \in overtaken)
    BY <1>1, <1>2, AtRun DEF IInv
<1>a. erased[r] = "no" => outcome[r] # "none" /\ data[r]
    BY <1>1, <1>2, <1>3 DEF DoneInv, DataInv, On, StoreTypes
<1> DEFINE x == [loc[w] EXCEPT !.cost = Cost(r)]
<1>4. UNCHANGED <<data, outcome, marker, legacy, ctr, setting, execs, reads, crashes, erased, overtaken, repurged>> /\ StoreTypes'
    BY <1>3 DEF ReadCost, store, bounds, history, StoreTypes
<1>5. /\ Cost(r) \in 0 .. 1 /\ (Cost(r) = 1 <=> data[r])
      /\ pc' = [pc EXCEPT ![w] = "add"] /\ loc' = [loc EXCEPT ![w] = x]
    BY <1>2, <1>3 DEF ReadCost, Go, Cost
<1>6. x \in Locals /\ x.run = r /\ x.cost = Cost(r)
    BY <1>2, <1>3, <1>5 DEF Locals
<1>7. "add" \in Labels /\ "add" \in WorkLabels /\ "add" \notin ReadLabels /\ "add" \notin PurgeLabels
    BY DEF Labels, WorkLabels, ReadLabels, PurgeLabels
<1> HIDE DEF x
<1>8. /\ Types' /\ pc'[w] = "add" /\ loc'[w] = x /\ \A a \in Actors : a # w => pc'[a] = pc[a] /\ loc'[a] = loc[a]
    BY <1>1, <1>3, <1>4, <1>5, <1>6, <1>7, SoloTypes
<1>9. RunMoves(w, r)
    BY <1>a, <1>2, <1>3, <1>4, <1>6, <1>7, <1>8 DEF RunMoves, Keeps, TotalsInv
<1>10. Total(r)' = Total(r) /\ Total(r) \in Int
    BY <1>3, <1>4, TotalInt DEF Total, InLegacy
<1>11. On(w, r) /\ \A a \in Actors : On(a, r)' <=> On(a, r)
    BY <1>1, <1>2, <1>6, <1>7, <1>8 DEF On
<1>12. \A a \in Actors : Heavy(a, r)' <=> Heavy(a, r)
    BY <1>1, <1>2, <1>4, <1>5, <1>6, <1>8 DEF Heavy
<1>b. /\ \A a \in Actors : Purging(a, r)' <=> Purging(a, r)
      /\ Calm(r)' <=> Calm(r)
      /\ GhostInv(r)' /\ \A a \in Actors : PurgeInv(a, r)'
    BY <1>1, <1>2, <1>4, <1>7, <1>8, WorkerSame DEF Keeps
<1>13. RunKept(w, r)
    <2>1. DataInv(r)'
        BY <1>b, <1>3, <1>4, <1>7, <1>8, <1>10, <1>11 DEF DataInv
    <2>2. BillInv(r)'
        BY <1>3, <1>4, <1>10, <1>12 DEF BillInv
    <2>4. DoneInv(r)'
        <3>1. Counting(r)'
            BY <1>1, <1>6, <1>8 DEF Counting
        <3>2. erased[r] = "no" => x.cost = 1
            BY <1>1, <1>3, <1>5, <1>6, <1>11 DEF DataInv, StoreTypes
        <3> QED
            BY <1>a, <1>1, <1>2, <1>3, <1>4, <1>10, <1>11, <1>8, <3>1, <3>2 DEF DoneInv
    <2>6. ASSUME NEW a \in Actors, a # w, pc[a] \in ReadLabels PROVE Owed(a, r)'
        <3>1. Owed(a, r)
            BY <2>6 DEF IInv, SeenInv
        <3> QED
            BY <1>4, <1>8, <2>6, <3>1 DEF Owed
    <2> QED
        BY <1>b, <2>1, <2>2, <2>4, <2>6 DEF RunKept, RunInv
<1> QED
    BY <1>1, <1>3, <1>8, <1>9, <1>13, RunFrame

\* The atomic counter after a change at one run
LEMMA CounterChange ==
    ASSUME StoreTypes, NEW r \in Runs, NEW d \in Int, setting' = setting, legacy' = legacy,
           ctr' = [some |-> TRUE, of |-> [ctr.of EXCEPT ![r] = @ + d]]
    PROVE  /\ ctr' \in [some : BOOLEAN, of : [Runs -> Int]] /\ ctr'.some /\ ctr'.of[r] = ctr.of[r] + d
           /\ \A q \in Runs : q # r => ctr'.of[q] = ctr.of[q]
           /\ Total(r)' = Total(r) + d /\ Total(r) \in Int
<1>1. ctr.of \in [Runs -> Int]
    BY DEF StoreTypes
<1>2. [ctr.of EXCEPT ![r] = @ + d] \in [Runs -> Int]
    BY <1>1
<1>3. ctr' \in [some : BOOLEAN, of : [Runs -> Int]] /\ ctr'.some /\ ctr'.of = [ctr.of EXCEPT ![r] = @ + d]
    BY <1>2
<1>4. ctr'.of[r] = ctr.of[r] + d /\ \A q \in Runs : q # r => ctr'.of[q] = ctr.of[q]
    BY <1>1, <1>3
<1>5. Total(r) \in Int /\ ctr.of[r] \in Int /\ InLegacy(r) \in 0 .. 1 /\ InLegacy(r)' = InLegacy(r)
    BY TotalInt DEF InLegacy
<1>6. Total(r)' = Total(r) + d
    BY <1>4, <1>5 DEF Total
<1> QED
    BY <1>3, <1>4, <1>5, <1>6

\* The one who bills the run finds it unbilled.
LEMMA AddUsageStep == ASSUME IInv, NEW w \in Workers, AddUsage(w) PROVE IInv'
<1>1. w \in Actors /\ pc[w] = "add" /\ pc[w] \in WorkLabels
    BY DEF Actors, AddUsage, WorkLabels
<1>2. PICK r \in Runs : loc[w].run = r
    BY <1>1, AtRun
<1>3. /\ Types /\ StoreTypes /\ TotalsInv /\ loc[w] \in Locals /\ pc[w] \notin ReadLabels
      /\ DataInv(r) /\ BillInv(r) /\ GhostInv(r) /\ DoneInv(r) /\ ((\E u \in Actors : Backfilling(u)) => r \in overtaken)
    BY <1>1, <1>2, AtRun DEF IInv
<1>a. erased[r] = "no" => outcome[r] # "none" /\ data[r]
    BY <1>1, <1>2, <1>3 DEF DoneInv, DataInv, On, StoreTypes
<1>4. PICK d \in 0 .. 1 : loc[w].cost = d
    BY <1>3 DEF Locals
<1>5. /\ UNCHANGED <<data, outcome, marker, legacy, loc, setting, execs, reads, crashes, erased, overtaken, repurged>>
      /\ ctr' = [some |-> TRUE, of |-> [ctr.of EXCEPT ![r] = @ + d]]
      /\ pc' = [pc EXCEPT ![w] = "succeed"] /\ loc' = [loc EXCEPT ![w] = loc[w]]
    BY <1>2, <1>3, <1>4 DEF AddUsage, bounds, history, Go, Types
<1>6. /\ ctr' \in [some : BOOLEAN, of : [Runs -> Int]] /\ ctr'.some /\ ctr'.of[r] = ctr.of[r] + d
      /\ \A q \in Runs : q # r => ctr'.of[q] = ctr.of[q]
      /\ Total(r)' = Total(r) + d /\ Total(r) \in Int
    BY <1>3, <1>5, CounterChange
<1>7. StoreTypes' /\ ctr.of[r] \in Int /\ InLegacy(r) \in 0 .. 1
    BY <1>3, <1>5, <1>6, TotalInt DEF StoreTypes, history
<1>8. "succeed" \in Labels /\ "succeed" \in WorkLabels /\ "succeed" \notin ReadLabels /\ "succeed" \notin PurgeLabels
    BY DEF Labels, WorkLabels, ReadLabels, PurgeLabels
<1>9. pc' = [pc EXCEPT ![w] = "succeed"] /\ loc' = [loc EXCEPT ![w] = loc[w]] /\ loc[w].run \in Runs /\ StoreTypes' /\ loc[w] \in Locals /\ Types
    BY <1>2, <1>3, <1>5, <1>7
<1>10. Types' /\ pc'[w] = "succeed" /\ loc' = loc /\ \A a \in Actors : a # w => pc'[a] = pc[a]
    <2>1. Types' /\ pc'[w] = "succeed" /\ \A a \in Actors : a # w => pc'[a] = pc[a]
        BY <1>1, <1>8, <1>9, SoloTypes
    <2> QED
        BY <1>5, <2>1
<1>11. erased[r] = "no" => ctr.of[r] >= 0 /\ ctr'.of[r] >= 0
    BY <1>3, <1>6, <1>7 DEF TotalsInv
<1>12. RunMoves(w, r)
    BY <1>a, <1>2, <1>3, <1>5, <1>6, <1>8, <1>10, <1>11 DEF RunMoves, Keeps
<1>13. On(w, r) /\ \A a \in Actors : On(a, r)' <=> On(a, r)
    BY <1>1, <1>2, <1>8, <1>10 DEF On
<1>14. (Heavy(w, r) <=> d = 1) /\ \A a \in Actors : Heavy(a, r)' <=> a # w /\ Heavy(a, r)
    BY <1>1, <1>2, <1>4, <1>5, <1>10 DEF Heavy
<1>15. r \in overtaken \/ d = 0 \/ (d = 1 /\ Total(r) <= 0 /\ \A a \in Actors : ~Heavy(a, r)')
    BY <1>1, <1>3, <1>4, <1>14 DEF BillInv
<1>b. /\ \A a \in Actors : Purging(a, r)' <=> Purging(a, r)
      /\ Calm(r)' <=> Calm(r)
      /\ GhostInv(r)' /\ \A a \in Actors : PurgeInv(a, r)'
    BY <1>1, <1>2, <1>5, <1>8, <1>10, WorkerSame DEF Keeps
<1>16. RunKept(w, r)
    <2>1. DataInv(r)'
        BY <1>b, <1>1, <1>3, <1>5, <1>8, <1>10, <1>13 DEF DataInv
    <2>2. BillInv(r)'
        <3>1. r \notin overtaken /\ data[r] /\ r \notin marker => d = 0
            BY <1>1, <1>3, <1>4, <1>14 DEF BillInv
        <3> QED
            BY <1>3, <1>5, <1>6, <1>14, <1>15, <3>1 DEF BillInv
    <2>4. DoneInv(r)'
        <3>1. ASSUME erased[r] = "no" PROVE d = 1 /\ Total(r) + d >= 1
            <4>1. d = 1
                BY <1>1, <1>2, <1>3, <1>4, <3>1 DEF DoneInv
            <4>2. Total(r) >= 0
                BY <1>7, <1>11, <3>1 DEF Total
            <4> QED
                BY <1>6, <4>1, <4>2
        <3>2. \A a \in Actors : pc'[a] = "add" => pc[a] = "add"
            BY <1>10
        <3>3. erased[r] = "no" => r \in marker
            BY <1>1, <1>2, <1>3 DEF DoneInv
        <3> QED
            BY <1>a, <1>3, <1>5, <1>6, <1>10, <1>13, <3>1, <3>2, <3>3 DEF DoneInv
    <2>6. ASSUME NEW a \in Actors, a # w, pc[a] \in ReadLabels PROVE Owed(a, r)'
        <3>1. Owed(a, r) /\ loc[a].seen[r] \in Int
            BY <1>3, <2>6 DEF IInv, SeenInv, Types, Locals
        <3>2. loc[a].seen[r] + ctr.of[r] >= 1 => loc[a].seen[r] + ctr'.of[r] >= 1
            BY <1>6, <1>7, <3>1
        <3> QED
            BY <1>5, <1>10, <2>6, <3>1, <3>2 DEF Owed
    <2> QED
        BY <1>b, <2>1, <2>2, <2>4, <2>6 DEF RunKept, RunInv
<1> QED
    BY <1>1, <1>3, <1>10, <1>12, <1>16, RunFrame

\* A run that completes is marked, and no longer live.
LEMMA SucceedStep == ASSUME IInv, NEW w \in Workers, Succeed(w) PROVE IInv'
<1>1. w \in Actors /\ pc[w] = "succeed" /\ pc[w] \in WorkLabels
    BY DEF Actors, Succeed, WorkLabels
<1>2. PICK r \in Runs : loc[w].run = r
    BY <1>1, AtRun
<1>3. /\ Types /\ StoreTypes /\ TotalsInv /\ loc[w] \in Locals /\ pc[w] \notin ReadLabels
      /\ DataInv(r) /\ BillInv(r) /\ GhostInv(r) /\ DoneInv(r) /\ ((\E u \in Actors : Backfilling(u)) => r \in overtaken)
    BY <1>1, <1>2, AtRun DEF IInv
<1>a. erased[r] = "no" => outcome[r] # "none" /\ data[r]
    BY <1>1, <1>2, <1>3 DEF DoneInv, DataInv, On, StoreTypes
<1>4. /\ UNCHANGED <<data, marker, legacy, ctr, setting, execs, reads, crashes, erased, overtaken, repurged>>
      /\ outcome' = [outcome EXCEPT ![r] = "completed"] /\ pc' = [pc EXCEPT ![w] = "idle"]
    BY <1>2 DEF Succeed, bounds, history, Go
<1>5. StoreTypes' /\ outcome'[r] = "completed" /\ \A q \in Runs : q # r => outcome'[q] = outcome[q]
    BY <1>3, <1>4 DEF StoreTypes, history
<1>6. loc' \in [Actors -> Locals] /\ loc'[w] = NoLocals /\ \A a \in Actors : a # w => loc'[a] = [loc[a] EXCEPT !.live = @ \ {r}]
    <2>1. \A a \in Actors : [loc[a] EXCEPT !.live = @ \ {r}] \in Locals
        BY <1>3, Changed DEF Types
    <2> QED
        BY <1>1, <1>2, <2>1, EmptyLocals DEF Succeed
<1>7. ASSUME NEW a \in Actors, a # w PROVE Keeps(a) /\ loc'[a].counted = loc[a].counted /\ r \notin loc'[a].live
    <2>1. loc[a] \in Locals /\ loc'[a] = [loc[a] EXCEPT !.live = @ \ {r}]
        BY <1>3, <1>6, <1>7 DEF Types
    <2> QED
        BY <2>1 DEF Keeps, Locals
<1>8. "idle" \in Labels /\ "idle" \notin WorkLabels /\ "idle" \notin ReadLabels /\ "idle" \notin PurgeLabels
    BY DEF Labels, WorkLabels, ReadLabels, PurgeLabels
<1>9. Types' /\ pc'[w] = "idle" /\ \A a \in Actors : a # w => pc'[a] = pc[a]
    <2>1. \A a \in Actors : a # w => loc'[a].run = loc[a].run
        BY <1>7 DEF Keeps
    <2>2. pc' = [pc EXCEPT ![w] = "idle"] /\ loc' \in [Actors -> Locals] /\ StoreTypes' /\ Types
        BY <1>3, <1>4, <1>5, <1>6
    <2> QED
        BY <1>1, <1>8, <2>1, <2>2, RunTypes
<1>10. RunMoves(w, r)
    BY <1>a, <1>1, <1>2, <1>3, <1>4, <1>5, <1>7, <1>8, <1>9 DEF RunMoves, TotalsInv
<1>11. Total(r)' = Total(r) /\ Total(r) \in Int
    BY <1>3, <1>4, TotalInt DEF Total, InLegacy
<1>12. On(w, r) /\ \A a \in Actors : (On(a, r)' => On(a, r)) /\ (Heavy(a, r)' => Heavy(a, r))
    BY <1>1, <1>2, <1>4, <1>7, <1>8, <1>9 DEF On, Heavy, Keeps
<1>b. /\ \A a \in Actors : Purging(a, r)' <=> Purging(a, r)
      /\ Calm(r)' <=> Calm(r)
      /\ GhostInv(r)' /\ \A a \in Actors : PurgeInv(a, r)'
    BY <1>1, <1>2, <1>4, <1>7, <1>8, <1>9, WorkerSame DEF Keeps
<1>13. RunKept(w, r)
    <2>1. DataInv(r)'
        BY <1>b, <1>1, <1>3, <1>4, <1>7, <1>8, <1>9, <1>12 DEF DataInv, Keeps
    <2>2. BillInv(r)'
        BY <1>3, <1>4, <1>11, <1>12 DEF BillInv
    <2>4. DoneInv(r)'
        <3>1. Counting(r) => Counting(r)'
            BY <1>1, <1>7, <1>9 DEF Counting, Keeps
        <3>2. \A a \in Actors : pc'[a] = "add" => pc[a] = "add" /\ loc'[a].run = loc[a].run /\ loc'[a].cost = loc[a].cost
            BY <1>7, <1>9 DEF Keeps
        <3>3. erased[r] = "no" => r \in marker
            BY <1>1, <1>2, <1>3 DEF DoneInv
        <3> QED
            BY <1>a, <1>3, <1>4, <1>5, <1>11, <3>1, <3>2, <3>3 DEF DoneInv
    <2>6. ASSUME NEW a \in Actors, a # w, pc[a] \in ReadLabels PROVE Owed(a, r)'
        <3>1. Owed(a, r) /\ Keeps(a) /\ loc'[a].counted = loc[a].counted /\ r \notin loc'[a].live /\ pc'[a] = pc[a]
            BY <1>7, <1>9, <2>6 DEF IInv, SeenInv
        <3> QED
            BY <1>4, <3>1 DEF Owed, Keeps
    <2> QED
        BY <1>b, <2>1, <2>2, <2>4, <2>6 DEF RunKept, RunInv
<1> QED
    BY <1>1, <1>3, <1>9, <1>10, <1>13, RunFrame

\* A purge begins: no reader is owed the run any more.
LEMMA PurgeStep == ASSUME IInv, NEW p \in Purgers, NEW r \in Runs, Purge(p, r) PROVE IInv'
<1>1. /\ Types /\ StoreTypes /\ p \in Actors /\ pc[p] = "idle" /\ data[r] /\ setting.purge
      /\ DataInv(r) /\ BillInv(r) /\ GhostInv(r) /\ DoneInv(r) /\ TotalsInv
    BY DEF IInv, Types, Actors, Purge
<1>2. /\ UNCHANGED <<data, outcome, marker, legacy, ctr, setting, execs, reads, crashes>>
      /\ erased' = [erased EXCEPT ![r] = "begun"] /\ pc' = [pc EXCEPT ![p] = "marker"]
      /\ repurged' = IF Erasing(r) THEN repurged \union {r} ELSE repurged
      /\ overtaken' = IF \E u \in Readers : Backfilling(u) THEN overtaken \union {r} ELSE overtaken
    BY DEF Purge, store, bounds, Go, Overtake
<1>3. StoreTypes' /\ erased'[r] = "begun" /\ \A q \in Runs : q # r => erased'[q] = erased[q]
    BY <1>1, <1>2 DEF StoreTypes
<1>4. /\ r \in overtaken => r \in overtaken'
      /\ \A q \in Runs : q # r => (q \in overtaken' <=> q \in overtaken) /\ (q \in repurged' <=> q \in repurged)
      /\ (\E u \in Actors : Backfilling(u)) => r \in overtaken'
      /\ r \in repurged => r \in repurged'
    BY <1>1, <1>2 DEF Types, Backfilling, ReadLabels
<1> DEFINE v == \A w \in Workers : loc[w].run # r
<1>5. /\ loc' \in [Actors -> Locals] /\ loc'[p] = [NoLocals EXCEPT !.run = r, !.alone = v]
      /\ \A a \in Actors : a # p => loc'[a] = [loc[a] EXCEPT !.counted = @ \ {r}, !.live = @ \ {r}]
    <2>1. \A a \in Actors : [loc[a] EXCEPT !.counted = @ \ {r}, !.live = @ \ {r}] \in Locals
        BY <1>1, Changed DEF Types
    <2>2. [NoLocals EXCEPT !.run = r, !.alone = v] \in Locals
        BY EmptyLocals, Changed
    <2>3. loc' = [a \in Actors |-> IF a = p THEN [NoLocals EXCEPT !.run = r, !.alone = v]
                                   ELSE [loc[a] EXCEPT !.counted = @ \ {r}, !.live = @ \ {r}]]
        BY DEF Purge
    <2> HIDE DEF v
    <2> QED
        BY <1>1, <2>1, <2>2, <2>3
<1>6. loc'[p].run = r /\ loc'[p].alone = v
    <2> HIDE DEF v
    <2> QED
        BY <1>5 DEF NoLocals
<1>7. ASSUME NEW a \in Actors, a # p PROVE Keeps(a) /\ r \notin loc'[a].counted /\ r \notin loc'[a].live
    <2>1. loc[a] \in Locals /\ loc'[a] = [loc[a] EXCEPT !.counted = @ \ {r}, !.live = @ \ {r}]
        BY <1>1, <1>5, <1>7 DEF Types
    <2> QED
        BY <2>1 DEF Keeps, Locals
<1>8. "marker" \in Labels /\ "marker" \notin WorkLabels /\ "marker" \notin ReadLabels /\ "marker" \in PurgeLabels
    BY DEF Labels, WorkLabels, ReadLabels, PurgeLabels
<1>9. Types' /\ pc'[p] = "marker" /\ \A a \in Actors : a # p => pc'[a] = pc[a]
    <2>1. \A a \in Actors : a # p => loc'[a].run = loc[a].run
        BY <1>7 DEF Keeps
    <2>2. pc' = [pc EXCEPT ![p] = "marker"] /\ loc' \in [Actors -> Locals] /\ loc'[p].run \in Runs /\ StoreTypes' /\ Types
        BY <1>1, <1>2, <1>3, <1>5, <1>6
    <2> QED
        BY <1>1, <1>8, <2>1, <2>2, RunTypes
<1>10. RunMoves(p, r)
    BY <1>1, <1>2, <1>3, <1>4, <1>6, <1>7, <1>8, <1>9 DEF RunMoves, WorkLabels, ReadLabels, PurgeLabels
<1>11. Total(r)' = Total(r)
    BY <1>2 DEF Total, InLegacy
<1>12. \A a \in Actors : (On(a, r)' => On(a, r)) /\ (Heavy(a, r)' => Heavy(a, r))
    BY <1>2, <1>7, <1>8, <1>9 DEF On, Heavy, Keeps
<1>13. erased[r] \in {"no", "begun"}
    BY <1>1 DEF DataInv, StoreTypes
<1>14. RunKept(p, r)
    <2>1. DataInv(r)'
        <3>1. r \notin repurged' => \A a \in Actors : Purging(a, r)' => a = p
            BY <1>1, <1>2, <1>7, <1>9 DEF DataInv, Purging, Erasing, Keeps
        <3> QED
            BY <1>1, <1>2, <1>3, <3>1 DEF DataInv
    <2>2. BillInv(r)'
        BY <1>1, <1>2, <1>4, <1>11, <1>12 DEF BillInv
    <2>3. GhostInv(r)' /\ DoneInv(r)'
        BY <1>3 DEF GhostInv, DoneInv
    <2>4. ASSUME NEW a \in Actors PROVE PurgeInv(a, r)'
        <3>1. CASE a = p
            <4>1. v => \A b \in Actors : ~On(b, r)
                BY OnRun
            <4>2. v => ~Counting(r)
                BY <4>1 DEF Counting, On, WorkLabels
            <4>3. r \notin overtaken' => ~ \E u \in Actors : pc[u] \in {"mark", "put"}
                BY <1>4 DEF Backfilling
            <4>4. Calm(r)' => crashes = 0 /\ erased[r] = "no"
                BY <1>2 DEF Calm, Erasing
            <4>5. erased[r] = "no" => Total(r) >= 0
                <5>1. ctr.of[r] \in Int /\ InLegacy(r) \in 0 .. 1
                    BY <1>1, TotalInt
                <5> QED
                    BY <1>1, <5>1 DEF TotalsInv, Total
            <4>6. v /\ r \notin overtaken' /\ Calm(r)' /\ r \in marker => Total(r) >= 1
                BY <1>1, <1>4, <4>2, <4>3, <4>4 DEF DoneInv
            <4> QED
                BY <1>2, <1>6, <1>9, <1>11, <1>12, <3>1, <4>1, <4>4, <4>5, <4>6 DEF PurgeInv
        <3>2. CASE a # p
            <4>1. PurgeInv(a, r) /\ pc'[a] = pc[a] /\ Keeps(a)
                BY <1>7, <1>9, <3>2 DEF IInv
            <4>2. Purging(a, r)' => Purging(a, r) /\ erased[r] = "begun" /\ ~Calm(r)'
                BY <1>1, <1>2, <1>13, <4>1 DEF DataInv, Purging, Keeps, Calm, Erasing
            <4> QED
                BY <1>2, <1>3, <1>4, <1>11, <1>12, <4>1, <4>2 DEF PurgeInv, Keeps
        <3> QED
            BY <3>1, <3>2
    <2>5. ASSUME NEW a \in Actors, a # p, pc[a] \in ReadLabels PROVE Owed(a, r)'
        BY <1>7, <2>5 DEF Owed
    <2> QED
        BY <2>1, <2>2, <2>3, <2>4, <2>5 DEF RunKept, RunInv
<1> QED
    BY <1>1, <1>9, <1>10, <1>14, RunFrame

\* What holds where a purger is
LEMMA AtPurge ==
    ASSUME IInv, NEW p \in Actors, pc[p] \in PurgeLabels, NEW r \in Runs, loc[p].run = r
    PROVE  /\ p \in Purgers /\ PurgeInv(p, r) /\ erased[r] \in {"begun", "alone", "raced"} /\ (erased[r] = "begun" <=> data[r])
           /\ \A a \in Actors : pc[a] \in ReadLabels => r \notin loc[a].counted /\ r \notin loc[a].live
           /\ ((\E u \in Actors : Backfilling(u)) => r \in overtaken)
           /\ Purging(p, r) /\ \A a \in Actors : a # p /\ Purging(a, r) => ~Calm(r)
           /\ GhostInv(r) => erased[r] # "alone" \/ r \in overtaken \/ ~Calm(r)
<1>1. DataInv(r) /\ PurgeInv(p, r) /\ StoreTypes /\ p \in Purgers
    BY DEF IInv, Types
<1>2. erased[r] \in {"begun", "alone", "raced"} /\ (erased[r] = "begun" <=> data[r])
    BY <1>1 DEF DataInv, Purging, StoreTypes
<1>3. ASSUME NEW a \in Actors, pc[a] \in ReadLabels PROVE r \notin loc[a].counted /\ r \notin loc[a].live
    BY <1>2, <1>3 DEF IInv, SeenInv, Owed
<1>4. Purging(p, r) /\ \A a \in Actors : a # p /\ Purging(a, r) => ~Calm(r)
    BY <1>1 DEF DataInv, Purging, Calm
<1>5. GhostInv(r) => erased[r] # "alone" \/ r \in overtaken \/ ~Calm(r)
    BY <1>4 DEF GhostInv, Calm
<1>6. (\E u \in Actors : Backfilling(u)) => r \in overtaken
    BY AtRun
<1> QED
    BY <1>1, <1>2, <1>3, <1>4, <1>5, <1>6

\* A step of a purger that leaves the store as it is
LEMMA PurgerReads ==
    ASSUME IInv, NEW p \in Actors, pc[p] \in PurgeLabels, NEW r \in Runs, loc[p].run = r, NEW l \in PurgeLabels, NEW x \in Locals,
           UNCHANGED <<store, bounds, history>>, pc' = [pc EXCEPT ![p] = l], loc' = [loc EXCEPT ![p] = x],
           x.run = r, x.alone = loc[p].alone, l # "marker",
           x.alone /\ r \notin overtaken /\ erased[r] = "begun" =>
              /\ (l = "subtract" => x.cost = 1) /\ (l = "delete" => Total(r) <= 0)
              /\ Calm(r) /\ l \in {"counter", "purge-cost", "subtract"} => Total(r) >= 1
    PROVE  IInv'
<1>1. /\ Types /\ StoreTypes /\ TotalsInv /\ pc[p] \notin ReadLabels
      /\ DataInv(r) /\ BillInv(r) /\ GhostInv(r) /\ DoneInv(r)
    BY AtRun DEF IInv
<1>2. /\ p \in Purgers /\ PurgeInv(p, r) /\ erased[r] \in {"begun", "alone", "raced"} /\ (erased[r] = "begun" <=> data[r])
      /\ \A a \in Actors : pc[a] \in ReadLabels => r \notin loc[a].counted /\ r \notin loc[a].live
      /\ ((\E u \in Actors : Backfilling(u)) => r \in overtaken)
    BY AtPurge
<1>3. UNCHANGED <<data, outcome, marker, legacy, ctr, setting, execs, reads, crashes, erased, overtaken, repurged>> /\ StoreTypes'
    BY <1>1 DEF store, bounds, history, StoreTypes
<1>4. l \in Labels /\ l \notin WorkLabels /\ l \notin ReadLabels
    BY DEF Labels, WorkLabels, ReadLabels, PurgeLabels
<1>5. Types' /\ pc'[p] = l /\ loc'[p] = x /\ \A a \in Actors : a # p => pc'[a] = pc[a] /\ loc'[a] = loc[a]
    BY <1>1, <1>2, <1>3, <1>4, SoloTypes
<1>6. RunMoves(p, r)
    BY <1>1, <1>2, <1>3, <1>4, <1>5 DEF RunMoves, Keeps
<1>7. Total(r)' = Total(r)
    BY <1>3 DEF Total, InLegacy
<1>8. /\ \A a \in Actors : (On(a, r)' => On(a, r)) /\ (Heavy(a, r)' => Heavy(a, r)) /\ (Purging(a, r)' <=> Purging(a, r))
      /\ Calm(r)' <=> Calm(r)
    BY <1>3, <1>4, <1>5 DEF On, Heavy, Purging, Calm, WorkLabels, PurgeLabels
<1>9. RunKept(p, r)
    <2>1. DataInv(r)'
        BY <1>1, <1>2, <1>3, <1>5, <1>8 DEF DataInv
    <2>2. BillInv(r)'
        BY <1>1, <1>3, <1>7, <1>8 DEF BillInv
    <2>3. GhostInv(r)' /\ DoneInv(r)'
        BY <1>1, <1>2, <1>3, <1>7, <1>8 DEF GhostInv, DoneInv
    <2>4. ASSUME NEW a \in Actors PROVE PurgeInv(a, r)'
        <3>1. PurgeInv(a, r)
            BY DEF IInv
        <3>2. CASE a = p
            BY <1>2, <1>3, <1>5, <1>7, <1>8, <3>1, <3>2 DEF PurgeInv
        <3>3. CASE a # p
            BY <1>3, <1>5, <1>7, <1>8, <3>1, <3>3 DEF PurgeInv
        <3> QED
            BY <3>2, <3>3
    <2>5. ASSUME NEW a \in Actors, a # p, pc[a] \in ReadLabels PROVE Owed(a, r)'
        BY <1>2, <1>5, <2>5 DEF Owed
    <2> QED
        BY <2>1, <2>2, <2>3, <2>4, <2>5 DEF RunKept, RunInv
<1> QED
    BY <1>1, <1>5, <1>6, <1>9, RunFrame

\* A run without a marker has nothing in the totals.
LEMMA GetMarkerStep == ASSUME IInv, NEW p \in Purgers, GetMarker(p) PROVE IInv'
<1>1. p \in Actors /\ pc[p] = "marker" /\ pc[p] \in PurgeLabels
    BY DEF Actors, GetMarker, PurgeLabels
<1>2. PICK r \in Runs : loc[p].run = r
    BY <1>1, AtRun
<1> DEFINE l == IF r \in marker THEN "counter" ELSE "delete"
<1>3. /\ UNCHANGED <<store, bounds, history>> /\ pc' = [pc EXCEPT ![p] = l] /\ loc' = [loc EXCEPT ![p] = loc[p]]
      /\ loc[p] \in Locals
    BY <1>1, <1>2 DEF GetMarker, Go, IInv, Types
<1>4. l \in PurgeLabels /\ l # "subtract" /\ l # "marker" /\ (l = "delete" => r \notin marker) /\ (l = "counter" <=> r \in marker)
      /\ l # "purge-cost"
    BY DEF PurgeLabels
<1> HIDE DEF l
<1>5. l = "delete" /\ erased[r] = "begun" /\ r \notin overtaken => Total(r) <= 0
    BY <1>4 DEF IInv, BillInv, DataInv
<1>6. loc[p].alone /\ r \notin overtaken /\ erased[r] = "begun" /\ Calm(r) /\ l = "counter" => Total(r) >= 1
    BY <1>1, <1>2, <1>4 DEF IInv, PurgeInv, Purging
<1> QED
    BY <1>1, <1>2, <1>3, <1>4, <1>5, <1>6, PurgerReads

\* Where there is no counter and no document, nothing is billed.
LEMMA GetUsageStep == ASSUME IInv, NEW p \in Purgers, GetUsage(p) PROVE IInv'
<1>1. p \in Actors /\ pc[p] = "counter" /\ pc[p] \in PurgeLabels
    BY DEF Actors, GetUsage, PurgeLabels
<1>2. PICK r \in Runs : loc[p].run = r
    BY <1>1, AtRun
<1> DEFINE l == IF Exists THEN "purge-cost" ELSE "delete"
<1>3. /\ UNCHANGED <<store, bounds, history>> /\ pc' = [pc EXCEPT ![p] = l] /\ loc' = [loc EXCEPT ![p] = loc[p]]
      /\ loc[p] \in Locals
    BY <1>1, <1>2 DEF GetUsage, Go, IInv, Types
<1>4. l \in PurgeLabels /\ l # "subtract" /\ l # "marker" /\ l # "counter" /\ (l = "delete" => ~Exists)
    BY DEF PurgeLabels
<1> HIDE DEF l
<1>5. l = "delete" => Total(r) <= 0
    BY <1>4 DEF IInv, TotalsInv, Exists, Total, InLegacy
<1>6. loc[p].alone /\ r \notin overtaken /\ erased[r] = "begun" /\ Calm(r) => Total(r) >= 1
    BY <1>1, <1>2 DEF IInv, PurgeInv, Purging
<1> QED
    BY <1>1, <1>2, <1>3, <1>4, <1>5, <1>6, PurgerReads

\* A run whose erasure has only begun has its cost still.
LEMMA PurgeCostStep == ASSUME IInv, NEW p \in Purgers, PurgeCost(p) PROVE IInv'
<1>1. p \in Actors /\ pc[p] = "purge-cost" /\ pc[p] \in PurgeLabels
    BY DEF Actors, PurgeCost, PurgeLabels
<1>2. PICK r \in Runs : loc[p].run = r
    BY <1>1, AtRun
<1> DEFINE x == [loc[p] EXCEPT !.cost = Cost(r)]
<1>3. /\ UNCHANGED <<store, bounds, history>> /\ pc' = [pc EXCEPT ![p] = "subtract"] /\ loc' = [loc EXCEPT ![p] = x]
      /\ loc[p] \in Locals
    BY <1>1, <1>2 DEF PurgeCost, Go, IInv, Types
<1>4. Cost(r) \in 0 .. 1 /\ (data[r] => Cost(r) = 1)
    BY DEF Cost
<1>5. x \in Locals /\ x.run = r /\ x.cost = Cost(r) /\ x.alone = loc[p].alone
    BY <1>2, <1>3, <1>4 DEF Locals
<1> HIDE DEF x
<1>6. erased[r] = "begun" => x.cost = 1
    BY <1>4, <1>5 DEF IInv, DataInv
<1>7. "subtract" \in PurgeLabels
    BY DEF PurgeLabels
<1>8. loc[p].alone /\ r \notin overtaken /\ erased[r] = "begun" /\ Calm(r) => Total(r) >= 1
    BY <1>1, <1>2 DEF IInv, PurgeInv, Purging
<1> QED
    BY <1>1, <1>2, <1>3, <1>5, <1>6, <1>7, <1>8, PurgerReads

\* The purge takes the cost out of the counter.
LEMMA SubtractStep == ASSUME IInv, NEW p \in Purgers, Subtract(p) PROVE IInv'
<1>1. p \in Actors /\ pc[p] = "subtract" /\ pc[p] \in PurgeLabels
    BY DEF Actors, Subtract, PurgeLabels
<1>2. PICK r \in Runs : loc[p].run = r
    BY <1>1, AtRun
<1>3. /\ Types /\ StoreTypes /\ TotalsInv /\ loc[p] \in Locals /\ pc[p] \notin ReadLabels
      /\ DataInv(r) /\ BillInv(r) /\ GhostInv(r) /\ DoneInv(r)
    BY <1>1, <1>2, AtRun DEF IInv
<1>4. /\ p \in Purgers /\ PurgeInv(p, r) /\ erased[r] \in {"begun", "alone", "raced"} /\ (erased[r] = "begun" <=> data[r])
      /\ \A a \in Actors : pc[a] \in ReadLabels => r \notin loc[a].counted /\ r \notin loc[a].live
      /\ ((\E u \in Actors : Backfilling(u)) => r \in overtaken) /\ (erased[r] = "alone" => r \in overtaken \/ ~Calm(r))
      /\ Purging(p, r) /\ \A a \in Actors : a # p /\ Purging(a, r) => ~Calm(r)
    BY <1>1, <1>2, <1>3, AtPurge
<1>5. PICK d \in 0 .. 1 : loc[p].cost = d
    BY <1>3 DEF Locals
<1>6. /\ UNCHANGED <<data, outcome, marker, legacy, loc, setting, execs, reads, crashes, erased, overtaken, repurged>>
      /\ ctr' = [some |-> TRUE, of |-> [ctr.of EXCEPT ![r] = @ - d]]
    BY <1>2, <1>5 DEF Subtract, bounds, history
<1>7. ctr' = [some |-> TRUE, of |-> [ctr.of EXCEPT ![r] = @ + (0 - d)]] /\ 0 - d \in Int
    <2>1. ctr.of[r] \in Int
        BY <1>3, TotalInt
    <2>2. ctr.of[r] - d = ctr.of[r] + (0 - d)
        BY <2>1
    <2>3. [ctr.of EXCEPT ![r] = @ - d] = [ctr.of EXCEPT ![r] = @ + (0 - d)]
        BY <2>2, Zenon
    <2>4. ctr' = [some |-> TRUE, of |-> [ctr.of EXCEPT ![r] = @ + (0 - d)]]
        BY <1>6, <2>3, Zenon
    <2>5. 0 - d \in Int
        OBVIOUS
    <2> QED
        BY <2>4, <2>5
<1>8. /\ ctr' \in [some : BOOLEAN, of : [Runs -> Int]] /\ ctr'.some
      /\ \A q \in Runs : q # r => ctr'.of[q] = ctr.of[q]
      /\ Total(r)' = Total(r) + (0 - d) /\ Total(r) \in Int
    BY <1>3, <1>6, <1>7, CounterChange
<1>9. Total(r)' <= Total(r) /\ Total(r)' \in Int /\ (d = 1 => Total(r)' = Total(r) - 1)
    BY <1>8
<1>10. StoreTypes' /\ Types /\ loc[p] \in Locals /\ loc[p].run \in Runs /\ loc' = [loc EXCEPT ![p] = loc[p]]
       /\ pc' = [pc EXCEPT ![p] = "delete"]
    BY <1>2, <1>3, <1>6, <1>8 DEF StoreTypes, Types, Subtract, Go
<1>11. "delete" \in Labels /\ "delete" \notin WorkLabels /\ "delete" \notin ReadLabels /\ "delete" \in PurgeLabels
    BY DEF Labels, WorkLabels, ReadLabels, PurgeLabels
<1>12. Types' /\ pc'[p] = "delete" /\ loc' = loc /\ \A a \in Actors : a # p => pc'[a] = pc[a]
    <2>1. Types' /\ pc'[p] = "delete" /\ \A a \in Actors : a # p => pc'[a] = pc[a]
        BY <1>1, <1>10, <1>11, SoloTypes
    <2> QED
        BY <1>6, <2>1
<1>13. RunMoves(p, r)
    BY <1>2, <1>3, <1>4, <1>6, <1>8, <1>11, <1>12 DEF RunMoves, Keeps
<1>14. /\ \A a \in Actors : (On(a, r)' => On(a, r)) /\ (Heavy(a, r)' => Heavy(a, r)) /\ (Purging(a, r)' <=> Purging(a, r))
       /\ Calm(r)' <=> Calm(r)
    BY <1>1, <1>6, <1>11, <1>12 DEF On, Heavy, Purging, Calm, WorkLabels
<1>15. RunKept(p, r)
    <2>1. DataInv(r)'
        BY <1>3, <1>4, <1>6, <1>14 DEF DataInv
    <2>2. BillInv(r)'
        BY <1>3, <1>6, <1>8, <1>9, <1>14 DEF BillInv
    <2>3. GhostInv(r)' /\ DoneInv(r)'
        BY <1>3, <1>4, <1>6, <1>8, <1>9, <1>14 DEF GhostInv, DoneInv
    <2>4. ASSUME NEW a \in Actors PROVE PurgeInv(a, r)'
        <3>1. PurgeInv(a, r)
            BY DEF IInv
        <3>2. loc[p].alone /\ erased[r] = "begun" /\ r \notin overtaken => Total(r)' <= 0 /\ (Calm(r) => Total(r)' >= 0)
            <4> SUFFICES ASSUME loc[p].alone, erased[r] = "begun", r \notin overtaken PROVE Total(r)' <= 0 /\ (Calm(r) => Total(r)' >= 0)
                OBVIOUS
            <4>1. d = 1 /\ (Calm(r) => Total(r) >= 1)
                BY <1>1, <1>2, <1>4, <1>5 DEF PurgeInv
            <4>2. Total(r) <= 1
                BY <1>3 DEF BillInv
            <4> QED
                BY <1>8, <1>9, <4>1, <4>2
        <3>3. CASE a = p
            BY <1>1, <1>2, <1>4, <1>6, <1>12, <1>14, <3>1, <3>2, <3>3 DEF PurgeInv
        <3>4. CASE a # p
            BY <1>4, <1>6, <1>8, <1>9, <1>12, <1>14, <3>1, <3>4 DEF PurgeInv
        <3> QED
            BY <3>3, <3>4
    <2>5. ASSUME NEW a \in Actors, a # p, pc[a] \in ReadLabels PROVE Owed(a, r)'
        BY <1>4, <1>6, <2>5 DEF Owed
    <2> QED
        BY <2>1, <2>2, <2>3, <2>4, <2>5 DEF RunKept, RunInv
<1> QED
    BY <1>1, <1>3, <1>12, <1>13, <1>15, RunFrame

\* The run goes; nothing of it is billed if no worker was there.
LEMMA DeleteStep == ASSUME IInv, NEW p \in Purgers, Delete(p) PROVE IInv'
<1>1. p \in Actors /\ pc[p] = "delete" /\ pc[p] \in PurgeLabels
    BY DEF Actors, Delete, PurgeLabels
<1>2. PICK r \in Runs : loc[p].run = r
    BY <1>1, AtRun
<1>3. /\ Types /\ StoreTypes /\ TotalsInv /\ loc[p] \in Locals /\ pc[p] \notin ReadLabels
      /\ DataInv(r) /\ BillInv(r) /\ GhostInv(r) /\ DoneInv(r)
    BY <1>1, <1>2, AtRun DEF IInv
<1>4. /\ p \in Purgers /\ PurgeInv(p, r) /\ erased[r] \in {"begun", "alone", "raced"} /\ (erased[r] = "begun" <=> data[r])
      /\ \A a \in Actors : pc[a] \in ReadLabels => r \notin loc[a].counted /\ r \notin loc[a].live
      /\ ((\E u \in Actors : Backfilling(u)) => r \in overtaken) /\ (erased[r] = "alone" => r \in overtaken \/ ~Calm(r))
      /\ Purging(p, r) /\ \A a \in Actors : a # p /\ Purging(a, r) => ~Calm(r)
    BY <1>1, <1>2, <1>3, AtPurge
<1>5. /\ data' = [data EXCEPT ![r] = FALSE] /\ outcome' = [outcome EXCEPT ![r] = "none"] /\ marker' = marker \ {r}
      /\ erased' = [erased EXCEPT ![r] = IF loc[p].alone /\ @ # "raced" THEN "alone" ELSE "raced"]
      /\ UNCHANGED <<legacy, ctr, setting, execs, reads, crashes, overtaken, repurged>>
      /\ pc' = [pc EXCEPT ![p] = "idle"] /\ loc' = [loc EXCEPT ![p] = NoLocals]
    BY <1>2 DEF Delete, bounds, Return, Go
<1>6. /\ StoreTypes' /\ ~data'[r] /\ erased'[r] \in {"alone", "raced"}
      /\ (erased'[r] = "alone" => loc[p].alone /\ erased[r] # "raced")
      /\ \A q \in Runs : q # r => data'[q] = data[q] /\ outcome'[q] = outcome[q] /\ erased'[q] = erased[q] /\ (q \in marker' <=> q \in marker)
    BY <1>3, <1>5 DEF StoreTypes
<1>7. "idle" \in Labels /\ "idle" \notin WorkLabels /\ "idle" \notin ReadLabels /\ "idle" \notin PurgeLabels
    BY DEF Labels, WorkLabels, ReadLabels, PurgeLabels
<1>8. Types' /\ pc'[p] = "idle" /\ \A a \in Actors : a # p => pc'[a] = pc[a] /\ loc'[a] = loc[a]
    <2>1. pc' = [pc EXCEPT ![p] = "idle"] /\ loc' = [loc EXCEPT ![p] = NoLocals] /\ StoreTypes' /\ Types /\ NoLocals \in Locals
        BY <1>3, <1>5, <1>6, EmptyLocals
    <2> QED
        BY <1>1, <1>7, <2>1, SoloTypes
<1>9. RunMoves(p, r)
    BY <1>1, <1>2, <1>3, <1>4, <1>5, <1>6, <1>7, <1>8 DEF RunMoves, Keeps
<1>10. Total(r)' = Total(r)
    BY <1>5 DEF Total, InLegacy
<1>11. /\ \A a \in Actors : (On(a, r)' => On(a, r)) /\ (Heavy(a, r)' => Heavy(a, r)) /\ (Purging(a, r)' <=> a # p /\ Purging(a, r))
       /\ Calm(r)' <=> Calm(r)
    BY <1>5, <1>6, <1>7, <1>8 DEF On, Heavy, Purging, Calm
<1>12. RunKept(p, r)
    <2>1. DataInv(r)'
        BY <1>3, <1>5, <1>6, <1>11 DEF DataInv
    <2>2. BillInv(r)'
        BY <1>3, <1>5, <1>6, <1>10, <1>11 DEF BillInv
    <2>3. GhostInv(r)' /\ DoneInv(r)'
        <3>1. erased'[r] = "alone" /\ r \notin overtaken =>
                  Total(r) <= 0 /\ (Calm(r) => Total(r) >= 0) /\ \A a \in Actors : ~On(a, r)
            BY <1>1, <1>2, <1>3, <1>4, <1>6 DEF PurgeInv, GhostInv
        <3>2. r \notin repurged => \A a \in Actors : ~Purging(a, r)'
            BY <1>1, <1>3, <1>4, <1>11 DEF DataInv
        <3> QED
            BY <1>5, <1>6, <1>10, <1>11, <3>1, <3>2 DEF GhostInv, DoneInv
    <2>4. ASSUME NEW a \in Actors PROVE PurgeInv(a, r)'
        <3>1. PurgeInv(a, r)
            BY DEF IInv
        <3> QED
            BY <1>5, <1>6, <1>8, <1>11, <3>1 DEF PurgeInv
    <2>5. ASSUME NEW a \in Actors, a # p, pc[a] \in ReadLabels PROVE Owed(a, r)'
        BY <1>4, <1>8, <2>5 DEF Owed
    <2> QED
        BY <2>1, <2>2, <2>3, <2>4, <2>5 DEF RunKept, RunInv
<1> QED
    BY <1>1, <1>3, <1>8, <1>9, <1>12, RunFrame

\* Who dies forgets what it held.
LEMMA CrashStep == ASSUME IInv, NEW b \in Actors, Crash(b) PROVE IInv'
<1>1. /\ Types /\ StoreTypes /\ TotalsInv /\ crashes' = crashes + 1 /\ pc' = [pc EXCEPT ![b] = "idle"] /\ loc' = [loc EXCEPT ![b] = NoLocals]
      /\ UNCHANGED <<data, outcome, marker, legacy, ctr, setting, execs, reads, erased, overtaken, repurged>>
    BY DEF IInv, Types, Crash, Return, Go, store, history
<1>2. StoreTypes' /\ crashes' # 0 /\ \A r \in Runs : ~Calm(r)'
    BY <1>1 DEF StoreTypes, Calm
<1>3. "idle" \in Labels /\ "idle" \notin WorkLabels /\ "idle" \notin ReadLabels /\ "idle" \notin PurgeLabels
    BY DEF Labels, WorkLabels, ReadLabels, PurgeLabels
<1>4. Types' /\ pc'[b] = "idle" /\ \A a \in Actors : a # b => pc'[a] = pc[a] /\ loc'[a] = loc[a]
    <2>1. pc' = [pc EXCEPT ![b] = "idle"] /\ loc' = [loc EXCEPT ![b] = NoLocals] /\ StoreTypes' /\ Types /\ NoLocals \in Locals
        BY <1>1, <1>2, EmptyLocals
    <2> QED
        BY <1>3, <2>1, SoloTypes
<1>5. TotalsInv'
    BY <1>1 DEF TotalsInv
<1>6. ASSUME NEW r \in Runs
      PROVE  DataInv(r)' /\ BillInv(r)' /\ GhostInv(r)' /\ DoneInv(r)' /\ \A a \in Actors : PurgeInv(a, r)'
    <2>1. DataInv(r) /\ BillInv(r) /\ GhostInv(r) /\ DoneInv(r) /\ \A a \in Actors : PurgeInv(a, r)
        BY DEF IInv
    <2>2. Total(r)' = Total(r)
        BY <1>1 DEF Total, InLegacy
    <2>3. \A a \in Actors : (On(a, r)' => On(a, r)) /\ (Heavy(a, r)' => Heavy(a, r)) /\ (Purging(a, r)' => Purging(a, r))
        BY <1>1, <1>3, <1>4 DEF On, Heavy, Purging
    <2>4. DataInv(r)'
        BY <1>1, <1>3, <1>4, <2>1, <2>2, <2>3 DEF DataInv
    <2>5. BillInv(r)'
        BY <1>1, <2>1, <2>2, <2>3 DEF BillInv
    <2>6. GhostInv(r)'
        BY <1>1, <1>2, <2>1, <2>2, <2>3 DEF GhostInv
    <2>7. DoneInv(r)'
        BY <1>1, <1>2, <1>4, <2>1, <2>3 DEF DoneInv
    <2>8. ASSUME NEW a \in Actors PROVE PurgeInv(a, r)'
        <3>1. PurgeInv(a, r) /\ (a = b => ~Purging(a, r)') /\ (a # b => pc'[a] = pc[a] /\ loc'[a] = loc[a])
            BY <1>3, <1>4, <2>1 DEF Purging
        <3> QED
            BY <1>1, <1>2, <2>2, <2>3, <3>1 DEF PurgeInv
    <2> QED
        BY <2>4, <2>5, <2>6, <2>7, <2>8
<1>7. ASSUME NEW a \in Actors PROVE SeenInv(a)' /\ ScanInv(a)'
    <2>1. CASE a = b
        BY <1>4, <2>1 DEF SeenInv, ScanInv, ReadLabels, Backfilling, Late
    <2>2. CASE a # b
        <3>1. pc'[a] = pc[a] /\ loc'[a] = loc[a] /\ SeenInv(a) /\ ScanInv(a)
            BY <1>4, <2>2 DEF IInv
        <3>2. SeenInv(a)'
            BY <1>1, <3>1 DEF SeenInv, Owed
        <3>3. /\ \A c \in Actors : pc'[c] \in WorkLabels \cup PurgeLabels => pc'[c] = pc[c] /\ loc'[c] = loc[c]
              /\ (Late(a)' <=> Late(a)) /\ (Backfilling(a)' <=> Backfilling(a))
            BY <1>3, <1>4, <3>1 DEF Late, Backfilling
        <3>4. ASSUME Late(a), NEW r \in Runs PROVE Held(a, r)'
            <4>1. Held(a, r)
                BY <3>1, <3>4 DEF ScanInv
            <4> QED
                BY <1>1, <3>1, <4>1 DEF Held
        <3>5. ScanInv(a)'
            BY <1>1, <3>1, <3>3, <3>4 DEF ScanInv
        <3> QED
            BY <3>2, <3>5
    <2> QED
        BY <2>1, <2>2
<1> QED
    BY <1>4, <1>5, <1>6, <1>7 DEF IInv

\* Every step keeps the invariant.
LEMMA Keep == ASSUME IInv, Next PROVE IInv'
<1>1. CASE \E w \in Workers : Record(w) \/ \E r \in Runs : Execute(w, r)
    BY <1>1, ClaimMarkerStep, ReadCostStep, AddUsageStep, SucceedStep, ExecuteStep DEF Record
<1>2. CASE \E u \in Readers : GetLegacy(u) \/ GetOrgUsage(u)
    BY <1>2, GetLegacyStep, GetCountersStep, ListLiveStep, ListAllStep, AddCostStep, MarkStep, PutLegacyStep, ReturnedStep DEF GetOrgUsage
<1>3. CASE \E p \in Purgers : PurgeRun(p) \/ \E r \in Runs : Purge(p, r)
    BY <1>3, GetMarkerStep, GetUsageStep, PurgeCostStep, SubtractStep, DeleteStep, PurgeStep DEF PurgeRun
<1>4. CASE \E a \in Actors : Crash(a)
    BY <1>4, CrashStep
<1> QED
    BY <1>1, <1>2, <1>3, <1>4 DEF Next

\* So does a step that changes nothing.
LEMMA Stutters == ASSUME IInv, UNCHANGED vars PROVE IInv'
<1>1. UNCHANGED <<data, outcome, marker, legacy, ctr, setting, execs, reads, crashes, erased, overtaken, repurged, pc, loc>>
    BY DEF vars, store, bounds, history
<1>2. StoreTypes' <=> StoreTypes
    BY <1>1 DEF StoreTypes
<1>3. Types' <=> Types
    BY <1>1, <1>2 DEF Types
<1>4. TotalsInv' <=> TotalsInv
    BY <1>1 DEF TotalsInv
<1>5. ASSUME NEW r \in Runs
      PROVE  (DataInv(r)' <=> DataInv(r)) /\ (BillInv(r)' <=> BillInv(r)) /\ (GhostInv(r)' <=> GhostInv(r)) /\ (DoneInv(r)' <=> DoneInv(r))
             /\ \A a \in Actors : PurgeInv(a, r)' <=> PurgeInv(a, r)
    <2>1. /\ Total(r)' = Total(r) /\ (Counting(r)' <=> Counting(r)) /\ (Calm(r)' <=> Calm(r))
          /\ \A a \in Actors : (On(a, r)' <=> On(a, r)) /\ (Heavy(a, r)' <=> Heavy(a, r)) /\ (Purging(a, r)' <=> Purging(a, r))
        BY <1>1 DEF Total, InLegacy, Counting, On, Heavy, Purging, Calm
    <2> QED
        BY <1>1, <2>1 DEF DataInv, BillInv, GhostInv, DoneInv, PurgeInv
<1>6. ASSUME NEW a \in Actors PROVE (SeenInv(a)' <=> SeenInv(a)) /\ (ScanInv(a)' <=> ScanInv(a))
    BY <1>1 DEF SeenInv, Owed, ScanInv, Held, Late, Backfilling
<1> QED
    BY <1>3, <1>4, <1>5, <1>6 DEF IInv

\* The inductive invariant holds in every reachable state.
LEMMA Invariance == Spec => []IInv
<1>1. Init => IInv
    BY Begin
<1>2. IInv /\ [Next]_vars => IInv'
    BY Keep, Stutters
<1> QED
    BY <1>1, <1>2, PTL DEF Spec

\* recordRunUsage, getOrgUsage's backfill and uncountUsage count a run exactly once,
\* however workers, readers, purges and crashes interleave, unless it is executed or
\* purged while a reader backfills the first counter: the marker is claimed before the
\* counter is changed, and the purge subtracts before it deletes.
THEOREM CountedHolds == Spec => []CountedExactly
<1>1. ASSUME IInv PROVE CountedExactly
    <2>1. Types /\ StoreTypes /\ TotalsInv /\ setting \in Settings
        BY <1>1 DEF IInv, Types, StoreTypes
    <2>2. TypeOK
        <3>1. \A a \in Actors : loc[a].todo \subseteq Runs /\ loc[a].done \subseteq Runs /\ loc[a].cost \in 0 .. 1
            BY <2>1 DEF Types, Locals
        <3> QED
            BY <2>1, <3>1 DEF TypeOK, StoreTypes
    <2>3. CountedOnce
        BY <1>1 DEF CountedOnce, IInv, BillInv
    <2>4. NoGhost
        <3> SUFFICES ASSUME NEW r \in Runs, r \notin overtaken, erased[r] = "alone"
                     PROVE  Total(r) <= 0 /\ (crashes = 0 /\ r \notin repurged => Total(r) = 0)
            BY DEF NoGhost
        <3>1. GhostInv(r) /\ Total(r) \in Int
            BY <1>1, <2>1, TotalInt DEF IInv
        <3> QED
            BY <3>1 DEF GhostInv, Calm
    <2>5. CompletedIsCounted
        <3> SUFFICES ASSUME NEW r \in Runs, r \notin overtaken, outcome[r] = "completed", crashes = 0, erased[r] = "no",
                            \A w \in Workers : loc[w].run # r
                     PROVE  Total(r) >= 1
            BY DEF CompletedIsCounted, Erasing
        <3>1. DoneInv(r) /\ ~Counting(r)
            BY <1>1 DEF IInv, Types, Counting, WorkLabels
        <3> QED
            BY <3>1 DEF DoneInv
    <2>6. BackfillWhole
        <3> SUFFICES ASSUME legacy.some, NEW r \in setting.old, outcome[r] = "none", erased[r] = "no" PROVE Total(r) = 1
            BY DEF BackfillWhole, Erasing
        <3>1. r \in Runs
            BY <2>1, SettingFacts
        <3>2. ctr.of[r] = 0 /\ r \in legacy.of
            BY <1>1, <3>1 DEF IInv, DoneInv
        <3> QED
            BY <3>2 DEF Total, InLegacy
    <2> QED
        BY <2>2, <2>3, <2>4, <2>5, <2>6 DEF CountedExactly
<1> QED
    BY <1>1, Invariance, PTL

\* checkBudget sees the cost of every run that was counted when it began to read, and of
\* every run that was live until it returned, whatever workers and purges do meanwhile.
THEOREM GateHolds == Spec => []GateSeesSpending
<1>1. ASSUME IInv PROVE GateSeesSpending
    <2> SUFFICES ASSUME NEW u \in Readers, pc[u] = "return", NEW r \in loc[u].counted \union loc[u].live PROVE loc[u].seen[r] >= 1
        BY DEF GateSeesSpending
    <2>1. u \in Actors /\ loc[u] \in Locals
        BY <1>1 DEF Actors, IInv, Types
    <2>2. r \in Runs /\ Owed(u, r)
        BY <1>1, <2>1 DEF IInv, SeenInv, Locals, ReadLabels
    <2> QED
        BY <2>2 DEF Owed
<1> QED
    BY <1>1, Invariance, PTL
=============================================================================
