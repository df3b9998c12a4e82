----------------------------- MODULE QueueWorker -----------------------------
(***************************************************************************)
(* The durable job queue (packages/queue/src/index.ts): an append-only job *)
(* log, the markers qdone/qfail/qatt/qown, the persisted scan cursor, and  *)
(* workers that poll it.  The lease on a job is the run lock of module     *)
(* RunLock, taken as its interface promises: a grant takes a free or       *)
(* expired lease with the next token; renew and release act only on one's  *)
(* own token.                                                              *)
(***************************************************************************)
EXTENDS Naturals, FiniteSets, Sequences

CONSTANTS Workers,
          Settings,     \* the queues: options, environment and bounds of a behaviour
          MaxJobs,      \* bound: jobs ever enqueued, in any of them
          MaxToken      \* bound: grants of one lease

\* pageSize: of WorkStore.list; throws: a handler may throw, or be missing; skew:
\* producers' clocks differ, and an append may sort anywhere; erases: jobEraser is
\* used; workers: those that poll; bounds: jobs ever enqueued, faults.
ASSUME QueueWorkerAssumption ==
    /\ IsFiniteSet(Workers) /\ MaxJobs \in Nat /\ MaxToken \in Nat
    /\ Settings \subseteq [pageSize : Nat \ {0}, maxAttempts : Nat \ {0}, throws : BOOLEAN, skew : BOOLEAN,
                          erases : BOOLEAN, workers : SUBSET Workers, jobs : 0 .. MaxJobs, faults : Nat]

VARIABLES setting,   \* the element of Settings this behaviour is about
          count,     \* ids handed out: 1 .. count
          log,       \* the qjob records, in list order (ts, then id)
          erasing,   \* the job whose records are gone and whose markers go next
          done, dead,  \* the jobs with a qdone, a qfail marker
          att,       \* qatt
          own,       \* qown: the token of the last claim
          cursor,    \* qcursor: the offset up to which pages are passed for good
          lease,     \* the run lock of a job
          pc, loc,   \* a worker's place in runOnce and its local variables
          faults,    \* crashes, stalls and lost renewals so far
          stalled    \* whether a live worker has outlasted its lease

store == <<setting, count, log, done, dead, att, own, cursor>>
vars == <<store, erasing, lease, pc, loc, faults, stalled>>
-----------------------------------------------------------------------------
Jobs == 1 .. MaxJobs

Listed(j) == \E i \in DOMAIN log : log[i] = j

\* the job at hand
Job(w) == Head(loc[w].page)

Terminal(j) == j \in done \cup dead

\* the local cursor, the jobs of the page still to look at, the offset of the
\* next page if there is one, allTerminal, the lock's token, lockLost, the
\* attempt being counted, how the handler ended
NoLocals == [from |-> 0, page |-> <<>>, next |-> 0, more |-> FALSE, all |-> TRUE,
             tok |-> 0, lost |-> FALSE, n |-> 0, outcome |-> "none"]

Init ==
    /\ setting \in Settings
    /\ count = 0 /\ cursor = 0 /\ faults = 0 /\ erasing = 0 /\ stalled = FALSE
    /\ log = <<>>
    /\ done = {} /\ dead = {}
    /\ att = [j \in Jobs |-> 0]
    /\ own = [j \in Jobs |-> 0]
    /\ lease = [j \in Jobs |-> [tok |-> 0, live |-> FALSE]]
    /\ pc = [w \in Workers |-> "idle"]
    /\ loc = [w \in Workers |-> NoLocals]

Go(w, label) == pc' = [pc EXCEPT ![w] = label]

\* runOnce returns
Return(w) == Go(w, "idle") /\ loc' = [loc EXCEPT ![w] = NoLocals]
-----------------------------------------------------------------------------
(* The producer *)

\* The list with the new job at position i: the end, unless clocks differ.
InsertAt(s, i, j) == SubSeq(s, 1, i - 1) \o <<j>> \o SubSeq(s, i, Len(s))

\* enqueue: an append under a new id (a repeated id is no second job)
Enqueue ==
    /\ count < setting.jobs
    /\ count' = count + 1
    /\ \E i \in 1 .. Len(log) + 1 :
          /\ setting.skew \/ i = Len(log) + 1
          /\ log' = InsertAt(log, i, count')
    /\ UNCHANGED <<setting, done, dead, att, own, cursor, erasing, lease, pc, loc, faults, stalled>>

\* retryJob: a copy of a dead letter, which keeps its markers
RetryJob(j) == Listed(j) /\ j \in dead /\ Enqueue

RemoveAt(s, i) == SubSeq(s, 1, i - 1) \o SubSeq(s, i + 1, Len(s))

\* jobEraser: a person's job records are deleted ...
Erase(j) ==
    /\ setting.erases /\ erasing = 0
    /\ \E i \in DOMAIN log : log[i] = j /\ log' = RemoveAt(log, i)
    /\ erasing' = j
    /\ UNCHANGED <<setting, count, done, dead, att, own, cursor, lease, pc, loc, faults, stalled>>

\* ... then the markers and the lease, whose tokens are never used again.
EraseMarkers ==
    /\ erasing # 0
    /\ done' = done \ {erasing} /\ dead' = dead \ {erasing}
    /\ att' = [att EXCEPT ![erasing] = 0]
    /\ own' = [own EXCEPT ![erasing] = 0]
    /\ lease' = [lease EXCEPT ![erasing] = [tok |-> @.tok + 1, live |-> FALSE]]
    /\ erasing' = 0
    /\ UNCHANGED <<setting, count, log, cursor, pc, loc, faults, stalled>>
-----------------------------------------------------------------------------
(* The scan *)

\* runOnce reads the persisted cursor.
Poll(w) ==
    /\ pc[w] = "idle" /\ w \in setting.workers
    /\ loc' = [loc EXCEPT ![w].from = cursor]
    /\ Go(w, "list")
    /\ UNCHANGED <<store, erasing, lease, faults, stalled>>

\* work.list('qjob', {cursor}): a page from the local cursor, which is an offset
List(w) ==
    LET from == loc[w].from
        next == from + setting.pageSize IN
    /\ pc[w] = "list"
    /\ loc' = [loc EXCEPT ![w] = [NoLocals EXCEPT
                  !.page = SubSeq(log, from + 1, IF next < Len(log) THEN next ELSE Len(log)),
                  !.next = next, !.more = next < Len(log)]]
    /\ Go(w, "scan")
    /\ UNCHANGED <<store, erasing, lease, faults, stalled>>

\* the next job of the page
Skip(w) == loc' = [loc EXCEPT ![w].page = Tail(@)]

\* qdone and qfail: a terminal job is skipped, any other one wanted
Check(w) ==
    /\ pc[w] = "scan" /\ loc[w].page # <<>>
    /\ \/ Terminal(Job(w)) /\ Skip(w) /\ UNCHANGED pc
       \/ ~Terminal(Job(w)) /\ loc' = [loc EXCEPT ![w].all = FALSE] /\ Go(w, "acquire")
    /\ UNCHANGED <<store, erasing, lease, faults, stalled>>

\* mutant: the cursor is persisted one page ahead of the page that was judged
PageEndAhead(w) ==
    /\ pc[w] = "scan" /\ loc[w].page = <<>>
    /\ IF loc[w].more
       THEN /\ cursor' = IF loc[w].all THEN loc[w].next + setting.pageSize ELSE cursor
            /\ loc' = [loc EXCEPT ![w].from = loc[w].next]
            /\ Go(w, "list")
       ELSE Return(w) /\ UNCHANGED cursor
    /\ UNCHANGED <<setting, count, log, done, dead, att, own, erasing, lease, faults, stalled>>

\* The end of a page: the cursor passes it for good only if all of it is terminal.
PageEnd(w) ==
    /\ pc[w] = "scan" /\ loc[w].page = <<>>
    /\ \/ ~loc[w].more /\ Return(w) /\ UNCHANGED cursor
       \/ /\ loc[w].more
          /\ cursor' = IF loc[w].all THEN loc[w].next ELSE cursor
          /\ loc' = [loc EXCEPT ![w].from = loc[w].next]
          /\ Go(w, "list")
    /\ UNCHANGED <<setting, count, log, done, dead, att, own, erasing, lease, faults, stalled>>
-----------------------------------------------------------------------------
(* One job *)

\* mutant: a live lease is taken
AcquireLive(w) ==
    LET j == Job(w) IN
    /\ pc[w] = "acquire" /\ lease[j].tok < MaxToken
    /\ lease' = [lease EXCEPT ![j] = [tok |-> @.tok + 1, live |-> TRUE]]
    /\ loc' = [loc EXCEPT ![w].tok = lease[j].tok + 1]
    /\ Go(w, "own")
    /\ UNCHANGED <<store, erasing, faults, stalled>>

\* mutant: a lease that ran out is not taken over
AcquireFirst(w) ==
    LET j == Job(w) IN
    /\ pc[w] = "acquire"
    /\ \/ /\ lease[j].tok = 0
          /\ lease' = [lease EXCEPT ![j] = [tok |-> 1, live |-> TRUE]]
          /\ loc' = [loc EXCEPT ![w].tok = 1]
          /\ Go(w, "own")
       \/ /\ lease[j].tok > 0
          /\ Skip(w)
          /\ Go(w, "scan")
          /\ UNCHANGED lease
    /\ UNCHANGED <<store, erasing, faults, stalled>>

\* acquireRunLock on the job's lease; a live one belongs to somebody else
Acquire(w) ==
    LET j == Job(w) IN
    /\ pc[w] = "acquire"
    /\ \/ /\ ~lease[j].live /\ lease[j].tok < MaxToken
          /\ lease' = [lease EXCEPT ![j] = [tok |-> @.tok + 1, live |-> TRUE]]
          /\ loc' = [loc EXCEPT ![w].tok = lease[j].tok + 1]
          /\ Go(w, "own")
       \/ /\ lease[j].live
          /\ Skip(w)
          /\ Go(w, "scan")
          /\ UNCHANGED lease
    /\ UNCHANGED <<store, erasing, faults, stalled>>

\* put qown: unconditional
Own(w) ==
    /\ pc[w] = "own"
    /\ own' = [own EXCEPT ![Job(w)] = loc[w].tok]
    /\ Go(w, "call")
    /\ UNCHANGED <<setting, count, log, done, dead, att, cursor, erasing, lease, loc, faults, stalled>>

\* The handler is looked up, the run's owner claimed (which may throw), and
\* the handler called ...
Call(w) ==
    /\ pc[w] = "call"
    /\ \/ Go(w, "handle") /\ UNCHANGED loc
       \/ /\ setting.throws
          /\ \E o \in {"missing", "threw"} : loc' = [loc EXCEPT ![w].outcome = o]
          /\ Go(w, "gate")
    /\ UNCHANGED <<store, erasing, lease, faults, stalled>>

\* ... and resolves or throws.
Handle(w) ==
    /\ pc[w] = "handle"
    /\ \E o \in {"ok"} \cup (IF setting.throws THEN {"threw"} ELSE {}) :
          loc' = [loc EXCEPT ![w].outcome = o]
    /\ Go(w, "gate")
    /\ UNCHANGED <<store, erasing, lease, faults, stalled>>

\* stillOwns: lockLost, then a compare-and-set of qown with itself
StillOwns(w) == ~loc[w].lost /\ own[Job(w)] = loc[w].tok

Gate(w) ==
    /\ pc[w] = "gate"
    /\ Go(w, IF ~StillOwns(w) THEN "release"
             ELSE [ok |-> "done", threw |-> "count", missing |-> "bury"][loc[w].outcome])
    /\ UNCHANGED <<store, erasing, lease, loc, faults, stalled>>

\* put qdone
Done(w) ==
    /\ pc[w] = "done"
    /\ done' = done \cup {Job(w)}
    /\ Go(w, "release")
    /\ UNCHANGED <<setting, count, log, dead, att, own, cursor, erasing, lease, loc, faults, stalled>>

\* get qatt ...
Count(w) ==
    /\ pc[w] = "count"
    /\ loc' = [loc EXCEPT ![w].n = att[Job(w)] + 1]
    /\ Go(w, "counted")
    /\ UNCHANGED <<store, erasing, lease, faults, stalled>>

\* ... and put qatt; a dead letter at maxAttempts
Counted(w) ==
    /\ pc[w] = "counted"
    /\ att' = [att EXCEPT ![Job(w)] = loc[w].n]
    /\ Go(w, IF loc[w].n >= setting.maxAttempts THEN "bury" ELSE "release")
    /\ UNCHANGED <<setting, count, log, done, dead, own, cursor, erasing, lease, loc, faults, stalled>>

\* put qfail
Bury(w) ==
    /\ pc[w] = "bury"
    /\ dead' = dead \cup {Job(w)}
    /\ Go(w, "release")
    /\ UNCHANGED <<setting, count, log, done, att, own, cursor, erasing, lease, loc, faults, stalled>>

\* finally: release the lease if it is still one's own
Release(w) ==
    /\ pc[w] = "release"
    /\ lease' = [lease EXCEPT ![Job(w)].live = IF lease[Job(w)].tok = loc[w].tok
                                                   THEN FALSE ELSE @]
    /\ Return(w)
    /\ UNCHANGED <<store, erasing, faults, stalled>>
-----------------------------------------------------------------------------
(* Leases and faults *)

\* The worker holds a lock handle, and its heartbeat interval is armed.
Holding(w) == pc[w] \in {"own", "call", "handle", "gate", "done", "count", "counted", "bury", "release"}
Beating(w) == Holding(w) /\ pc[w] \notin {"own", "release"}

\* A crash, a stall, or maxRenewFailures renewals that throw
Fault == faults < setting.faults /\ faults' = faults + 1

\* A renew keeps the lease, or finds that it was taken over or erased.
Renew(w) ==
    LET j == Job(w) IN
    /\ Beating(w)
    /\ \/ /\ lease[j].tok = loc[w].tok
          /\ lease' = [lease EXCEPT ![j].live = TRUE]
          /\ UNCHANGED loc
       \/ /\ lease[j].tok # loc[w].tok
          /\ loc' = [loc EXCEPT ![w].lost = TRUE]
          /\ UNCHANGED lease
    /\ UNCHANGED <<store, erasing, pc, faults, stalled>>

\* maxRenewFailures renews threw in a row: lockLost is assumed.
RenewFails(w) ==
    /\ Beating(w) /\ Fault
    /\ loc' = [loc EXCEPT ![w].lost = TRUE]
    /\ UNCHANGED <<store, erasing, lease, pc, stalled>>

Holds(w, j) == Holding(w) /\ Job(w) = j /\ loc[w].tok = lease[j].tok

\* The TTL of a lease runs out after its holder crashed ...
Expire(j) ==
    /\ lease[j].live /\ ~\E w \in Workers : Holds(w, j)
    /\ lease' = [lease EXCEPT ![j].live = FALSE]
    /\ UNCHANGED <<store, erasing, pc, loc, faults, stalled>>

\* ... or under a live one that could not renew it in time.
Stall(w) ==
    /\ Holding(w) /\ Holds(w, Job(w)) /\ lease[Job(w)].live
    /\ Fault /\ stalled' = TRUE
    /\ lease' = [lease EXCEPT ![Job(w)].live = FALSE]
    /\ UNCHANGED <<store, erasing, pc, loc>>

Crash(w) ==
    /\ pc[w] # "idle" /\ Fault
    /\ Return(w)
    /\ UNCHANGED <<store, erasing, lease, stalled>>

RunOnce(w) ==
    \/ Poll(w) \/ List(w) \/ Check(w) \/ PageEnd(w) \/ Acquire(w) \/ Own(w) \/ Call(w)
    \/ Handle(w) \/ Gate(w) \/ Done(w) \/ Count(w) \/ Counted(w) \/ Bury(w) \/ Release(w)

Next ==
    \/ Enqueue \/ EraseMarkers
    \/ \E j \in Jobs : RetryJob(j) \/ Erase(j) \/ Expire(j)
    \/ \E w \in Workers : RunOnce(w) \/ Renew(w) \/ RenewFails(w) \/ Stall(w) \/ Crash(w)

Spec == Init /\ [][Next]_vars

\* The poll loop calls runOnce again and again, handlers settle, TTLs run out.
FairSpec == Spec /\ (\A w \in Workers : WF_vars(RunOnce(w)))
                 /\ (\A j \in Jobs : WF_vars(Expire(j)))
-----------------------------------------------------------------------------
(* Properties *)

\* Every variable has its type, and no job is listed twice.
TypeOK ==
    /\ count \in 0 .. setting.jobs /\ cursor \in Nat /\ faults \in 0 .. setting.faults /\ stalled \in BOOLEAN
    /\ erasing \in {0} \cup Jobs
    /\ \A i, k \in DOMAIN log : log[i] \in 1 .. count /\ (log[i] = log[k] => i = k)
    /\ done \subseteq 1 .. count /\ dead \subseteq 1 .. count
    /\ att \in [Jobs -> Nat] /\ own \in [Jobs -> 0 .. MaxToken]
    /\ lease \in [Jobs -> [tok : 0 .. MaxToken + 1, live : BOOLEAN]]
    /\ pc \in [Workers -> {"idle", "list", "scan", "acquire", "own", "call", "handle", "gate",
                            "done", "count", "counted", "bury", "release"}]
    /\ \A w \in Workers :
          /\ loc[w].from \in Nat /\ loc[w].next \in Nat /\ loc[w].n \in Nat
          /\ {loc[w].page[i] : i \in DOMAIN loc[w].page} \subseteq 1 .. count
          /\ {loc[w].more, loc[w].all, loc[w].lost} \subseteq BOOLEAN
          /\ loc[w].tok \in 0 .. MaxToken
          /\ loc[w].outcome \in {"none", "ok", "threw", "missing"}

\* What the scan does keep, while the producers' clocks agree on the order of the jobs
\* and none is erased: a job that no worker has ever claimed is never behind the cursor,
\* whatever the other workers do meanwhile (5.1).
UnclaimedStaysAhead ==
    ~setting.skew /\ ~setting.erases =>
       \A i \in DOMAIN log : i <= cursor => Terminal(log[i]) \/ lease[log[i]].tok > 0

\* While heartbeats renew in time, two workers are never in the handler of one job in
\* the log.  (Not of an erased one: jobEraser deletes the lease under its holder, and
\* a worker that listed the page before takes it again.)
OneHandler ==
    ~stalled => \A j \in Jobs : Listed(j) => Cardinality({w \in Workers : pc[w] = "handle" /\ Job(w) = j}) <= 1

\* The cursor has passed the job, and no worker lists it again.
Behind(j) == \E i \in DOMAIN log : log[i] = j /\ i <= cursor

\* What can leave a job behind the cursor for good: an attempt at it that threw, a worker
\* that crashed, stalled or lost its renewals, and offsets that shift under the cursor.
Hindered(j) == att[j] > 0 \/ faults > 0 \/ setting.skew \/ setting.erases

\* Every job in the log is eventually done or a dead letter, or erased; it is left behind
\* only where the cursor passed it and one of these came in between, never by workers
\* that merely race each other over the pages.
JobsFinish == \A j \in Jobs : Listed(j) ~> Terminal(j) \/ ~Listed(j) \/ (Behind(j) /\ Hindered(j))

\* What holds at any time: the types, and one worker in a job's handler.
WorkerInv == TypeOK /\ OneHandler
-----------------------------------------------------------------------------
(* Said in the code's comments and not true of it (README, Disagreements)  *)

\* The comment on QCURSOR: jobs before the cursor are terminal, and never scanned again.
CursorPassesNoWork == \A i \in DOMAIN log : i <= cursor => Terminal(log[i])

\* index.ts:522, "the cursor is NOT advanced permanently (retry preserved)": allTerminal
\* is a page's own, so the end of a later page persists the cursor past a job that was
\* skipped as locked; if its holder crashes or its handler throws, nobody retries it.
RetryPreserved == \A j \in Jobs : Listed(j) ~> Terminal(j) \/ ~Listed(j)
=============================================================================
