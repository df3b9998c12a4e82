-------------------------- MODULE QueueWorkerProofs --------------------------
(***************************************************************************)
(* Proofs about the job queue, for any set of workers, every queue, and    *)
(* any number of jobs, pages, faults and grants.                           *)
(***************************************************************************)
EXTENDS QueueWorker, FiniteSetTheorems, SequenceTheorems, TLAPS

Held == {"own", "call", "handle", "gate", "done", "count", "counted", "bury", "release"}
Labels == {"idle", "list", "scan", "acquire"} \cup Held

Outcomes == {"none", "ok", "threw", "missing"}
Locals == [from : Nat, page : Seq(Nat), next : Nat, more : BOOLEAN, all : BOOLEAN, tok : 0 .. MaxToken,
           lost : BOOLEAN, n : Nat, outcome : Outcomes]
Lease == [tok : 0 .. MaxToken + 1, live : BOOLEAN]

\* The types of what the workers share; no job is listed twice.
Shared ==
    /\ setting \in Settings /\ count \in 0 .. setting.jobs /\ cursor \in Nat
    /\ faults \in 0 .. setting.faults /\ stalled \in BOOLEAN /\ erasing \in {0} \cup Jobs
    /\ log \in Seq(Nat) /\ \A i \in 1 .. Len(log) : log[i] \in 1 .. count
    /\ \A i, k \in 1 .. Len(log) : log[i] = log[k] => i = k
    /\ done \subseteq 1 .. count /\ dead \subseteq 1 .. count
    /\ att \in [Jobs -> Nat] /\ own \in [Jobs -> 0 .. MaxToken] /\ lease \in [Jobs -> Lease]

\* The variables have their types, and pages hold jobs that were enqueued.
Types ==
    /\ Shared /\ pc \in [Workers -> Labels] /\ loc \in [Workers -> Locals]
    /\ \A w \in Workers : \A i \in 1 .. Len(loc[w].page) : loc[w].page[i] \in 1 .. count

\* Tokens: a job has used none before it is enqueued, and one more than the
\* grants once it was erased, which happens once.
TokensInv ==
    /\ \A j \in Jobs : Listed(j) \/ erasing = j => lease[j].tok <= MaxToken
    /\ \A j \in Jobs : j > count => lease[j].tok = 0 /\ erasing # j
    /\ erasing # 0 => ~Listed(erasing)
    /\ \A j \in Jobs : lease[j].live => lease[j].tok # 0

\* A worker has a job at hand when it needs one; its token is not ahead of the
\* lease; and, while nobody stalls, it holds the lease of a job in the log.
HolderInv(w) ==
    /\ pc[w] \in Held \cup {"acquire"} => loc[w].page # <<>>
    /\ pc[w] = "gate" => loc[w].outcome # "none"
    /\ pc[w] \in Held => loc[w].tok # 0 /\ loc[w].tok <= lease[Job(w)].tok
    /\ pc[w] \in Held /\ ~stalled /\ Listed(Job(w)) => lease[Job(w)].tok = loc[w].tok /\ lease[Job(w)].live

\* A token has one worker.
TokenInv ==
    \A v, w \in Workers :
       pc[v] \in Held /\ pc[w] \in Held /\ Job(v) = Job(w) /\ loc[v].tok = loc[w].tok => v = w

\* The inductive invariant.
IInv == Types /\ TokensInv /\ TokenInv /\ \A w \in Workers : HolderInv(w)
-----------------------------------------------------------------------------
(* Frames *)

\* The jobs that were enqueued are jobs.
LEMMA Enqueued ==
    ASSUME Shared
    PROVE  /\ count \in Nat /\ setting.jobs \in Nat /\ 1 .. setting.jobs \subseteq Jobs /\ 1 .. count \subseteq Jobs
           /\ setting.pageSize \in Nat \ {0} /\ setting.maxAttempts \in Nat \ {0}
           /\ setting.faults \in Nat /\ MaxToken \in Nat /\ Jobs \subseteq Nat \ {0}
<1>1. setting \in [pageSize : Nat \ {0}, maxAttempts : Nat \ {0}, throws : BOOLEAN, skew : BOOLEAN,
                   erases : BOOLEAN, workers : SUBSET Workers, jobs : 0 .. MaxJobs, faults : Nat]
    BY QueueWorkerAssumption DEF Shared
<1>2. /\ setting.jobs \in 0 .. MaxJobs /\ setting.pageSize \in Nat \ {0} /\ setting.maxAttempts \in Nat \ {0}
      /\ setting.faults \in Nat
    BY <1>1
<1>3. count \in 0 .. setting.jobs /\ MaxJobs \in Nat /\ MaxToken \in Nat
    BY QueueWorkerAssumption DEF Shared
<1> QED
    BY <1>2, <1>3 DEF Jobs

\* The job at hand was enqueued.
LEMMA AtHand ==
    ASSUME Types, NEW w \in Workers
    PROVE  /\ loc[w] \in Locals /\ pc[w] \in Labels /\ loc[w].page \in Seq(Nat)
           /\ loc[w].tok \in 0 .. MaxToken /\ loc[w].from \in Nat /\ loc[w].next \in Nat /\ loc[w].n \in Nat
           /\ loc[w].more \in BOOLEAN /\ loc[w].all \in BOOLEAN /\ loc[w].lost \in BOOLEAN /\ loc[w].outcome \in Outcomes
           /\ loc[w].page # <<>> => Job(w) \in 1 .. count /\ Job(w) \in Jobs /\ Job(w) = loc[w].page[1]
<1>1. loc[w] \in Locals /\ pc[w] \in Labels
    BY DEF Types
<1>2. /\ loc[w].page \in Seq(Nat) /\ loc[w].tok \in 0 .. MaxToken /\ loc[w].from \in Nat /\ loc[w].next \in Nat
      /\ loc[w].n \in Nat
      /\ loc[w].more \in BOOLEAN /\ loc[w].all \in BOOLEAN /\ loc[w].lost \in BOOLEAN /\ loc[w].outcome \in Outcomes
    BY <1>1 DEF Locals
<1>3. ASSUME loc[w].page # <<>> PROVE Job(w) \in 1 .. count /\ Job(w) \in Jobs /\ Job(w) = loc[w].page[1]
    <2>1. Len(loc[w].page) \in Nat \ {0} /\ Head(loc[w].page) = loc[w].page[1]
        BY <1>2, <1>3
    <2>2. loc[w].page[1] \in 1 .. count
        BY <2>1 DEF Types
    <2> QED
        BY <2>1, <2>2, Enqueued DEF Types, Job
<1> QED
    BY <1>1, <1>2, <1>3

\* A step of worker w keeps the invariant when it keeps the types, the leases that
\* others hold, and what w itself knows.
LEMMA StepOf ==
    ASSUME IInv, NEW w \in Workers, NEW label \in Labels, NEW l \in Locals, Shared', TokensInv',
           pc' = [pc EXCEPT ![w] = label], loc' = [loc EXCEPT ![w] = l],
           UNCHANGED <<log, count>>, stalled => stalled',
           \A i \in 1 .. Len(l.page) : l.page[i] \in 1 .. count,
           \A j \in Jobs : lease[j].tok <= lease'[j].tok,
           \A v \in Workers \ {w} :
              pc[v] \in Held /\ ~stalled' /\ Listed(Job(v)) => lease'[Job(v)] = lease[Job(v)],
           \A v \in Workers \ {w} :
              pc[v] \in Held /\ label \in Held /\ Job(v) = Head(l.page) => loc[v].tok # l.tok,
           HolderInv(w)'
    PROVE  IInv'
<1>1. Types /\ Shared /\ pc \in [Workers -> Labels] /\ loc \in [Workers -> Locals]
    BY DEF IInv, Types
<1>2. /\ pc' \in [Workers -> Labels] /\ loc' \in [Workers -> Locals] /\ pc'[w] = label /\ loc'[w] = l
      /\ \A v \in Workers \ {w} : pc'[v] = pc[v] /\ loc'[v] = loc[v]
    BY <1>1
<1>3. Job(w)' = Head(l.page) /\ \A v \in Workers \ {w} : Job(v)' = Job(v)
    BY <1>2 DEF Job
<1>4. Types'
    BY <1>1, <1>2 DEF Types
<1>5. \A j : Listed(j)' <=> Listed(j)
    BY DEF Listed
<1>6. TokenInv'
    BY <1>2, <1>3 DEF TokenInv, IInv
<1>7. ASSUME NEW v \in Workers, v # w PROVE HolderInv(v)'
    <2>1. HolderInv(v) /\ pc'[v] = pc[v] /\ loc'[v] = loc[v] /\ Job(v)' = Job(v)
        BY <1>2, <1>3, <1>7 DEF IInv
    <2>2. CASE pc[v] \in Held
        <3>1. Job(v) \in Jobs /\ loc[v].tok \in Nat /\ loc[v].tok <= lease[Job(v)].tok
            BY <1>1, <2>1, <2>2, AtHand, Enqueued DEF HolderInv
        <3>2. lease[Job(v)].tok \in Nat /\ lease'[Job(v)].tok \in Nat
            BY <1>1, <3>1, Enqueued DEF Shared, Lease
        <3>3. loc[v].tok <= lease'[Job(v)].tok
            BY <3>1, <3>2
        <3>4. ASSUME ~stalled', Listed(Job(v)) PROVE lease'[Job(v)].tok = loc[v].tok /\ lease'[Job(v)].live
            BY <1>7, <2>1, <2>2, <3>4 DEF HolderInv
        <3> QED
            BY <1>5, <2>1, <2>2, <3>3, <3>4 DEF HolderInv
    <2>3. CASE pc[v] \notin Held
        BY <2>1, <2>3 DEF HolderInv
    <2> QED
        BY <2>2, <2>3
<1> QED
    BY <1>4, <1>6, <1>7 DEF IInv

\* The same for a step that leaves the leases alone and keeps the job at hand.
LEMMA Goes ==
    ASSUME IInv, NEW w \in Workers, NEW label \in Labels, NEW l \in Locals, Shared',
           pc' = [pc EXCEPT ![w] = label], loc' = [loc EXCEPT ![w] = l],
           UNCHANGED <<log, count, lease, erasing, stalled>>,
           \A i \in 1 .. Len(l.page) : l.page[i] \in 1 .. count,
           label \in Held \cup {"acquire"} => l.page = loc[w].page /\ l.page # <<>>,
           label \in Held => pc[w] \in Held /\ l.tok = loc[w].tok,
           label = "gate" => l.outcome # "none"
    PROVE  IInv'
<1>1. Types /\ Shared /\ pc \in [Workers -> Labels] /\ loc \in [Workers -> Locals] /\ HolderInv(w)
    BY DEF IInv, Types
<1>2. pc'[w] = label /\ loc'[w] = l /\ (label \in Held => Job(w)' = Job(w) /\ Head(l.page) = Job(w))
    BY <1>1 DEF Job
<1>3. \A j : Listed(j)' <=> Listed(j)
    BY DEF Listed
<1>4. TokensInv' /\ HolderInv(w)'
    BY <1>1, <1>2, <1>3 DEF TokensInv, HolderInv, IInv
<1>5. \A j \in Jobs : lease[j].tok <= lease'[j].tok
    <2>1. \A j \in Jobs : lease[j].tok \in Nat
        BY <1>1, Enqueued DEF Shared, Lease
    <2> QED
        BY <2>1
<1>6. \A v \in Workers \ {w} :
         pc[v] \in Held /\ label \in Held /\ Job(v) = Head(l.page) => loc[v].tok # l.tok
    BY <1>2 DEF IInv, TokenInv
<1> QED
    BY <1>4, <1>5, <1>6, StepOf

\* The empty locals.
LEMMA Empty ==
    ASSUME MaxToken \in Nat
    PROVE  NoLocals \in Locals /\ NoLocals.page = <<>> /\ Len(NoLocals.page) = 0
<1>1. <<>> \in Seq(Nat) /\ Len(<<>>) = 0 /\ 0 \in 0 .. MaxToken
    OBVIOUS
<1> QED
    BY <1>1 DEF NoLocals, Locals, Outcomes

\* runOnce returns.
LEMMA Returns ==
    ASSUME IInv, NEW w \in Workers, Return(w), UNCHANGED <<log, count, lease, erasing, stalled>>, Shared'
    PROVE  IInv'
<1>1. MaxToken \in Nat
    BY QueueWorkerAssumption
<1>2. pc' = [pc EXCEPT ![w] = "idle"] /\ loc' = [loc EXCEPT ![w] = NoLocals] /\ "idle" \in Labels \ (Held \cup {"acquire", "gate"})
    BY DEF Return, Go, Labels, Held
<1>3. \A i \in 1 .. Len(NoLocals.page) : NoLocals.page[i] \in 1 .. count
    BY <1>1, Empty
<1> QED
    BY <1>1, <1>2, <1>3, Empty, Goes

\* A worker that changes only its place.
LEMMA Places ==
    ASSUME IInv, NEW w \in Workers, NEW label \in Labels, Go(w, label),
           UNCHANGED <<loc, log, count, lease, erasing, stalled>>, Shared',
           label # "gate", label \in Held \cup {"acquire"} => pc[w] \in Held
    PROVE  IInv'
<1>1. Types /\ loc \in [Workers -> Locals] /\ HolderInv(w)
    BY DEF IInv, Types
<1>2. loc' = [loc EXCEPT ![w] = loc[w]] /\ pc' = [pc EXCEPT ![w] = label] /\ loc[w] \in Locals
    BY <1>1 DEF Go
<1>3. \A i \in 1 .. Len(loc[w].page) : loc[w].page[i] \in 1 .. count
    BY <1>1 DEF Types
<1>4. label \in Held \cup {"acquire"} => loc[w].page # <<>>
    BY <1>1 DEF HolderInv
<1>5. label \in Held => pc[w] \in Held
    OBVIOUS
<1> QED
    BY <1>2, <1>3, <1>4, <1>5, Goes

\* A worker that changes its place, and of its locals neither page nor token.
LEMMA Notes ==
    ASSUME IInv, NEW w \in Workers, NEW label \in Labels, pc' = [pc EXCEPT ![w] = label],
           NEW l \in Locals, loc' = [loc EXCEPT ![w] = l], l.page = loc[w].page, l.tok = loc[w].tok,
           UNCHANGED <<log, count, lease, erasing, stalled>>, Shared',
           label \in Held => pc[w] \in Held, label = "acquire" => loc[w].page # <<>>,
           label = "gate" => l.outcome # "none"
    PROVE  IInv'
<1>1. Types /\ HolderInv(w)
    BY DEF IInv, Types
<1>2. \A i \in 1 .. Len(l.page) : l.page[i] \in 1 .. count
    BY <1>1 DEF Types
<1>3. label \in Held \cup {"acquire"} => l.page # <<>>
    BY <1>1 DEF HolderInv
<1> QED
    BY <1>2, <1>3, Goes

\* A step of a worker that leaves the store alone keeps its types.
LEMMA StoreStays ==
    ASSUME IInv, UNCHANGED <<store, erasing, lease, stalled>>, faults' \in 0 .. setting.faults
    PROVE  Shared' /\ UNCHANGED <<setting, count, log, done, dead, att, own, cursor>>
BY DEF IInv, Types, Shared, store
-----------------------------------------------------------------------------
(* The scan *)

\* runOnce reads the cursor.
LEMMA PollStep ==
    ASSUME IInv, NEW w \in Workers, Poll(w) PROVE IInv'
<1> DEFINE l == [loc[w] EXCEPT !.from = cursor]
<1>1. loc[w] \in Locals /\ cursor \in Nat /\ faults \in 0 .. setting.faults
    BY DEF IInv, Types, Shared
<1>2. l \in Locals /\ l.page = loc[w].page /\ l.tok = loc[w].tok
    BY <1>1 DEF Locals
<1>3. /\ loc' = [loc EXCEPT ![w] = l] /\ pc' = [pc EXCEPT ![w] = "list"]
      /\ "list" \in Labels \ (Held \cup {"acquire", "gate"}) /\ UNCHANGED <<store, erasing, lease, faults, stalled>>
    BY DEF Poll, Go, Labels, Held
<1> HIDE DEF l
<1> QED
    BY <1>1, <1>2, <1>3, StoreStays, Notes

\* A page is a part of the log.
LEMMA Page ==
    ASSUME Shared, NEW from \in Nat, NEW m \in Nat, m <= Len(log)
    PROVE  /\ SubSeq(log, from + 1, m) \in Seq(Nat)
           /\ Len(SubSeq(log, from + 1, m)) = IF from + 1 <= m THEN m - from ELSE 0
           /\ \A i \in 1 .. Len(SubSeq(log, from + 1, m)) :
                 /\ SubSeq(log, from + 1, m)[i] = log[from + i]
                 /\ SubSeq(log, from + 1, m)[i] \in 1 .. count
<1> DEFINE s == SubSeq(log, from + 1, m)
<1>1. log \in Seq(Nat) /\ Len(log) \in Nat /\ from + 1 \in Int /\ m \in Int
    BY DEF Shared
<1>2. \A i \in from + 1 .. m : log[i] \in Nat
    BY <1>1
<1>3. /\ s \in Seq(Nat) /\ Len(s) = IF from + 1 <= m THEN m - (from + 1) + 1 ELSE 0
      /\ \A i \in 1 .. m - (from + 1) + 1 : s[i] = log[from + 1 + i - 1]
    BY <1>1, <1>2, SubSeqProperties
<1> HIDE DEF s
<1>4. Len(s) = IF from + 1 <= m THEN m - from ELSE 0
    BY <1>3
<1>5. ASSUME NEW i \in 1 .. Len(s) PROVE s[i] = log[from + i] /\ s[i] \in 1 .. count
    <2>1. i \in 1 .. m - (from + 1) + 1 /\ from + 1 + i - 1 = from + i /\ from + i \in 1 .. Len(log)
        BY <1>1, <1>4, <1>5
    <2> QED
        BY <1>3, <2>1 DEF Shared
<1> QED
    BY <1>3, <1>4, <1>5 DEF s

\* A page is listed.
LEMMA ListStep ==
    ASSUME IInv, NEW w \in Workers, List(w) PROVE IInv'
<1> DEFINE from == loc[w].from
           next == from + setting.pageSize
           m == IF next < Len(log) THEN next ELSE Len(log)
           page == SubSeq(log, from + 1, m)
           more == next < Len(log)
           l == [NoLocals EXCEPT !.page = page, !.next = next, !.more = more]
<1>1. /\ Types /\ Shared /\ log \in Seq(Nat) /\ Len(log) \in Nat /\ from \in Nat /\ setting.pageSize \in Nat
      /\ MaxToken \in Nat /\ faults \in 0 .. setting.faults
    <2>1. Types /\ Shared /\ log \in Seq(Nat) /\ faults \in 0 .. setting.faults
        BY DEF IInv, Types, Shared
    <2>2. from \in Nat
        BY <2>1, AtHand
    <2> QED
        BY <2>1, <2>2, Enqueued
<1>2. next \in Nat /\ m \in Nat /\ m <= Len(log) /\ more \in BOOLEAN
    BY <1>1
<1>3. page \in Seq(Nat) /\ \A i \in 1 .. Len(page) : page[i] \in 1 .. count
    BY <1>1, <1>2, Page
<1>4. loc' = [loc EXCEPT ![w] = l] /\ pc' = [pc EXCEPT ![w] = "scan"] /\ "scan" \in Labels \ (Held \cup {"acquire", "gate"})
    BY DEF List, Go, Labels, Held
<1>5. UNCHANGED <<store, erasing, lease, faults, stalled>>
    BY DEF List
<1> HIDE DEF page, next, more
<1>6. l \in Locals /\ l.page = page
    BY <1>1, <1>2, <1>3, Empty DEF NoLocals, Locals
<1> HIDE DEF l
<1> QED
    BY <1>1, <1>3, <1>4, <1>5, <1>6, StoreStays, Goes

\* The rest of a page.
LEMMA Rest ==
    ASSUME Types, NEW w \in Workers, loc[w].page # <<>>
    PROVE  /\ [loc[w] EXCEPT !.page = Tail(loc[w].page)] \in Locals
           /\ Len(Tail(loc[w].page)) = Len(loc[w].page) - 1 /\ Len(loc[w].page) \in Nat \ {0}
           /\ \A i \in 1 .. Len(Tail(loc[w].page)) :
                 Tail(loc[w].page)[i] = loc[w].page[i + 1] /\ Tail(loc[w].page)[i] \in 1 .. count
<1>1. loc[w] \in Locals /\ loc[w].page \in Seq(Nat)
    BY AtHand
<1>2. /\ Tail(loc[w].page) \in Seq(Nat) /\ Len(Tail(loc[w].page)) = Len(loc[w].page) - 1
      /\ \A i \in 1 .. Len(Tail(loc[w].page)) : Tail(loc[w].page)[i] = loc[w].page[i + 1]
    BY <1>1, HeadTailProperties
<1>3. Len(loc[w].page) \in Nat \ {0}
    BY <1>1
<1>4. \A i \in 1 .. Len(loc[w].page) - 1 : i + 1 \in 1 .. Len(loc[w].page)
    BY <1>3
<1>5. \A i \in 1 .. Len(Tail(loc[w].page)) : loc[w].page[i + 1] \in 1 .. count
    BY <1>2, <1>4 DEF Types
<1>6. [loc[w] EXCEPT !.page = Tail(loc[w].page)] \in Locals
    BY <1>1, <1>2 DEF Locals
<1> QED
    BY <1>2, <1>3, <1>5, <1>6

\* The scan goes on with the next job.
LEMMA Skips ==
    ASSUME IInv, NEW w \in Workers, Skip(w), pc' = [pc EXCEPT ![w] = "scan"], loc[w].page # <<>>,
           UNCHANGED <<store, erasing, lease, faults, stalled>>
    PROVE  IInv'
<1> DEFINE l == [loc[w] EXCEPT !.page = Tail(loc[w].page)]
<1>1. Types /\ loc[w] \in Locals /\ faults \in 0 .. setting.faults /\ "scan" \in Labels \ (Held \cup {"acquire", "gate"})
    BY DEF IInv, Types, Shared, Labels, Held
<1>2. l \in Locals /\ l.page = Tail(loc[w].page) /\ \A i \in 1 .. Len(Tail(loc[w].page)) : Tail(loc[w].page)[i] \in 1 .. count
    BY <1>1, Rest DEF Locals
<1>3. loc' = [loc EXCEPT ![w] = l]
    BY DEF Skip
<1> HIDE DEF l
<1> QED
    BY <1>1, <1>2, <1>3, StoreStays, Goes

\* The job at hand is looked at.
LEMMA CheckStep ==
    ASSUME IInv, NEW w \in Workers, Check(w) PROVE IInv'
<1>1. /\ Types /\ loc[w] \in Locals /\ faults \in 0 .. setting.faults /\ loc[w].page # <<>> /\ pc[w] = "scan"
      /\ UNCHANGED <<store, erasing, lease, faults, stalled>> /\ pc \in [Workers -> Labels]
    BY DEF IInv, Types, Shared, Check
<1>2. CASE Skip(w) /\ UNCHANGED pc
    <2>1. pc' = [pc EXCEPT ![w] = "scan"]
        BY <1>1, <1>2
    <2> QED
        BY <1>1, <1>2, <2>1, Skips
<1>3. CASE loc' = [loc EXCEPT ![w].all = FALSE] /\ Go(w, "acquire")
    <2> DEFINE l == [loc[w] EXCEPT !.all = FALSE]
    <2>1. l \in Locals /\ l.page = loc[w].page /\ l.tok = loc[w].tok
        BY <1>1 DEF Locals
    <2>2. loc' = [loc EXCEPT ![w] = l] /\ pc' = [pc EXCEPT ![w] = "acquire"] /\ "acquire" \in Labels \ Held
        BY <1>3 DEF Go, Labels, Held
    <2> HIDE DEF l
    <2> QED
        BY <1>1, <2>1, <2>2, StoreStays, Notes
<1> QED
    BY <1>2, <1>3 DEF Check

\* The end of a page.
LEMMA PageEndStep ==
    ASSUME IInv, NEW w \in Workers, PageEnd(w) PROVE IInv'
<1>1. /\ Types /\ Shared /\ loc[w] \in Locals /\ loc[w].next \in Nat
      /\ UNCHANGED <<setting, count, log, done, dead, att, own, erasing, lease, faults, stalled>>
    BY AtHand DEF IInv, Types, PageEnd
<1>2. CASE Return(w) /\ UNCHANGED cursor
    <2>1. Shared'
        BY <1>1, <1>2 DEF Shared
    <2> QED
        BY <1>1, <1>2, <2>1, Returns
<1>3. CASE /\ cursor' = IF loc[w].all THEN loc[w].next ELSE cursor
           /\ loc' = [loc EXCEPT ![w].from = loc[w].next] /\ Go(w, "list")
    <2> DEFINE l == [loc[w] EXCEPT !.from = loc[w].next]
    <2>1. l \in Locals /\ l.page = loc[w].page /\ l.tok = loc[w].tok
        BY <1>1 DEF Locals
    <2>2. loc' = [loc EXCEPT ![w] = l] /\ pc' = [pc EXCEPT ![w] = "list"] /\ "list" \in Labels \ (Held \cup {"acquire", "gate"})
        BY <1>3 DEF Go, Labels, Held
    <2>3. cursor' \in Nat
        BY <1>1, <1>3 DEF Shared
    <2>4. Shared'
        BY <1>1, <2>3 DEF Shared
    <2> HIDE DEF l
    <2> QED
        BY <1>1, <2>1, <2>2, <2>4, Notes
<1> QED
    BY <1>2, <1>3 DEF PageEnd
-----------------------------------------------------------------------------
(* One job *)

\* A lease is taken, or a live one left alone.
LEMMA AcquireStep ==
    ASSUME IInv, NEW w \in Workers, Acquire(w) PROVE IInv'
<1> DEFINE j == Job(w)
<1>1. /\ Types /\ Shared /\ HolderInv(w) /\ loc[w] \in Locals /\ loc[w].page # <<>> /\ pc[w] = "acquire"
      /\ UNCHANGED <<store, erasing, faults, stalled>> /\ loc \in [Workers -> Locals]
    BY DEF IInv, Types, HolderInv, Acquire
<1>2. j \in 1 .. count /\ j \in Jobs /\ MaxToken \in Nat /\ Jobs \subseteq Nat \ {0} /\ count \in Nat
    BY <1>1, AtHand, Enqueued
<1>3. CASE /\ ~lease[j].live /\ lease[j].tok < MaxToken
           /\ lease' = [lease EXCEPT ![j] = [tok |-> @.tok + 1, live |-> TRUE]]
           /\ loc' = [loc EXCEPT ![w].tok = lease[j].tok + 1]
           /\ Go(w, "own")
    <2> DEFINE t == lease[j].tok + 1
               l == [loc[w] EXCEPT !.tok = t]
    <2>1. lease \in [Jobs -> Lease] /\ \A k \in Jobs : lease[k].tok \in Nat
        BY <1>1, <1>2 DEF Shared, Lease
    <2>2. t \in Nat /\ t <= MaxToken /\ lease[j].tok < t
        BY <1>2, <1>3, <2>1
    <2>3. /\ lease' \in [Jobs -> Lease] /\ lease'[j].tok = t /\ lease'[j].live
          /\ \A k \in Jobs : k # j => lease'[k] = lease[k]
        <3>1. [tok |-> t, live |-> TRUE] \in Lease
            BY <1>2, <2>2 DEF Lease
        <3>2. lease' = [lease EXCEPT ![j] = [tok |-> t, live |-> TRUE]]
            BY <1>3
        <3> HIDE DEF t
        <3> QED
            BY <1>2, <2>1, <3>1, <3>2
    <2>4. t \in 0 .. MaxToken
        BY <1>2, <2>2
    <2>5. loc' = [loc EXCEPT ![w] = l] /\ pc' = [pc EXCEPT ![w] = "own"] /\ "own" \in Labels /\ "own" \in Held
        BY <1>3 DEF Go, Labels, Held
    <2> HIDE DEF t
    <2>6. l \in Locals /\ l.page = loc[w].page /\ l.tok = t
        BY <1>1, <2>4 DEF Locals
    <2> HIDE DEF l
    <2>7. Shared'
        BY <1>1, <2>3 DEF Shared, store
    <2>8. UNCHANGED <<log, count>> /\ \A k : Listed(k)' <=> Listed(k)
        BY <1>1 DEF store, Listed
    <2>9. TokensInv'
        <3>1. t # 0 /\ ~(j > count) /\ TokensInv
            BY <1>2, <2>1, <2>2 DEF IInv
        <3> QED
            BY <1>1, <1>2, <2>2, <2>3, <2>8, <3>1 DEF TokensInv
    <2>10. \A i \in 1 .. Len(l.page) : l.page[i] \in 1 .. count
        BY <1>1, <2>6 DEF Types
    <2>11. \A k \in Jobs : lease[k].tok <= lease'[k].tok
        BY <2>1, <2>2, <2>3
    <2>12. ASSUME NEW v \in Workers \ {w}, pc[v] \in Held
           PROVE  /\ ~stalled' /\ Listed(Job(v)) => lease'[Job(v)] = lease[Job(v)]
                  /\ Job(v) = Head(l.page) => loc[v].tok # l.tok
        <3>1. HolderInv(v) /\ loc[v].page # <<>> /\ Job(v) \in Jobs /\ loc[v].tok \in Nat
            BY <1>1, <1>2, <2>12, AtHand DEF IInv, HolderInv
        <3>2. ~stalled' /\ Listed(Job(v)) => Job(v) # j
            BY <1>1, <1>3, <2>12, <3>1 DEF HolderInv
        <3>3. Job(v) = j => loc[v].tok # t
            BY <2>1, <2>2, <2>12, <3>1 DEF HolderInv
        <3>4. Head(l.page) = j
            BY <2>6 DEF Job
        <3> QED
            BY <2>3, <2>6, <3>1, <3>2, <3>3, <3>4
    <2>13. HolderInv(w)'
        <3>1. loc'[w] = l /\ pc'[w] = "own" /\ Job(w)' = j
            BY <1>1, <2>5, <2>6 DEF Job, Types
        <3>2. t <= t /\ t # 0
            BY <1>2, <2>1, <2>2
        <3> QED
            BY <1>1, <2>3, <2>6, <3>1, <3>2 DEF HolderInv
    <2> QED
        BY <1>1, <2>5, <2>6, <2>7, <2>8, <2>9, <2>10, <2>11, <2>12, <2>13, StepOf
<1>4. CASE Skip(w) /\ Go(w, "scan") /\ UNCHANGED lease
    BY <1>1, <1>4, Skips DEF Go
<1> QED
    BY <1>3, <1>4 DEF Acquire

\* The places at which a worker holds a lock handle.
LEMMA HeldPlaces ==
    Held \subseteq Labels /\ \A w \in Workers : Holding(w) <=> pc[w] \in Held
BY DEF Held, Labels, Holding

\* put qown.
LEMMA OwnStep ==
    ASSUME IInv, NEW w \in Workers, Own(w) PROVE IInv'
<1>1. /\ Types /\ Shared /\ pc[w] = "own" /\ pc[w] \in Held /\ loc[w].page # <<>>
      /\ UNCHANGED <<setting, count, log, done, dead, att, cursor, erasing, lease, loc, faults, stalled>>
    BY DEF IInv, Types, HolderInv, Own, Held
<1>2. Job(w) \in Jobs /\ loc[w].tok \in 0 .. MaxToken
    BY <1>1, AtHand
<1>3. own' \in [Jobs -> 0 .. MaxToken]
    BY <1>1, <1>2 DEF Own, Shared
<1>4. Shared' /\ "call" \in Labels /\ Go(w, "call")
    BY <1>1, <1>3 DEF Shared, Labels, Held, Own
<1> QED
    BY <1>1, <1>4, Places

\* A handler is called, and ends.
Ends(w, o) == loc' = [loc EXCEPT ![w].outcome = o] /\ Go(w, "gate")

\* The handler ends.
LEMMA OutcomeStep ==
    ASSUME IInv, NEW w \in Workers, pc[w] \in Held, NEW o \in {"ok", "threw", "missing"},
           Ends(w, o), UNCHANGED <<store, erasing, lease, faults, stalled>>
    PROVE  IInv'
<1> DEFINE l == [loc[w] EXCEPT !.outcome = o]
<1>1. loc[w] \in Locals /\ faults \in 0 .. setting.faults /\ "gate" \in Labels
    BY DEF IInv, Types, Shared, Labels, Held
<1>2. l \in Locals /\ l.page = loc[w].page /\ l.tok = loc[w].tok /\ l.outcome = o
    BY <1>1 DEF Locals, Outcomes
<1>3. loc' = [loc EXCEPT ![w] = l] /\ pc' = [pc EXCEPT ![w] = "gate"]
    BY DEF Ends, Go
<1>4. Shared' /\ UNCHANGED <<log, count, lease, erasing, stalled>>
    BY <1>1, StoreStays
<1>5. l.outcome # "none"
    BY <1>2
<1> HIDE DEF l
<1> QED
    BY <1>1, <1>2, <1>3, <1>4, <1>5, Notes

\* The handler is called.
LEMMA CallStep ==
    ASSUME IInv, NEW w \in Workers, Call(w) \/ Handle(w) PROVE IInv'
<1>1. /\ pc[w] \in Held /\ faults \in 0 .. setting.faults /\ UNCHANGED <<store, erasing, lease, faults, stalled>>
      /\ "handle" \in Labels
    BY DEF IInv, Types, Shared, Call, Handle, Held, Labels
<1>2. CASE Go(w, "handle") /\ UNCHANGED loc
    BY <1>1, <1>2, StoreStays, Places
<1>3. CASE \E o \in {"ok", "threw", "missing"} : Ends(w, o)
    BY <1>1, <1>3, OutcomeStep
<1> QED
    BY <1>2, <1>3 DEF Call, Handle, Ends

\* stillOwns decides what is written.
LEMMA GateStep ==
    ASSUME IInv, NEW w \in Workers, Gate(w) PROVE IInv'
<1> DEFINE label == IF ~StillOwns(w) THEN "release"
                    ELSE [ok |-> "done", threw |-> "count", missing |-> "bury"][loc[w].outcome]
<1>1. /\ Types /\ HolderInv(w) /\ faults \in 0 .. setting.faults /\ pc[w] = "gate" /\ Go(w, label)
      /\ UNCHANGED <<store, erasing, lease, loc, faults, stalled>> /\ pc[w] \in Held
    BY DEF IInv, Types, Shared, Gate, Held
<1>2. loc[w].outcome \in {"ok", "threw", "missing"}
    BY <1>1, AtHand DEF HolderInv, Outcomes
<1>3. label \in {"release", "done", "count", "bury"}
    BY <1>2
<1> HIDE DEF label
<1>4. label \in Labels /\ label # "gate"
    BY <1>3 DEF Labels, Held
<1> QED
    BY <1>1, <1>4, StoreStays, Places

\* qdone, qatt and qfail are written.
LEMMA MarkStep ==
    ASSUME IInv, NEW w \in Workers, Done(w) \/ Counted(w) \/ Bury(w) PROVE IInv'
<1>1. /\ Types /\ Shared /\ pc[w] \in Held /\ HolderInv(w)
      /\ UNCHANGED <<setting, count, log, own, cursor, erasing, lease, loc, faults, stalled>>
    <2>1. Types /\ Shared /\ HolderInv(w)
        BY DEF IInv, Types
    <2>2. pc[w] \in {"done", "counted", "bury"}
        BY DEF Done, Counted, Bury
    <2>3. UNCHANGED <<setting, count, log, own, cursor, erasing, lease, loc, faults, stalled>>
        BY DEF Done, Counted, Bury
    <2> QED
        BY <2>1, <2>2, <2>3 DEF Held
<1>2. Job(w) \in 1 .. count /\ Job(w) \in Jobs /\ loc[w].n \in Nat
    BY <1>1, AtHand DEF HolderInv
<1>3. /\ done' \subseteq 1 .. count /\ dead' \subseteq 1 .. count /\ att' \in [Jobs -> Nat]
    <2>1. CASE Done(w)
        BY <1>1, <1>2, <2>1 DEF Shared, Done
    <2>2. CASE Counted(w)
        BY <1>1, <1>2, <2>2 DEF Shared, Counted
    <2>3. CASE Bury(w)
        BY <1>1, <1>2, <2>3 DEF Shared, Bury
    <2> QED
        BY <2>1, <2>2, <2>3
<1>4. Shared'
    BY <1>1, <1>3 DEF Shared
<1>5. PICK label \in {"release", "bury"} : Go(w, label)
    BY DEF Done, Counted, Bury
<1>6. label \in Labels /\ label # "gate"
    BY <1>5 DEF Labels, Held
<1> QED
    BY <1>1, <1>4, <1>5, <1>6, Places

\* The attempt is counted.
LEMMA CountStep ==
    ASSUME IInv, NEW w \in Workers, Count(w) PROVE IInv'
<1> DEFINE n == att[Job(w)] + 1
           l == [loc[w] EXCEPT !.n = n]
<1>1. /\ Types /\ Shared /\ HolderInv(w) /\ loc[w] \in Locals /\ faults \in 0 .. setting.faults /\ pc[w] \in Held
      /\ "counted" \in Labels /\ UNCHANGED <<store, erasing, lease, faults, stalled>>
    BY DEF IInv, Types, Shared, Count, Labels, Held
<1>2. Job(w) \in Jobs
    BY <1>1, AtHand DEF HolderInv
<1>3. n \in Nat
    BY <1>1, <1>2 DEF Shared
<1>4. loc' = [loc EXCEPT ![w] = l] /\ pc' = [pc EXCEPT ![w] = "counted"]
    BY DEF Count, Go
<1> HIDE DEF n
<1>5. l \in Locals /\ l.page = loc[w].page /\ l.tok = loc[w].tok
    BY <1>1, <1>3 DEF Locals
<1> HIDE DEF l
<1> QED
    BY <1>1, <1>4, <1>5, StoreStays, Notes
-----------------------------------------------------------------------------
(* Leases, faults, the producer and the eraser *)

\* A lease of which only its being live changes.
LEMMA LiveOnly ==
    ASSUME Shared, NEW j \in Jobs, NEW b \in BOOLEAN, lease' = [lease EXCEPT ![j].live = b]
    PROVE  /\ lease' \in [Jobs -> Lease] /\ lease'[j].tok = lease[j].tok /\ lease'[j].live = b
           /\ \A k \in Jobs : lease'[k].tok = lease[k].tok /\ lease[k].tok \in Nat
           /\ \A k \in Jobs : k # j => lease'[k] = lease[k]
           /\ b = lease[j].live => lease'[j] = lease[j]
<1> DEFINE r == [lease[j] EXCEPT !.live = b]
<1>1. lease \in [Jobs -> Lease] /\ lease[j] \in Lease /\ MaxToken \in Nat
    BY Enqueued DEF Shared
<1>2. r \in Lease /\ r.tok = lease[j].tok /\ r.live = b
    BY <1>1 DEF Lease
<1>3. b = lease[j].live => r = lease[j]
    BY <1>1 DEF Lease
<1>4. lease' = [lease EXCEPT ![j] = r]
    OBVIOUS
<1>5. \A k \in Jobs : lease[k].tok \in Nat
    BY <1>1 DEF Lease
<1> HIDE DEF r
<1> QED
    BY <1>1, <1>2, <1>3, <1>4, <1>5

\* While nobody stalls, the holder of a listed job's lease is one worker.
LEMMA OneHolder ==
    ASSUME IInv, NEW v \in Workers, NEW w \in Workers, v # w, pc[v] \in Held, pc[w] \in Held, ~stalled,
           Listed(Job(v)), Job(v) = Job(w)
    PROVE  lease[Job(w)].tok # loc[w].tok
<1>1. lease[Job(v)].tok = loc[v].tok
    BY DEF IInv, HolderInv
<1> QED
    BY <1>1 DEF IInv, TokenInv

\* The lease is released if it is still one's own.
LEMMA ReleaseStep ==
    ASSUME IInv, NEW w \in Workers, Release(w) PROVE IInv'
<1> DEFINE j == Job(w)
           b == IF lease[j].tok = loc[w].tok THEN FALSE ELSE lease[j].live
<1>1. /\ Types /\ Shared /\ HolderInv(w) /\ pc[w] = "release" /\ pc[w] \in Held /\ Return(w)
      /\ UNCHANGED <<store, erasing, faults, stalled>> /\ MaxToken \in Nat
    BY QueueWorkerAssumption DEF IInv, Types, Release, Held
<1>2. j \in Jobs
    BY <1>1, AtHand DEF HolderInv
<1>3. b \in BOOLEAN /\ lease' = [lease EXCEPT ![j].live = b]
    BY <1>1, <1>2 DEF Release, Shared, Lease
<1> HIDE DEF b
<1>4. /\ lease' \in [Jobs -> Lease] /\ \A k \in Jobs : lease'[k].tok = lease[k].tok /\ lease[k].tok \in Nat
      /\ \A k \in Jobs : k # j => lease'[k] = lease[k]
      /\ b = lease[j].live => lease'[j] = lease[j]
      /\ lease'[j].live = b
    BY <1>1, <1>2, <1>3, LiveOnly
<1>5. Shared' /\ UNCHANGED <<log, count>>
    BY <1>1, <1>4 DEF Shared, store
<1>6. TokensInv'
    <2>1. \A k : Listed(k)' <=> Listed(k)
        BY <1>5 DEF Listed
    <2>2. \A k \in Jobs : lease'[k].live => lease[k].live
        BY <1>4 DEF b
    <2> QED
        BY <1>1, <1>4, <1>5, <2>1, <2>2 DEF TokensInv, IInv
<1>7. /\ pc' = [pc EXCEPT ![w] = "idle"] /\ loc' = [loc EXCEPT ![w] = NoLocals]
      /\ "idle" \in Labels \ (Held \cup {"acquire", "gate"})
    BY <1>1 DEF Return, Go, Labels, Held
<1>8. HolderInv(w)'
    <2>1. pc'[w] = "idle"
        BY <1>1, <1>7 DEF Types
    <2> QED
        BY <1>7, <2>1 DEF HolderInv
<1>9. ASSUME NEW v \in Workers \ {w}, pc[v] \in Held, ~stalled', Listed(Job(v))
      PROVE  lease'[Job(v)] = lease[Job(v)]
    <2>1. Job(v) \in Jobs
        BY <1>1, <1>9, AtHand DEF IInv, HolderInv
    <2>2. CASE Job(v) = j
        <3>1. lease[j].tok # loc[w].tok
            BY <1>1, <1>9, <2>2, OneHolder
        <3>2. b = lease[j].live
            BY <3>1 DEF b
        <3> QED
            BY <1>4, <2>2, <3>2
    <2>3. CASE Job(v) # j
        BY <1>4, <2>1, <2>3
    <2> QED
        BY <2>2, <2>3
<1>10. \A k \in Jobs : lease[k].tok <= lease'[k].tok
    BY <1>4
<1>11. NoLocals \in Locals /\ \A i \in 1 .. Len(NoLocals.page) : NoLocals.page[i] \in 1 .. count
    BY <1>1, Empty
<1> QED
    BY <1>1, <1>5, <1>6, <1>7, <1>8, <1>9, <1>10, <1>11, StepOf

\* A step that no worker takes.
LEMMA Environment ==
    ASSUME IInv, Shared', TokensInv', UNCHANGED <<pc, loc>>, count <= count', stalled => stalled',
           \A j \in Jobs : lease[j].tok <= lease'[j].tok,
           \A w \in Workers :
              pc[w] \in Held /\ ~stalled' /\ Listed(Job(w))' => Listed(Job(w)) /\ lease'[Job(w)] = lease[Job(w)]
    PROVE  IInv'
<1>1. Types /\ Shared /\ count \in Nat /\ count' \in Nat
    <2>1. Types /\ Shared
        BY DEF IInv, Types
    <2>2. setting.jobs \in Nat /\ setting'.jobs \in Nat
        BY <2>1, QueueWorkerAssumption DEF Shared
    <2> QED
        BY <2>1, <2>2 DEF Shared
<1>2. Types'
    BY <1>1 DEF Types
<1>3. \A w \in Workers : Job(w)' = Job(w)
    BY DEF Job
<1>4. TokenInv'
    BY <1>3 DEF IInv, TokenInv
<1>5. ASSUME NEW w \in Workers PROVE HolderInv(w)'
    <2>1. HolderInv(w)
        BY <1>5 DEF IInv
    <2>2. CASE pc[w] \in Held
        <3>1. Job(w) \in Jobs /\ loc[w].tok \in Nat /\ loc[w].tok <= lease[Job(w)].tok
            BY <1>1, <1>5, <2>1, <2>2, AtHand, Enqueued DEF HolderInv
        <3>2. lease[Job(w)].tok \in Nat /\ lease'[Job(w)].tok \in Nat
            BY <1>1, <3>1, Enqueued DEF Shared, Lease
        <3>3. loc[w].tok <= lease'[Job(w)].tok
            BY <3>1, <3>2
        <3>4. ASSUME ~stalled', Listed(Job(w))' PROVE lease'[Job(w)].tok = loc[w].tok /\ lease'[Job(w)].live
            BY <1>5, <2>1, <2>2, <3>4 DEF HolderInv
        <3> QED
            BY <1>3, <1>5, <2>1, <2>2, <3>3, <3>4 DEF HolderInv
    <2>3. CASE pc[w] \notin Held
        BY <2>1, <2>3 DEF HolderInv
    <2> QED
        BY <2>2, <2>3
<1> QED
    BY <1>2, <1>4, <1>5 DEF IInv

\* A lease that changes only in being live, and for a stalled worker or for none.
LEMMA LeaseLives ==
    ASSUME IInv, NEW j \in Jobs, NEW b \in BOOLEAN, lease' = [lease EXCEPT ![j].live = b],
           UNCHANGED <<store, erasing, pc, loc>>, stalled' \in BOOLEAN, stalled => stalled',
           faults' \in 0 .. setting.faults,
           b => lease[j].tok # 0,
           \/ b = TRUE
           \/ stalled'
           \/ \A w \in Workers : ~Holds(w, j)
    PROVE  IInv'
<1>1. Types /\ Shared
    BY DEF IInv, Types
<1>2. /\ lease' \in [Jobs -> Lease] /\ \A k \in Jobs : lease'[k].tok = lease[k].tok /\ lease[k].tok \in Nat
      /\ \A k \in Jobs : k # j => lease'[k] = lease[k]
      /\ b = lease[j].live => lease'[j] = lease[j]
    BY <1>1, LiveOnly
<1>3. Shared' /\ UNCHANGED <<log, count>> /\ count \in Nat
    BY <1>1, <1>2, Enqueued DEF Shared, store
<1>4. \A k : Listed(k)' <=> Listed(k)
    BY <1>3 DEF Listed
<1>5. TokensInv'
    <2>1. \A k \in Jobs : lease'[k].live => lease[k].tok # 0
        BY <1>1, <1>2, LiveOnly DEF TokensInv, IInv
    <2> QED
        BY <1>1, <1>2, <1>3, <1>4, <2>1 DEF TokensInv, IInv
<1>6. ASSUME NEW w \in Workers, pc[w] \in Held, ~stalled', Listed(Job(w))' PROVE Listed(Job(w)) /\ lease'[Job(w)] = lease[Job(w)]
    <2>1. Listed(Job(w)) /\ ~stalled /\ HolderInv(w)
        BY <1>3, <1>6 DEF IInv, Listed, Job
    <2>2. Job(w) \in Jobs /\ lease[Job(w)].tok = loc[w].tok /\ lease[Job(w)].live
        BY <1>1, <1>6, <2>1, AtHand DEF HolderInv
    <2>3. CASE Job(w) = j
        <3>1. Holds(w, j)
            BY <1>6, <2>2, <2>3, HeldPlaces DEF Holds
        <3>2. b = TRUE /\ lease[j].live \in BOOLEAN
            BY <1>1, <1>6, <3>1 DEF Shared, Lease
        <3> QED
            BY <1>2, <2>1, <2>2, <2>3, <3>2
    <2> QED
        BY <1>2, <2>1, <2>2, <2>3
<1>7. \A k \in Jobs : lease[k].tok <= lease'[k].tok
    BY <1>2
<1>8. count <= count'
    BY <1>3
<1> QED
    BY <1>3, <1>5, <1>6, <1>7, <1>8, Environment

\* lockLost
LEMMA LostStep ==
    ASSUME IInv, NEW w \in Workers, pc[w] \in Held, loc' = [loc EXCEPT ![w].lost = TRUE],
           UNCHANGED <<store, erasing, lease, pc, stalled>>, faults' \in 0 .. setting.faults
    PROVE  IInv'
<1> DEFINE l == [loc[w] EXCEPT !.lost = TRUE]
<1>1. loc[w] \in Locals /\ pc \in [Workers -> Labels] /\ pc[w] \in Labels /\ HolderInv(w)
    BY DEF IInv, Types
<1>2. l \in Locals /\ l.page = loc[w].page /\ l.tok = loc[w].tok /\ l.outcome = loc[w].outcome
    BY <1>1 DEF Locals
<1>3. loc' = [loc EXCEPT ![w] = l] /\ pc' = [pc EXCEPT ![w] = pc[w]]
    BY <1>1
<1>4. Shared' /\ UNCHANGED <<log, count, lease, erasing, stalled>>
    BY StoreStays
<1>5. pc[w] = "gate" => l.outcome # "none"
    BY <1>1, <1>2 DEF HolderInv
<1>6. pc[w] # "acquire"
    BY DEF Held
<1> HIDE DEF l
<1> QED
    BY <1>1, <1>2, <1>3, <1>4, <1>5, <1>6, Notes

\* A heartbeat.
LEMMA RenewStep ==
    ASSUME IInv, NEW w \in Workers, Renew(w) PROVE IInv'
<1>1. /\ pc[w] \in Held /\ HolderInv(w) /\ Types /\ faults' \in 0 .. setting.faults
      /\ UNCHANGED <<store, erasing, pc, faults, stalled>> /\ stalled \in BOOLEAN
    BY HeldPlaces DEF IInv, Types, Shared, Renew, Beating
<1>2. Job(w) \in Jobs
    BY <1>1, AtHand DEF HolderInv
<1>3. CASE /\ lease[Job(w)].tok = loc[w].tok
           /\ lease' = [lease EXCEPT ![Job(w)].live = TRUE] /\ UNCHANGED loc
    <2>1. lease[Job(w)].tok # 0
        BY <1>1, <1>3 DEF HolderInv
    <2> QED
        BY <1>1, <1>2, <1>3, <2>1, LeaseLives
<1>4. CASE loc' = [loc EXCEPT ![w].lost = TRUE] /\ UNCHANGED lease
    BY <1>1, <1>4, LostStep
<1> QED
    BY <1>3, <1>4 DEF Renew

\* A fault within the bound.
LEMMA FaultBound ==
    ASSUME IInv, Fault PROVE faults' \in 0 .. setting.faults
<1>1. faults \in 0 .. setting.faults /\ setting.faults \in Nat
    BY Enqueued DEF IInv, Types, Shared
<1> QED
    BY <1>1 DEF Fault

\* Lost renewals, stalls and crashes.
LEMMA FaultStep ==
    ASSUME IInv, NEW w \in Workers, RenewFails(w) \/ Stall(w) \/ Crash(w) PROVE IInv'
<1>1. HolderInv(w) /\ Types /\ faults' \in 0 .. setting.faults /\ stalled \in BOOLEAN
    BY FaultBound DEF IInv, Types, Shared, RenewFails, Stall, Crash
<1>2. CASE RenewFails(w)
    BY <1>1, <1>2, LostStep, HeldPlaces DEF RenewFails, Beating
<1>3. CASE Stall(w)
    <2>1. pc[w] \in Held
        BY <1>3, HeldPlaces DEF Stall
    <2>2. Job(w) \in Jobs
        BY <1>1, <2>1, AtHand DEF HolderInv
    <2>3. /\ lease' = [lease EXCEPT ![Job(w)].live = FALSE] /\ UNCHANGED <<store, erasing, pc, loc>> /\ stalled' = TRUE
        BY <1>3 DEF Stall
    <2> QED
        BY <1>1, <2>2, <2>3, LeaseLives
<1>4. CASE Crash(w)
    <2>1. Return(w) /\ UNCHANGED <<store, erasing, lease, stalled>>
        BY <1>4 DEF Crash
    <2>2. Shared' /\ UNCHANGED <<log, count, lease, erasing, stalled>>
        BY <1>1, <2>1, StoreStays
    <2> QED
        BY <2>1, <2>2, Returns
<1> QED
    BY <1>2, <1>3, <1>4

\* The lease of a crashed worker runs out.
LEMMA ExpireStep ==
    ASSUME IInv, NEW j \in Jobs, Expire(j) PROVE IInv'
<1>1. faults \in 0 .. setting.faults /\ stalled \in BOOLEAN
    BY DEF IInv, Types, Shared
<1> QED
    BY <1>1, LeaseLives DEF Expire

\* t is s with j at position i ...
IsInsertion(t, s, i, j) ==
    /\ t \in Seq(Nat) /\ Len(t) = Len(s) + 1
    /\ \A k \in 1 .. Len(s) + 1 : t[k] = IF k < i THEN s[k] ELSE IF k = i THEN j ELSE s[k - 1]

\* ... or without its element at position i.
IsRemoval(t, s, i) ==
    /\ t \in Seq(Nat) /\ Len(t) = Len(s) - 1
    /\ \A k \in 1 .. Len(s) - 1 : t[k] = IF k < i THEN s[k] ELSE s[k + 1]

\* A job is inserted into the list.
LEMMA Inserted ==
    ASSUME NEW s \in Seq(Nat), NEW i \in 1 .. Len(s) + 1, NEW j \in Nat
    PROVE  IsInsertion(InsertAt(s, i, j), s, i, j)
<1> DEFINE a == SubSeq(s, 1, i - 1)
           b == SubSeq(s, i, Len(s))
           c == a \o <<j>>
           t == c \o b
<1>1. Len(s) \in Nat /\ i \in Nat \ {0} /\ i <= Len(s) + 1 /\ i - 1 \in Int /\ Len(s) \in Int
    OBVIOUS
<1>2. a \in Seq(Nat) /\ Len(a) = i - 1 /\ \A k \in 1 .. i - 1 : a[k] = s[k]
    <2>1. \A k \in 1 .. i - 1 : s[k] \in Nat
        BY <1>1
    <2>2. /\ a \in Seq(Nat) /\ Len(a) = IF 1 <= i - 1 THEN i - 1 - 1 + 1 ELSE 0
          /\ \A k \in 1 .. i - 1 - 1 + 1 : a[k] = s[1 + k - 1]
        BY <1>1, <2>1, SubSeqProperties
    <2> HIDE DEF a
    <2> QED
        BY <1>1, <2>2
<1>3. b \in Seq(Nat) /\ Len(b) = Len(s) - i + 1 /\ \A k \in 1 .. Len(s) - i + 1 : b[k] = s[i + k - 1]
    <2>1. \A k \in i .. Len(s) : s[k] \in Nat
        BY <1>1
    <2>2. /\ b \in Seq(Nat) /\ Len(b) = IF i <= Len(s) THEN Len(s) - i + 1 ELSE 0
          /\ \A k \in 1 .. Len(s) - i + 1 : b[k] = s[i + k - 1]
        BY <1>1, <2>1, SubSeqProperties
    <2> HIDE DEF b
    <2> QED
        BY <1>1, <2>2
<1> HIDE DEF a, b
<1>4. c \in Seq(Nat) /\ Len(c) = i /\ (\A k \in 1 .. i - 1 : c[k] = s[k]) /\ c[i] = j
    <2>1. <<j>> \in Seq(Nat) /\ Len(<<j>>) = 1 /\ <<j>>[1] = j
        OBVIOUS
    <2>2. /\ c \in Seq(Nat) /\ Len(c) = Len(a) + Len(<<j>>)
          /\ \A k \in 1 .. Len(a) + Len(<<j>>) : c[k] = IF k <= Len(a) THEN a[k] ELSE <<j>>[k - Len(a)]
        BY <1>2, <2>1, ConcatProperties
    <2> HIDE DEF c
    <2> QED
        BY <1>1, <1>2, <2>1, <2>2
<1> HIDE DEF c
<1>5. /\ t \in Seq(Nat) /\ Len(t) = Len(c) + Len(b)
      /\ \A k \in 1 .. Len(c) + Len(b) : t[k] = IF k <= Len(c) THEN c[k] ELSE b[k - Len(c)]
    BY <1>3, <1>4, ConcatProperties
<1>6. t = InsertAt(s, i, j)
    BY DEF t, c, a, b, InsertAt
<1> HIDE DEF t
<1>7. Len(t) = Len(s) + 1
    BY <1>1, <1>3, <1>4, <1>5
<1>8. ASSUME NEW k \in 1 .. Len(s) + 1 PROVE t[k] = IF k < i THEN s[k] ELSE IF k = i THEN j ELSE s[k - 1]
    <2>1. CASE k < i
        BY <1>1, <1>3, <1>4, <1>5, <1>8, <2>1, SMTT(30)
    <2>2. CASE k = i
        BY <1>1, <1>3, <1>4, <1>5, <1>8, <2>2
    <2>3. CASE k > i
        <3>1. k - i \in 1 .. Len(s) - i + 1 /\ i + (k - i) - 1 = k - 1
            BY <1>1, <1>8, <2>3
        <3>2. t[k] = b[k - i]
            BY <1>1, <1>3, <1>4, <1>5, <1>8, <2>3
        <3> QED
            BY <1>1, <1>3, <1>8, <2>3, <3>1, <3>2
    <2> QED
        BY <1>1, <1>8, <2>1, <2>2, <2>3
<1>9. IsInsertion(t, s, i, j)
    BY <1>5, <1>7, <1>8 DEF IsInsertion
<1> QED
    BY <1>6, <1>9

\* A job is removed from the list.
LEMMA Removed ==
    ASSUME NEW s \in Seq(Nat), NEW i \in 1 .. Len(s)
    PROVE  IsRemoval(RemoveAt(s, i), s, i)
<1> DEFINE a == SubSeq(s, 1, i - 1)
           b == SubSeq(s, i + 1, Len(s))
           t == a \o b
<1>1. Len(s) \in Nat /\ i \in Nat \ {0} /\ i <= Len(s) /\ i - 1 \in Int /\ Len(s) \in Int /\ i + 1 \in Int
    OBVIOUS
<1>2. a \in Seq(Nat) /\ Len(a) = i - 1 /\ \A k \in 1 .. i - 1 : a[k] = s[k]
    <2>1. \A k \in 1 .. i - 1 : s[k] \in Nat
        BY <1>1
    <2>2. /\ a \in Seq(Nat) /\ Len(a) = IF 1 <= i - 1 THEN i - 1 - 1 + 1 ELSE 0
          /\ \A k \in 1 .. i - 1 - 1 + 1 : a[k] = s[1 + k - 1]
        BY <1>1, <2>1, SubSeqProperties
    <2> HIDE DEF a
    <2> QED
        BY <1>1, <2>2
<1>3. b \in Seq(Nat) /\ Len(b) = Len(s) - i /\ \A k \in 1 .. Len(s) - i : b[k] = s[i + k]
    <2>1. \A k \in i + 1 .. Len(s) : s[k] \in Nat
        BY <1>1
    <2>2. /\ b \in Seq(Nat) /\ Len(b) = IF i + 1 <= Len(s) THEN Len(s) - (i + 1) + 1 ELSE 0
          /\ \A k \in 1 .. Len(s) - (i + 1) + 1 : b[k] = s[i + 1 + k - 1]
        BY <1>1, <2>1, SubSeqProperties
    <2> HIDE DEF b
    <2> QED
        BY <1>1, <2>2
<1> HIDE DEF a, b
<1>4. /\ t \in Seq(Nat) /\ Len(t) = Len(a) + Len(b)
      /\ \A k \in 1 .. Len(a) + Len(b) : t[k] = IF k <= Len(a) THEN a[k] ELSE b[k - Len(a)]
    BY <1>2, <1>3, ConcatProperties
<1>5. t = RemoveAt(s, i)
    BY DEF t, a, b, RemoveAt
<1> HIDE DEF t
<1>6. Len(t) = Len(s) - 1
    BY <1>1, <1>2, <1>3, <1>4
<1>7. ASSUME NEW k \in 1 .. Len(s) - 1 PROVE t[k] = IF k < i THEN s[k] ELSE s[k + 1]
    <2>1. k \in Nat /\ k \in 1 .. Len(a) + Len(b) /\ t[k] = IF k <= Len(a) THEN a[k] ELSE b[k - Len(a)]
        BY <1>1, <1>2, <1>3, <1>4, <1>7, SMTT(30)
    <2>2. CASE k < i
        <3>1. k <= Len(a) /\ k \in 1 .. i - 1
            BY <1>1, <1>2, <1>7, <2>2
        <3> QED
            BY <1>2, <2>1, <2>2, <3>1
    <2>3. CASE k >= i
        <3>1. k - (i - 1) \in 1 .. Len(s) - i /\ i + (k - (i - 1)) = k + 1 /\ ~(k <= Len(a)) /\ ~(k < i)
            BY <1>1, <1>2, <1>7, <2>1, <2>3
        <3>2. t[k] = b[k - (i - 1)]
            BY <1>2, <2>1, <3>1
        <3>3. b[k - (i - 1)] = s[k + 1]
            BY <1>3, <3>1
        <3> QED
            BY <3>1, <3>2, <3>3
    <2> QED
        BY <1>1, <2>1, <2>2, <2>3
<1>8. IsRemoval(t, s, i)
    BY <1>4, <1>6, <1>7 DEF IsRemoval
<1> QED
    BY <1>5, <1>8

\* What is listed, in terms of positions.
LEMMA ListedAt ==
    ASSUME log \in Seq(Nat), NEW j PROVE Listed(j) <=> \E i \in 1 .. Len(log) : log[i] = j
<1>1. DOMAIN log = 1 .. Len(log)
    OBVIOUS
<1> QED
    BY <1>1 DEF Listed

\* A job is enqueued.
LEMMA EnqueueStep ==
    ASSUME IInv, Enqueue PROVE IInv'
<1>1. /\ Types /\ Shared /\ TokensInv /\ log \in Seq(Nat) /\ Len(log) \in Nat
      /\ UNCHANGED <<setting, done, dead, att, own, cursor, erasing, lease, pc, loc, faults, stalled>>
    BY DEF IInv, Types, Shared, Enqueue
<1>2. /\ count \in Nat /\ setting.jobs \in Nat /\ MaxToken \in Nat /\ Jobs \subseteq Nat \ {0} /\ 1 .. setting.jobs \subseteq Jobs
    BY <1>1, Enqueued
<1>3. count' = count + 1 /\ count' \in 0 .. setting.jobs /\ count' \in Nat
    BY <1>2 DEF Enqueue
<1>4. PICK i \in 1 .. Len(log) + 1 : log' = InsertAt(log, i, count')
    BY DEF Enqueue
<1>5. PICK t, c : t = log' /\ c = count'
    OBVIOUS
<1>6. /\ t \in Seq(Nat) /\ Len(t) = Len(log) + 1
      /\ \A k \in 1 .. Len(log) + 1 : t[k] = IF k < i THEN log[k] ELSE IF k = i THEN c ELSE log[k - 1]
    <2>1. t = InsertAt(log, i, c) /\ c \in Nat
        BY <1>3, <1>4, <1>5
    <2>2. IsInsertion(t, log, i, c)
        BY <1>1, <1>4, <2>1, Inserted
    <2> QED
        BY <2>2 DEF IsInsertion
<1> DEFINE p(k) == IF k < i THEN k ELSE k - 1
<1>7. /\ \A k \in 1 .. Len(log) + 1 : k # i => p(k) \in 1 .. Len(log) /\ t[k] = log[p(k)]
      /\ \A k, m \in 1 .. Len(log) + 1 : k # i /\ m # i /\ p(k) = p(m) => k = m
      /\ t[i] = c
    BY <1>1, <1>4, <1>6, SMTT(30)
<1> HIDE DEF p
<1>8. (\A k \in 1 .. Len(log) : log[k] \in 1 .. count) /\ \A k, m \in 1 .. Len(log) : log[k] = log[m] => k = m
    BY <1>1 DEF Shared
<1>9. c \in 1 .. count' /\ c \notin 1 .. count /\ 1 .. count \subseteq 1 .. count'
    BY <1>2, <1>3, <1>5
<1>10. /\ \A k \in 1 .. Len(t) : t[k] \in 1 .. count' /\ (k # i => t[k] \in 1 .. count)
       /\ \A k, m \in 1 .. Len(t) : t[k] = t[m] => k = m
    <2>1. ASSUME NEW k \in 1 .. Len(t) PROVE t[k] \in 1 .. count' /\ (k # i => t[k] \in 1 .. count)
        BY <1>6, <1>7, <1>8, <1>9, <2>1
    <2>2. ASSUME NEW k \in 1 .. Len(t), NEW m \in 1 .. Len(t), t[k] = t[m] PROVE k = m
        <3>1. k = i <=> m = i
            BY <1>7, <1>9, <2>1, <2>2
        <3>2. CASE k # i
            <4>1. p(k) \in 1 .. Len(log) /\ p(m) \in 1 .. Len(log) /\ log[p(k)] = log[p(m)]
                BY <1>6, <1>7, <2>2, <3>1, <3>2
            <4>2. p(k) = p(m)
                BY <1>8, <4>1
            <4> QED
                BY <1>6, <1>7, <3>1, <3>2, <4>2
        <3> QED
            BY <3>1, <3>2
    <2> QED
        BY <2>1, <2>2
<1>11. Shared'
    BY <1>1, <1>3, <1>5, <1>6, <1>9, <1>10 DEF Shared
<1>12. \A j : Listed(j)' => Listed(j) \/ j = count'
    <2> SUFFICES ASSUME NEW j, Listed(j)', j # count' PROVE Listed(j)
        OBVIOUS
    <2>1. PICK k \in 1 .. Len(t) : t[k] = j
        BY <1>5, <1>6 DEF Listed
    <2>2. k # i
        BY <1>5, <1>7, <2>1
    <2> QED
        BY <1>1, <1>6, <1>7, <2>1, <2>2, ListedAt
<1>13. TokensInv'
    <2>1. \A j \in Jobs : j > count' => j > count
        BY <1>2, <1>3
    <2>2. ASSUME NEW j \in Jobs, j = count' PROVE lease[j].tok <= MaxToken /\ erasing # j
        <3>1. j > count
            BY <1>2, <1>3, <2>2
        <3> QED
            BY <1>1, <1>2, <3>1 DEF TokensInv
    <2>3. \A j \in Jobs : Listed(j)' \/ erasing = j => lease[j].tok <= MaxToken
        BY <1>1, <1>12, <2>2 DEF TokensInv
    <2>4. erasing # 0 => ~Listed(erasing)'
        <3>1. erasing # 0 => erasing \in Jobs
            BY <1>1 DEF Shared
        <3> QED
            BY <1>1, <1>12, <2>2, <3>1 DEF TokensInv
    <2> QED
        BY <1>1, <2>1, <2>3, <2>4 DEF TokensInv
<1>14. ASSUME NEW w \in Workers, pc[w] \in Held, Listed(Job(w))' PROVE Listed(Job(w))
    <2>1. Job(w)' = Job(w) /\ Job(w) \in 1 .. count
        BY <1>1, <1>14, AtHand DEF Job, IInv, HolderInv
    <2>2. Job(w) # count'
        BY <1>2, <1>3, <2>1
    <2> QED
        BY <1>5, <1>12, <1>14, <2>1, <2>2 DEF Listed
<1>15. \A j \in Jobs : lease[j].tok <= lease'[j].tok
    <2>1. \A j \in Jobs : lease[j].tok \in Nat
        BY <1>1, <1>2 DEF Shared, Lease
    <2> QED
        BY <1>1, <2>1
<1>16. count <= count'
    BY <1>2, <1>3
<1> QED
    BY <1>1, <1>11, <1>13, <1>14, <1>15, <1>16, Environment

\* A job record is deleted.
LEMMA EraseStep ==
    ASSUME IInv, NEW j \in Jobs, Erase(j) PROVE IInv'
<1>1. /\ Types /\ Shared /\ TokensInv /\ log \in Seq(Nat) /\ Len(log) \in Nat
      /\ UNCHANGED <<setting, count, done, dead, att, own, cursor, lease, pc, loc, faults, stalled>>
      /\ erasing' = j
    BY DEF IInv, Types, Shared, Erase
<1>2. count \in Nat /\ Jobs \subseteq Nat \ {0} /\ MaxToken \in Nat
    BY <1>1, Enqueued
<1>3. PICK i \in 1 .. Len(log) : log[i] = j /\ log' = RemoveAt(log, i)
    BY <1>1 DEF Erase
<1>4. PICK t : t = log'
    OBVIOUS
<1>5. /\ t \in Seq(Nat) /\ Len(t) = Len(log) - 1
      /\ \A k \in 1 .. Len(log) - 1 : t[k] = IF k < i THEN log[k] ELSE log[k + 1]
    <2>1. t = RemoveAt(log, i)
        BY <1>3, <1>4
    <2>2. IsRemoval(t, log, i)
        BY <1>1, <1>3, <2>1, Removed
    <2> QED
        BY <2>2 DEF IsRemoval
<1> DEFINE p(k) == IF k < i THEN k ELSE k + 1
<1>6. /\ \A k \in 1 .. Len(log) - 1 : p(k) \in 1 .. Len(log) /\ p(k) # i /\ t[k] = log[p(k)]
      /\ \A k, m \in 1 .. Len(log) - 1 : p(k) = p(m) => k = m
    BY <1>1, <1>3, <1>5, SMTT(30)
<1> HIDE DEF p
<1>7. (\A k \in 1 .. Len(log) : log[k] \in 1 .. count) /\ \A k, m \in 1 .. Len(log) : log[k] = log[m] => k = m
    BY <1>1 DEF Shared
<1>8. (\A k \in 1 .. Len(t) : t[k] \in 1 .. count) /\ \A k, m \in 1 .. Len(t) : t[k] = t[m] => k = m
    <2>1. \A k \in 1 .. Len(t) : t[k] \in 1 .. count
        BY <1>5, <1>6, <1>7
    <2>2. ASSUME NEW k \in 1 .. Len(t), NEW m \in 1 .. Len(t), t[k] = t[m] PROVE k = m
        <3>1. p(k) \in 1 .. Len(log) /\ p(m) \in 1 .. Len(log) /\ log[p(k)] = log[p(m)]
            BY <1>5, <1>6, <2>2
        <3>2. p(k) = p(m)
            BY <1>7, <3>1
        <3> QED
            BY <1>5, <1>6, <3>2
    <2> QED
        BY <2>1, <2>2
<1>9. Shared'
    BY <1>1, <1>4, <1>5, <1>8 DEF Shared
<1>10. \A k : Listed(k)' => Listed(k) /\ k # j
    <2> SUFFICES ASSUME NEW k, Listed(k)' PROVE Listed(k) /\ k # j
        OBVIOUS
    <2>1. PICK m \in 1 .. Len(t) : t[m] = k
        BY <1>4, <1>5 DEF Listed
    <2>2. p(m) \in 1 .. Len(log) /\ p(m) # i /\ log[p(m)] = k
        BY <1>5, <1>6, <2>1
    <2> QED
        BY <1>1, <1>3, <1>7, <2>2, ListedAt
<1>11. Listed(j) /\ j \in 1 .. count
    BY <1>1, <1>3, <1>7, ListedAt
<1>12. TokensInv'
    <2>1. ~(j > count)
        BY <1>2, <1>11
    <2> QED
        BY <1>1, <1>10, <1>11, <2>1 DEF TokensInv
<1>13. \A w \in Workers : Listed(Job(w))' => Listed(Job(w))
    BY <1>1, <1>10 DEF Job, Listed
<1>14. \A k \in Jobs : lease[k].tok <= lease'[k].tok
    <2>1. \A k \in Jobs : lease[k].tok \in Nat
        BY <1>1, <1>2 DEF Shared, Lease
    <2> QED
        BY <1>1, <2>1
<1>15. count <= count'
    BY <1>1, <1>2
<1> QED
    BY <1>1, <1>9, <1>12, <1>13, <1>14, <1>15, Environment

\* Its markers and its lease are deleted.
LEMMA EraseMarkersStep ==
    ASSUME IInv, EraseMarkers PROVE IInv'
<1> DEFINE r == [tok |-> lease[erasing].tok + 1, live |-> FALSE]
<1>1. /\ Types /\ Shared /\ TokensInv /\ erasing # 0 /\ erasing \in Jobs /\ erasing' = 0
      /\ UNCHANGED <<setting, count, log, cursor, pc, loc, faults, stalled>>
    BY DEF IInv, Types, Shared, EraseMarkers
<1>2. count \in Nat /\ Jobs \subseteq Nat \ {0} /\ MaxToken \in Nat
    BY <1>1, Enqueued
<1>3. \A k \in Jobs : lease[k].tok \in Nat
    BY <1>1, <1>2 DEF Shared, Lease
<1>4. lease[erasing].tok <= MaxToken /\ ~Listed(erasing) /\ ~(erasing > count)
    BY <1>1 DEF TokensInv
<1>5. r \in Lease /\ r.tok = lease[erasing].tok + 1 /\ r.live = FALSE
    BY <1>1, <1>2, <1>3, <1>4 DEF Lease
<1>6. lease' = [lease EXCEPT ![erasing] = r]
    BY DEF EraseMarkers
<1> HIDE DEF r
<1>7. /\ lease' \in [Jobs -> Lease] /\ lease'[erasing] = r
      /\ \A k \in Jobs : k # erasing => lease'[k] = lease[k]
    BY <1>1, <1>5, <1>6 DEF Shared
<1>8. /\ done' \subseteq 1 .. count /\ dead' \subseteq 1 .. count
      /\ att' \in [Jobs -> Nat] /\ own' \in [Jobs -> 0 .. MaxToken]
    BY <1>1, <1>2 DEF Shared, EraseMarkers
<1>9. Shared'
    BY <1>1, <1>7, <1>8 DEF Shared
<1>10. \A k : Listed(k)' <=> Listed(k)
    BY <1>1 DEF Listed
<1>11. TokensInv'
    <2>1. \A k \in Jobs : erasing' # k
        BY <1>1, <1>2
    <2> QED
        BY <1>1, <1>4, <1>5, <1>7, <1>10, <2>1 DEF TokensInv
<1>12. \A k \in Jobs : lease[k].tok <= lease'[k].tok
    BY <1>3, <1>5, <1>7
<1>13. ASSUME NEW w \in Workers, pc[w] \in Held, Listed(Job(w))' PROVE Listed(Job(w)) /\ lease'[Job(w)] = lease[Job(w)]
    <2>1. Listed(Job(w)) /\ Job(w) \in Jobs
        BY <1>1, <1>13, AtHand DEF IInv, HolderInv, Job, Listed
    <2> QED
        BY <1>4, <1>7, <2>1
<1>14. count <= count'
    BY <1>1, <1>2
<1> QED
    BY <1>1, <1>9, <1>11, <1>12, <1>13, <1>14, Environment
-----------------------------------------------------------------------------
(* The theorems about leases *)

\* The initial states.
LEMMA InitIInv == Init => IInv
<1> SUFFICES ASSUME Init PROVE IInv
    OBVIOUS
<1>1. /\ setting \in Settings /\ count = 0 /\ cursor = 0 /\ faults = 0 /\ erasing = 0 /\ stalled = FALSE
      /\ log = <<>> /\ done = {} /\ dead = {} /\ att = [j \in Jobs |-> 0] /\ own = [j \in Jobs |-> 0]
      /\ lease = [j \in Jobs |-> [tok |-> 0, live |-> FALSE]]
      /\ pc = [w \in Workers |-> "idle"] /\ loc = [w \in Workers |-> NoLocals]
    BY DEF Init
<1>2. MaxToken \in Nat /\ setting.jobs \in 0 .. MaxJobs /\ setting.faults \in Nat /\ MaxJobs \in Nat
    <2>1. setting \in [pageSize : Nat \ {0}, maxAttempts : Nat \ {0}, throws : BOOLEAN, skew : BOOLEAN,
                       erases : BOOLEAN, workers : SUBSET Workers, jobs : 0 .. MaxJobs, faults : Nat]
        BY <1>1, QueueWorkerAssumption
    <2>2. setting.jobs \in 0 .. MaxJobs /\ setting.faults \in Nat
        BY <2>1
    <2> QED
        BY <2>2, QueueWorkerAssumption
<1>3. count \in 0 .. setting.jobs /\ faults \in 0 .. setting.faults /\ cursor \in Nat /\ stalled \in BOOLEAN
    <2>1. setting.jobs \in Nat
        BY <1>2
    <2>2. 0 \in 0 .. setting.jobs /\ 0 \in 0 .. setting.faults
        BY <1>2, <2>1
    <2> QED
        BY <1>1, <2>2
<1>4. log \in Seq(Nat) /\ Len(log) = 0 /\ DOMAIN log = {}
    BY <1>1
<1>5. lease \in [Jobs -> Lease] /\ \A j \in Jobs : lease[j].tok = 0 /\ ~lease[j].live
    <2>1. [tok |-> 0, live |-> FALSE] \in Lease
        BY <1>2 DEF Lease
    <2> QED
        BY <1>1, <2>1
<1>6. att \in [Jobs -> Nat] /\ own \in [Jobs -> 0 .. MaxToken]
    BY <1>1, <1>2
<1>7. Shared
    BY <1>1, <1>3, <1>4, <1>5, <1>6 DEF Shared
<1>8. \A w \in Workers : pc[w] = "idle" /\ loc[w] = NoLocals /\ Len(loc[w].page) = 0
    BY <1>1, <1>2, Empty
<1>9. "idle" \in Labels /\ "idle" \notin Held \cup {"acquire", "gate"}
    BY DEF Labels, Held
<1>10. Types
    BY <1>1, <1>2, <1>7, <1>8, <1>9, Empty DEF Types
<1>11. TokensInv
    <2>1. \A j \in Jobs : j # 0 /\ ~Listed(j) /\ lease[j].tok <= MaxToken
        BY <1>2, <1>4, <1>5 DEF Listed, Jobs
    <2> QED
        BY <1>1, <1>5, <2>1 DEF TokensInv
<1>12. TokenInv /\ \A w \in Workers : HolderInv(w)
    BY <1>8, <1>9 DEF TokenInv, HolderInv
<1> QED
    BY <1>10, <1>11, <1>12 DEF IInv

\* Every step keeps the invariant.
LEMMA Inductive == IInv /\ [Next]_vars => IInv'
<1> SUFFICES ASSUME IInv, [Next]_vars PROVE IInv'
    OBVIOUS
<1>1. ASSUME Enqueue \/ EraseMarkers PROVE IInv'
    BY <1>1, EnqueueStep, EraseMarkersStep
<1>2. ASSUME NEW j \in Jobs, RetryJob(j) \/ Erase(j) \/ Expire(j) PROVE IInv'
    BY <1>2, EnqueueStep, EraseStep, ExpireStep DEF RetryJob
<1>3. ASSUME NEW w \in Workers, RunOnce(w) PROVE IInv'
    <2>1. ASSUME Poll(w) \/ List(w) \/ Check(w) \/ PageEnd(w) PROVE IInv'
        BY <2>1, PollStep, ListStep, CheckStep, PageEndStep
    <2>2. ASSUME Acquire(w) \/ Own(w) \/ Call(w) \/ Handle(w) \/ Gate(w) PROVE IInv'
        BY <2>2, AcquireStep, OwnStep, CallStep, GateStep
    <2>3. ASSUME Done(w) \/ Count(w) \/ Counted(w) \/ Bury(w) \/ Release(w) PROVE IInv'
        BY <2>3, MarkStep, CountStep, ReleaseStep
    <2> QED
        BY <1>3, <2>1, <2>2, <2>3 DEF RunOnce
<1>4. ASSUME NEW w \in Workers, Renew(w) \/ RenewFails(w) \/ Stall(w) \/ Crash(w) PROVE IInv'
    BY <1>4, RenewStep, FaultStep
<1>5. CASE UNCHANGED vars
    <2>1. UNCHANGED <<store, erasing, lease, pc, loc, faults, stalled>> /\ faults \in 0 .. setting.faults
        BY <1>5 DEF vars, IInv, Types, Shared
    <2>2. Types /\ Shared /\ Shared' /\ UNCHANGED <<log, count>> /\ count \in Nat
        BY <2>1, StoreStays, Enqueued DEF IInv, Types
    <2>3. \A j : Listed(j)' <=> Listed(j)
        BY <2>2 DEF Listed
    <2>4. \A j \in Jobs : lease[j].tok \in Nat
        BY <2>2, Enqueued DEF Shared, Lease
    <2>5. TokensInv' /\ count <= count' /\ \A j \in Jobs : lease[j].tok <= lease'[j].tok
        BY <2>1, <2>2, <2>3, <2>4 DEF TokensInv, IInv
    <2>6. \A w \in Workers : Listed(Job(w))' => Listed(Job(w))
        BY <2>1, <2>2 DEF Listed, Job
    <2> QED
        BY <2>1, <2>2, <2>5, <2>6, Environment
<1> QED
    BY <1>1, <1>2, <1>3, <1>4, <1>5 DEF Next

\* The inductive invariant holds in every state: no token has two workers, and while
\* nobody stalls a worker that holds a lock handle of a job in the log has its lease.
THEOREM Invariance == Spec => []IInv
<1> QED
    BY InitIInv, Inductive, PTL DEF Spec

\* processJob: for every queue, any number of workers, jobs, grants, faults and erased
\* jobs, the records keep their types and, while heartbeats renew in time, two workers
\* are never in the handler of one job in the log.
THEOREM WorkersHold == Spec => []WorkerInv
<1>1. ASSUME IInv PROVE TypeOK
    <2>1. Types /\ Shared /\ log \in Seq(Nat) /\ DOMAIN log = 1 .. Len(log)
        BY <1>1 DEF IInv, Types, Shared
    <2>2. ASSUME NEW w \in Workers
          PROVE  /\ loc[w].from \in Nat /\ loc[w].next \in Nat /\ loc[w].n \in Nat
                 /\ {loc[w].page[i] : i \in DOMAIN loc[w].page} \subseteq 1 .. count
                 /\ {loc[w].more, loc[w].all, loc[w].lost} \subseteq BOOLEAN
                 /\ loc[w].tok \in 0 .. MaxToken
                 /\ loc[w].outcome \in {"none", "ok", "threw", "missing"}
        <3>1. DOMAIN loc[w].page = 1 .. Len(loc[w].page)
            BY <2>1, AtHand
        <3>2. {loc[w].page[i] : i \in DOMAIN loc[w].page} \subseteq 1 .. count
            BY <2>1, <3>1 DEF Types
        <3> QED
            BY <2>1, <3>2, AtHand DEF Outcomes
    <2>3. pc \in [Workers -> {"idle", "list", "scan", "acquire", "own", "call", "handle", "gate",
                              "done", "count", "counted", "bury", "release"}]
        <3>1. Labels = {"idle", "list", "scan", "acquire", "own", "call", "handle", "gate",
                        "done", "count", "counted", "bury", "release"}
            BY DEF Labels, Held
        <3> QED
            BY <2>1, <3>1 DEF Types
    <2> QED
        BY <2>1, <2>2, <2>3 DEF TypeOK, Shared, Lease
<1>2. ASSUME IInv PROVE OneHandler
    <2> SUFFICES ASSUME ~stalled, NEW j \in Jobs, Listed(j)
                 PROVE  Cardinality({w \in Workers : pc[w] = "handle" /\ Job(w) = j}) <= 1
        BY DEF OneHandler
    <2> DEFINE H == {w \in Workers : pc[w] = "handle" /\ Job(w) = j}
    <2>1. ASSUME NEW v \in H, NEW w \in H PROVE v = w
        <3>1. pc[v] \in Held /\ pc[w] \in Held /\ Job(v) = j /\ Job(w) = j
            BY <2>1 DEF Held
        <3>2. loc[v].tok = lease[j].tok /\ loc[w].tok = lease[j].tok
            BY <1>2, <3>1 DEF IInv, HolderInv
        <3> QED
            BY <1>2, <3>1, <3>2 DEF IInv, TokenInv
    <2> HIDE DEF H
    <2>2. ASSUME H = {} PROVE Cardinality(H) <= 1
        <3>1. Cardinality(H) = 0
            BY <2>2, FS_EmptySet
        <3> QED
            BY <3>1
    <2>3. ASSUME H # {} PROVE Cardinality(H) <= 1
        <3>1. PICK v \in H : TRUE
            BY <2>3
        <3>2. H = {v}
            BY <2>1, <3>1
        <3>3. Cardinality(H) = 1
            BY <3>2, FS_Singleton
        <3> QED
            BY <3>3
    <2> QED
        BY <2>2, <2>3 DEF H
<1> QED
    BY <1>1, <1>2, Invariance, PTL DEF WorkerInv
-----------------------------------------------------------------------------
(* The scan: the cursor passes no job that nobody has ever claimed *)

\* Producers' clocks agree, and no job is erased.
InOrder == ~setting.skew /\ ~setting.erases

\* The job is finished, or somebody has claimed it once.
Fine(i) == Terminal(i) \/ lease[i].tok # 0

\* What the scan has passed is fine: up to the local cursor before a page is
\* listed, up to the job at hand within a page that is not the last.
PassedInv(w) ==
    /\ pc[w] = "list" => loc[w].from <= count /\ \A i \in 1 .. loc[w].from : Fine(i)
    /\ pc[w] \in {"scan", "acquire"} /\ loc[w].more =>
          /\ loc[w].next <= count /\ Len(loc[w].page) <= loc[w].next
          /\ \A k \in 1 .. Len(loc[w].page) : loc[w].page[k] = loc[w].next - Len(loc[w].page) + k
          /\ \A i \in 1 .. loc[w].next - Len(loc[w].page) : Fine(i)

ScanInv ==
    /\ Len(log) = count /\ (\A i \in 1 .. count : log[i] = i) /\ erasing = 0
    /\ cursor <= count /\ \A i \in 1 .. cursor : Fine(i)
    /\ \A w \in Workers : PassedInv(w)

\* Jobs stay finished, and claimed.
Grows == done \subseteq done' /\ dead \subseteq dead' /\ \A j \in Jobs : lease[j].tok # 0 => lease'[j].tok # 0

\* What is fine stays fine.
LEMMA FineStays ==
    ASSUME Shared, Grows, NEW i \in 1 .. count, Fine(i) PROVE Fine(i)'
<1>1. i \in Jobs
    BY Enqueued
<1> QED
    BY <1>1 DEF Fine, Terminal, Grows

\* A worker that takes no step keeps what it knows, and so does one that leaves the scan.
LEMMA PassedStays ==
    ASSUME IInv, ScanInv, Grows, count' \in Nat, count <= count', NEW w \in Workers,
           (pc'[w] = pc[w] /\ loc'[w] = loc[w]) \/ pc'[w] \notin {"list", "scan", "acquire"}
    PROVE  PassedInv(w)'
<1> SUFFICES ASSUME pc'[w] = pc[w], loc'[w] = loc[w] PROVE PassedInv(w)'
    BY DEF PassedInv
<1>1. /\ Types /\ Shared /\ count \in Nat /\ loc[w].from \in Nat /\ loc[w].next \in Nat /\ Len(loc[w].page) \in Nat
      /\ PassedInv(w)
    <2>1. Types /\ Shared /\ PassedInv(w)
        BY DEF IInv, Types, ScanInv
    <2> QED
        BY <2>1, AtHand, Enqueued
<1>2. ASSUME pc[w] = "list" PROVE loc[w].from <= count' /\ \A i \in 1 .. loc[w].from : Fine(i)'
    <2>1. loc[w].from <= count /\ \A i \in 1 .. loc[w].from : Fine(i)
        BY <1>1, <1>2 DEF PassedInv
    <2>2. \A i \in 1 .. loc[w].from : i \in 1 .. count
        BY <1>1, <2>1
    <2> QED
        BY <1>1, <2>1, <2>2, FineStays
<1>3. ASSUME pc[w] \in {"scan", "acquire"}, loc[w].more
      PROVE  /\ loc[w].next <= count' /\ Len(loc[w].page) <= loc[w].next
             /\ \A k \in 1 .. Len(loc[w].page) : loc[w].page[k] = loc[w].next - Len(loc[w].page) + k
             /\ \A i \in 1 .. loc[w].next - Len(loc[w].page) : Fine(i)'
    <2>1. /\ loc[w].next <= count /\ Len(loc[w].page) <= loc[w].next
          /\ \A k \in 1 .. Len(loc[w].page) : loc[w].page[k] = loc[w].next - Len(loc[w].page) + k
          /\ \A i \in 1 .. loc[w].next - Len(loc[w].page) : Fine(i)
        BY <1>1, <1>3 DEF PassedInv
    <2>2. \A i \in 1 .. loc[w].next - Len(loc[w].page) : i \in 1 .. count
        BY <1>1, <2>1
    <2>3. loc[w].next <= count'
        BY <1>1, <2>1
    <2> QED
        BY <1>1, <2>1, <2>2, <2>3, FineStays
<1> HIDE DEF Fine
<1> QED
    BY <1>2, <1>3 DEF PassedInv

\* A step keeps the scan's invariant when it keeps what the worker that takes it
\* knows, and moves the cursor only over what is fine.
LEMMA ScanStep ==
    ASSUME IInv, ScanInv, Grows, UNCHANGED <<log, count, erasing>>,
           cursor' = cursor \/ (cursor' \in Nat /\ cursor' <= count /\ \A i \in 1 .. cursor' : Fine(i)),
           \A w \in Workers : \/ (pc'[w] = pc[w] /\ loc'[w] = loc[w]) \/ pc'[w] \notin {"list", "scan", "acquire"}
                              \/ PassedInv(w)'
    PROVE  ScanInv'
<1>1. Shared /\ count \in Nat /\ cursor \in Nat /\ count <= count' /\ count' \in Nat
    <2>1. Shared /\ cursor \in Nat
        BY DEF IInv, Types, Shared
    <2>2. count \in Nat
        BY <2>1, Enqueued
    <2> QED
        BY <2>1, <2>2
<1>2. ASSUME NEW w \in Workers PROVE PassedInv(w)'
    <2>1. CASE (pc'[w] = pc[w] /\ loc'[w] = loc[w]) \/ pc'[w] \notin {"list", "scan", "acquire"}
        BY <1>1, <2>1, PassedStays
    <2> QED
        BY <2>1
<1> HIDE DEF PassedInv, Fine
<1>3. cursor' \in Nat /\ cursor' <= count /\ \A i \in 1 .. cursor' : Fine(i)
    BY <1>1 DEF ScanInv
<1>4. \A i \in 1 .. cursor' : i \in 1 .. count
    BY <1>1, <1>3
<1>5. \A i \in 1 .. cursor' : Fine(i)'
    BY <1>1, <1>3, <1>4, FineStays
<1> QED
    BY <1>2, <1>3, <1>5 DEF ScanInv

\* A job is appended.
LEMMA AppendKeeps ==
    ASSUME IInv, ScanInv, InOrder, Enqueue PROVE ScanInv'
<1>1. /\ Shared /\ log \in Seq(Nat) /\ Len(log) = count /\ (\A i \in 1 .. count : log[i] = i) /\ erasing = 0
      /\ cursor \in Nat /\ cursor <= count
      /\ UNCHANGED <<setting, done, dead, att, own, cursor, erasing, lease, pc, loc, faults, stalled>>
    BY DEF IInv, Types, Shared, ScanInv, Enqueue
<1>2. count \in Nat /\ count' = count + 1 /\ count' \in Nat /\ count <= count'
    <2>1. count \in Nat
        BY <1>1, Enqueued
    <2>2. count' = count + 1
        BY DEF Enqueue
    <2> QED
        BY <2>1, <2>2
<1>3. count + 1 \in 1 .. Len(log) + 1 /\ log' = InsertAt(log, count + 1, count + 1)
    BY <1>1, <1>2 DEF Enqueue, InOrder
<1>4. PICK t : t = log'
    OBVIOUS
<1>5. /\ Len(t) = count + 1
      /\ \A k \in 1 .. count + 1 :
            t[k] = IF k < count + 1 THEN log[k] ELSE IF k = count + 1 THEN count + 1 ELSE log[k - 1]
    <2>1. t = InsertAt(log, count + 1, count + 1) /\ count + 1 \in Nat
        BY <1>2, <1>3, <1>4
    <2>2. log \in Seq(Nat)
        BY <1>1
    <2>3. IsInsertion(t, log, count + 1, count + 1)
        BY <1>3, <2>1, <2>2, Inserted
    <2>4. /\ Len(t) = Len(log) + 1
          /\ \A k \in 1 .. Len(log) + 1 :
                   t[k] = IF k < count + 1 THEN log[k] ELSE IF k = count + 1 THEN count + 1 ELSE log[k - 1]
        BY <2>3 DEF IsInsertion
    <2> QED
        BY <1>1, <2>4
<1>6. Len(t) = count' /\ \A k \in 1 .. count' : t[k] = k
    BY <1>1, <1>2, <1>5
<1>7. Grows
    BY <1>1 DEF Grows
<1>8. \A w \in Workers : PassedInv(w)'
    BY <1>1, <1>2, <1>7, PassedStays
<1>9. \A i \in 1 .. cursor : Fine(i)'
    <2>1. \A i \in 1 .. cursor : i \in 1 .. count /\ Fine(i)
        BY <1>1, <1>2 DEF ScanInv
    <2> QED
        BY <1>1, <1>7, <2>1, FineStays
<1>10. cursor <= count'
    BY <1>1, <1>2
<1> HIDE DEF Fine, PassedInv
<1> QED
    BY <1>1, <1>4, <1>6, <1>8, <1>9, <1>10 DEF ScanInv

\* A worker leaves the scan, and the cursor stays.
LEMMA Leaves ==
    ASSUME IInv, ScanInv, Grows, UNCHANGED <<log, count, erasing, cursor>>, NEW w \in Workers,
           pc' = [pc EXCEPT ![w] = pc'[w]], pc'[w] \notin {"list", "scan", "acquire"},
           \A v \in Workers : v # w => loc'[v] = loc[v]
    PROVE  ScanInv'
<1>1. pc \in [Workers -> Labels]
    BY DEF IInv, Types
<1>2. \A v \in Workers : v # w => pc'[v] = pc[v]
    BY <1>1
<1>3. \A v \in Workers : \/ (pc'[v] = pc[v] /\ loc'[v] = loc[v]) \/ pc'[v] \notin {"list", "scan", "acquire"}
                         \/ PassedInv(v)'
    BY <1>2
<1> QED
    BY <1>3, ScanStep

\* runOnce reads the cursor.
LEMMA PollKeeps ==
    ASSUME IInv, ScanInv, NEW w \in Workers, Poll(w) PROVE ScanInv'
<1> DEFINE l == [loc[w] EXCEPT !.from = cursor]
<1>1. /\ Shared /\ loc \in [Workers -> Locals] /\ loc[w] \in Locals /\ pc \in [Workers -> Labels]
      /\ cursor <= count /\ \A i \in 1 .. cursor : Fine(i)
    BY DEF IInv, Types, ScanInv
<1>2. l.from = cursor
    BY <1>1 DEF Locals
<1>3. loc' = [loc EXCEPT ![w] = l] /\ pc' = [pc EXCEPT ![w] = "list"]
    BY DEF Poll, Go
<1>4. UNCHANGED <<log, count, erasing, cursor, done, dead, lease>>
    BY DEF Poll, store
<1> HIDE DEF l
<1>5. pc'[w] = "list" /\ loc'[w] = l /\ \A v \in Workers : v # w => pc'[v] = pc[v] /\ loc'[v] = loc[v]
    BY <1>1, <1>3
<1>6. Grows /\ \A i : Fine(i)' <=> Fine(i)
    BY <1>4 DEF Grows, Fine, Terminal
<1> HIDE DEF Fine
<1>7. PassedInv(w)'
    BY <1>1, <1>2, <1>4, <1>5, <1>6 DEF PassedInv
<1> QED
    BY <1>4, <1>5, <1>6, <1>7, ScanStep

\* A page is listed: the jobs after the local cursor.
LEMMA ListKeeps ==
    ASSUME IInv, ScanInv, NEW w \in Workers, List(w) PROVE ScanInv'
<1> DEFINE from == loc[w].from
           next == from + setting.pageSize
           m == IF next < Len(log) THEN next ELSE Len(log)
           page == SubSeq(log, from + 1, m)
           more == next < Len(log)
           l == [NoLocals EXCEPT !.page = page, !.next = next, !.more = more]
<1>1. /\ Types /\ Shared /\ log \in Seq(Nat) /\ Len(log) \in Nat /\ from \in Nat /\ setting.pageSize \in Nat \ {0}
      /\ pc \in [Workers -> Labels] /\ loc \in [Workers -> Locals] /\ pc[w] = "list" /\ count \in Nat
    <2>1. Types /\ Shared /\ log \in Seq(Nat) /\ pc \in [Workers -> Labels] /\ loc \in [Workers -> Locals] /\ pc[w] = "list"
        BY DEF IInv, Types, Shared, List
    <2>2. from \in Nat
        BY <2>1, AtHand
    <2> QED
        BY <2>1, <2>2, Enqueued
<1>2. Len(log) = count /\ (\A i \in 1 .. count : log[i] = i) /\ from <= count /\ \A i \in 1 .. from : Fine(i)
    BY <1>1 DEF ScanInv, PassedInv
<1>3. next \in Nat /\ from < next /\ m \in Nat /\ m <= Len(log)
    BY <1>1
<1>4. /\ Len(page) = IF from + 1 <= m THEN m - from ELSE 0
      /\ \A i \in 1 .. Len(page) : page[i] = log[from + i]
    BY <1>1, <1>3, Page
<1>5. ASSUME more PROVE next <= count /\ Len(page) = next - from /\ \A i \in 1 .. Len(page) : page[i] = from + i
    <2>1. m = next /\ next <= count /\ from + 1 <= m
        BY <1>1, <1>2, <1>3, <1>5
    <2> HIDE DEF page, next, m, from
    <2>2. Len(page) = next - from
        BY <1>4, <2>1
    <2>3. \A i \in 1 .. next - from : from + i \in 1 .. count
        <3>1. from \in Nat /\ next \in Nat /\ count \in Nat /\ next <= count
            BY <1>1, <1>3, <2>1
        <3> HIDE <1>1, <1>2, <1>3, <1>4
        <3> QED
            BY <3>1
    <2> QED
        BY <1>2, <1>4, <2>1, <2>2, <2>3
<1>6. loc' = [loc EXCEPT ![w] = l] /\ pc' = [pc EXCEPT ![w] = "scan"]
    BY DEF List, Go
<1>7. UNCHANGED <<log, count, erasing, cursor, done, dead, lease>>
    BY DEF List, store
<1> HIDE DEF page, next, more
<1>8. l.page = page /\ l.next = next /\ l.more = more
    BY DEF NoLocals
<1> HIDE DEF l
<1>9. pc'[w] = "scan" /\ loc'[w] = l /\ \A v \in Workers : v # w => pc'[v] = pc[v] /\ loc'[v] = loc[v]
    BY <1>1, <1>6
<1>10. Grows /\ \A i : Fine(i)' <=> Fine(i)
    BY <1>7 DEF Grows, Fine, Terminal
<1> HIDE DEF Fine
<1>11. ASSUME more
       PROVE  /\ next <= count /\ Len(page) <= next
              /\ \A k \in 1 .. Len(page) : page[k] = next - Len(page) + k
              /\ \A i \in 1 .. next - Len(page) : Fine(i)
    <2> HIDE DEF from
    <2>1. next - Len(page) = from /\ Len(page) <= next
        <3>1. from \in Nat /\ next \in Nat /\ Len(page) = next - from
            BY <1>1, <1>3, <1>5, <1>11
        <3> QED
            BY <3>1
    <2>2. \A k \in 1 .. Len(page) : page[k] = from + k
        BY <1>5, <1>11
    <2> QED
        BY <1>2, <1>5, <1>11, <2>1, <2>2
<1>12. PassedInv(w)'
    BY <1>7, <1>8, <1>9, <1>10, <1>11 DEF PassedInv
<1> QED
    BY <1>7, <1>9, <1>10, <1>12, ScanStep

\* The job at hand is passed once it is fine.
LEMMA SkipKeeps ==
    ASSUME IInv, ScanInv, NEW w \in Workers, pc[w] \in {"scan", "acquire"}, loc[w].page # <<>>, Fine(Job(w)),
           Skip(w), pc' = [pc EXCEPT ![w] = "scan"], UNCHANGED <<store, erasing, lease>>
    PROVE  ScanInv'
<1> DEFINE rest == Tail(loc[w].page)
           l == [loc[w] EXCEPT !.page = rest]
<1>1. Types /\ Shared /\ loc \in [Workers -> Locals] /\ loc[w] \in Locals /\ pc \in [Workers -> Labels]
    BY DEF IInv, Types
<1>2. /\ Len(rest) = Len(loc[w].page) - 1 /\ Len(loc[w].page) \in Nat \ {0}
      /\ \A i \in 1 .. Len(rest) : rest[i] = loc[w].page[i + 1]
    BY <1>1, Rest
<1>3. loc' = [loc EXCEPT ![w] = l]
    BY DEF Skip
<1>4. UNCHANGED <<log, count, erasing, cursor, done, dead, lease>>
    BY DEF store
<1>5. loc[w].next \in Nat /\ Job(w) = loc[w].page[1]
    BY <1>1, AtHand
<1> HIDE DEF rest
<1>6. l.page = rest /\ l.next = loc[w].next /\ l.more = loc[w].more
    BY <1>1 DEF Locals
<1> HIDE DEF l
<1>7. pc'[w] = "scan" /\ loc'[w] = l /\ \A v \in Workers : v # w => pc'[v] = pc[v] /\ loc'[v] = loc[v]
    BY <1>1, <1>3
<1>8. Grows /\ \A i : Fine(i)' <=> Fine(i)
    BY <1>4 DEF Grows, Fine, Terminal
<1> HIDE DEF Fine
<1>9. ASSUME loc[w].more
      PROVE  /\ loc[w].next <= count /\ Len(rest) <= loc[w].next
             /\ \A k \in 1 .. Len(rest) : rest[k] = loc[w].next - Len(rest) + k
             /\ \A i \in 1 .. loc[w].next - Len(rest) : Fine(i)
    <2> DEFINE n == loc[w].next
               p == Len(loc[w].page)
    <2>1. /\ n <= count /\ p <= n /\ (\A k \in 1 .. p : loc[w].page[k] = n - p + k)
          /\ \A i \in 1 .. n - p : Fine(i)
        BY <1>9 DEF ScanInv, PassedInv
    <2>2. n \in Nat /\ p \in Nat \ {0} /\ Len(rest) = p - 1 /\ p <= n
        BY <1>2, <1>5, <2>1
    <2> HIDE DEF n, p
    <2>3. Len(rest) <= n /\ n - Len(rest) = n - p + 1 /\ \A k \in 1 .. Len(rest) : k + 1 \in 1 .. p /\ k \in Nat
        BY <2>2
    <2>4. \A k \in 1 .. Len(rest) : rest[k] = n - p + (k + 1)
        BY <1>2, <2>1, <2>3 DEF p
    <2>5. \A k \in 1 .. Len(rest) : n - p + (k + 1) = n - Len(rest) + k
        BY <2>2
    <2>6. loc[w].page[1] = n - p + 1
        BY <2>1, <2>2
    <2>7. \A i \in 1 .. n - p + 1 : i \in 1 .. n - p \/ i = n - p + 1
        BY <2>2
    <2>8. \A i \in 1 .. n - Len(rest) : Fine(i)
        BY <1>5, <2>1, <2>3, <2>6, <2>7
    <2> QED
        BY <2>1, <2>3, <2>4, <2>5, <2>8 DEF n
<1>10. PassedInv(w)'
    BY <1>4, <1>6, <1>7, <1>8, <1>9 DEF PassedInv
<1> QED
    BY <1>4, <1>7, <1>8, <1>10, ScanStep

\* A terminal job is passed; another one is wanted.
LEMMA CheckKeeps ==
    ASSUME IInv, ScanInv, NEW w \in Workers, Check(w) PROVE ScanInv'
<1>1. /\ loc \in [Workers -> Locals] /\ loc[w] \in Locals /\ pc \in [Workers -> Labels]
      /\ pc[w] = "scan" /\ loc[w].page # <<>> /\ UNCHANGED <<store, erasing, lease>> /\ PassedInv(w)
    BY DEF IInv, Types, ScanInv, Check
<1>2. CASE Terminal(Job(w)) /\ Skip(w) /\ UNCHANGED pc
    <2>1. Fine(Job(w)) /\ pc' = [pc EXCEPT ![w] = "scan"] /\ pc[w] \in {"scan", "acquire"}
        BY <1>1, <1>2 DEF Fine
    <2> QED
        BY <1>1, <1>2, <2>1, SkipKeeps
<1>3. CASE loc' = [loc EXCEPT ![w].all = FALSE] /\ Go(w, "acquire")
    <2> DEFINE l == [loc[w] EXCEPT !.all = FALSE]
    <2>1. l.page = loc[w].page /\ l.next = loc[w].next /\ l.more = loc[w].more
        BY <1>1 DEF Locals
    <2>2. loc' = [loc EXCEPT ![w] = l] /\ pc' = [pc EXCEPT ![w] = "acquire"]
        BY <1>3 DEF Go
    <2>3. UNCHANGED <<log, count, erasing, cursor, done, dead, lease>>
        BY <1>1 DEF store
    <2> HIDE DEF l
    <2>4. pc'[w] = "acquire" /\ loc'[w] = l /\ \A v \in Workers : v # w => pc'[v] = pc[v] /\ loc'[v] = loc[v]
        BY <1>1, <2>2
    <2>5. Grows /\ \A i : Fine(i)' <=> Fine(i)
        BY <2>3 DEF Grows, Fine, Terminal
    <2> HIDE DEF Fine
    <2>6. PassedInv(w)'
        BY <1>1, <2>1, <2>3, <2>4, <2>5 DEF PassedInv
    <2> QED
        BY <2>3, <2>4, <2>5, <2>6, ScanStep
<1> QED
    BY <1>2, <1>3 DEF Check

\* At the end of a page that is not the last everything before the next one is fine.
LEMMA PageEndKeeps ==
    ASSUME IInv, ScanInv, NEW w \in Workers, PageEnd(w) PROVE ScanInv'
<1>1. /\ Types /\ loc \in [Workers -> Locals] /\ loc[w] \in Locals /\ pc \in [Workers -> Labels]
      /\ pc[w] = "scan" /\ loc[w].page = <<>> /\ UNCHANGED <<log, count, erasing, done, dead, lease>> /\ PassedInv(w)
    BY DEF IInv, Types, ScanInv, PageEnd
<1>2. Grows /\ \A i : Fine(i)' <=> Fine(i)
    BY <1>1 DEF Grows, Fine, Terminal
<1>3. CASE Return(w) /\ UNCHANGED cursor
    <2>1. /\ pc' = [pc EXCEPT ![w] = pc'[w]] /\ pc'[w] \notin {"list", "scan", "acquire"}
          /\ \A v \in Workers : v # w => loc'[v] = loc[v]
        BY <1>1, <1>3 DEF Return, Go
    <2> QED
        BY <1>1, <1>2, <1>3, <2>1, Leaves
<1>4. CASE /\ loc[w].more /\ cursor' = IF loc[w].all THEN loc[w].next ELSE cursor
           /\ loc' = [loc EXCEPT ![w].from = loc[w].next] /\ Go(w, "list")
    <2> DEFINE l == [loc[w] EXCEPT !.from = loc[w].next]
    <2>1. l.from = loc[w].next
        BY <1>1 DEF Locals
    <2>2. loc' = [loc EXCEPT ![w] = l] /\ pc' = [pc EXCEPT ![w] = "list"]
        BY <1>4 DEF Go
    <2> HIDE DEF l
    <2>3. pc'[w] = "list" /\ loc'[w] = l /\ \A v \in Workers : v # w => pc'[v] = pc[v] /\ loc'[v] = loc[v]
        BY <1>1, <2>2
    <2>4. loc[w].next \in Nat /\ Len(loc[w].page) = 0
        BY <1>1, AtHand
    <2>5. loc[w].next - 0 = loc[w].next
        BY <2>4
    <2> HIDE DEF Fine
    <2>6. loc[w].next <= count /\ \A i \in 1 .. loc[w].next : Fine(i)
        BY <1>1, <1>4, <2>4, <2>5 DEF PassedInv
    <2>7. PassedInv(w)'
        BY <1>1, <1>2, <2>1, <2>3, <2>6 DEF PassedInv
    <2>8. cursor' = cursor \/ (cursor' \in Nat /\ cursor' <= count /\ \A i \in 1 .. cursor' : Fine(i))
        BY <1>4, <2>4, <2>6
    <2> QED
        BY <1>1, <1>2, <2>3, <2>7, <2>8, ScanStep
<1> QED
    BY <1>3, <1>4 DEF PageEnd

\* A job is claimed, or its lease is live and so it was claimed before.
LEMMA AcquireKeeps ==
    ASSUME IInv, ScanInv, NEW w \in Workers, Acquire(w) PROVE ScanInv'
<1> DEFINE j == Job(w)
<1>1. /\ Types /\ Shared /\ HolderInv(w) /\ loc \in [Workers -> Locals] /\ pc \in [Workers -> Labels]
      /\ loc[w].page # <<>> /\ pc[w] = "acquire" /\ pc[w] \in {"scan", "acquire"}
      /\ UNCHANGED <<store, erasing>> /\ TokensInv
    BY DEF IInv, Types, HolderInv, Acquire
<1>2. j \in Jobs
    BY <1>1, AtHand
<1>3. CASE /\ lease' = [lease EXCEPT ![j] = [tok |-> @.tok + 1, live |-> TRUE]]
           /\ loc' = [loc EXCEPT ![w].tok = lease[j].tok + 1]
           /\ Go(w, "own")
    <2>1. lease \in [Jobs -> Lease] /\ lease[j].tok \in Nat
        <3>1. lease \in [Jobs -> Lease] /\ MaxToken \in Nat
            BY <1>1, Enqueued DEF Shared
        <3> QED
            BY <1>2, <3>1 DEF Lease
    <2>2. lease'[j].tok # 0 /\ \A k \in Jobs : k # j => lease'[k] = lease[k]
        BY <1>2, <1>3, <2>1
    <2>3. UNCHANGED <<log, count, erasing, cursor, done, dead>>
        BY <1>1 DEF store
    <2>4. Grows
        BY <2>2, <2>3 DEF Grows
    <2>5. /\ pc' = [pc EXCEPT ![w] = pc'[w]] /\ pc'[w] \notin {"list", "scan", "acquire"}
          /\ \A v \in Workers : v # w => loc'[v] = loc[v]
        BY <1>1, <1>3 DEF Go
    <2> QED
        BY <2>3, <2>4, <2>5, Leaves
<1>4. CASE lease[j].live /\ Skip(w) /\ Go(w, "scan") /\ UNCHANGED lease
    <2>1. Fine(Job(w)) /\ pc' = [pc EXCEPT ![w] = "scan"]
        BY <1>1, <1>2, <1>4 DEF Fine, TokensInv, Go
    <2> QED
        BY <1>1, <1>4, <2>1, SkipKeeps
<1> QED
    BY <1>3, <1>4 DEF Acquire

\* A worker that holds a lock handle changes no list, no cursor, and its locals only.
HeldMove(w) ==
    /\ UNCHANGED <<log, count, erasing, cursor>>
    /\ pc' = [pc EXCEPT ![w] = pc'[w]] /\ pc'[w] \notin {"list", "scan", "acquire"}
    /\ \A v \in Workers : v # w => loc'[v] = loc[v]

\* What a worker does outside the scan moves no cursor, and unmakes no marker and no claim.
LEMMA HeldKeeps ==
    ASSUME IInv, ScanInv, NEW w \in Workers,
           \/ Own(w) \/ Call(w) \/ Handle(w) \/ Gate(w) \/ Done(w) \/ Count(w) \/ Counted(w) \/ Bury(w)
           \/ RenewFails(w) \/ Crash(w)
    PROVE  ScanInv'
<1>1. Types /\ HolderInv(w) /\ loc \in [Workers -> Locals] /\ pc \in [Workers -> Labels]
    BY DEF IInv, Types
<1>2. ASSUME Own(w) \/ Done(w) \/ Counted(w) \/ Bury(w)
      PROVE  HeldMove(w) /\ Grows
    <2>1. UNCHANGED <<log, count, erasing, cursor, lease, loc>>
        BY <1>2 DEF Own, Done, Counted, Bury
    <2>2. PICK label \in {"call", "release", "bury"} : pc' = [pc EXCEPT ![w] = label]
        BY <1>2 DEF Own, Done, Counted, Bury, Go
    <2>3. pc'[w] = label
        BY <1>1, <2>2
    <2>4. done \subseteq done' /\ dead \subseteq dead'
        BY <1>2 DEF Own, Done, Counted, Bury
    <2> QED
        BY <2>1, <2>2, <2>3, <2>4 DEF HeldMove, Grows
<1>3. ASSUME Call(w) \/ Handle(w) \/ Count(w) \/ Crash(w)
      PROVE  HeldMove(w) /\ Grows
    <2>1. UNCHANGED <<log, count, erasing, cursor, lease, done, dead>>
        BY <1>3 DEF Call, Handle, Count, Crash, store
    <2>2. PICK label \in {"handle", "gate", "counted", "idle"} : pc' = [pc EXCEPT ![w] = label]
        BY <1>3 DEF Call, Handle, Count, Crash, Return, Go
    <2>3. pc'[w] = label
        BY <1>1, <2>2
    <2>4. \A v \in Workers : v # w => loc'[v] = loc[v]
        BY <1>1, <1>3 DEF Call, Handle, Count, Crash, Return
    <2> QED
        BY <2>1, <2>2, <2>3, <2>4 DEF HeldMove, Grows
<1>4. ASSUME Gate(w) PROVE HeldMove(w) /\ Grows
    <2> DEFINE label == IF ~StillOwns(w) THEN "release"
                        ELSE [ok |-> "done", threw |-> "count", missing |-> "bury"][loc[w].outcome]
    <2>1. pc' = [pc EXCEPT ![w] = label] /\ pc[w] = "gate" /\ UNCHANGED <<store, erasing, lease, loc>>
        BY <1>4 DEF Gate, Go
    <2>2. loc[w].outcome \in {"ok", "threw", "missing"}
        BY <1>1, <2>1, AtHand DEF HolderInv, Outcomes
    <2>3. label \in {"release", "done", "count", "bury"}
        BY <2>2
    <2> HIDE DEF label
    <2>4. pc'[w] = label
        BY <1>1, <2>1
    <2> QED
        BY <2>1, <2>3, <2>4 DEF HeldMove, Grows, store
<1>5. ASSUME RenewFails(w) PROVE HeldMove(w) /\ Grows
    <2>1. pc[w] \in Held /\ UNCHANGED <<store, erasing, lease, pc>> /\ loc' = [loc EXCEPT ![w].lost = TRUE]
        BY <1>5, HeldPlaces DEF RenewFails, Beating
    <2>2. pc'[w] \notin {"list", "scan", "acquire"} /\ pc' = [pc EXCEPT ![w] = pc'[w]]
        BY <1>1, <2>1 DEF Held
    <2>3. \A v \in Workers : v # w => loc'[v] = loc[v]
        BY <1>1, <2>1
    <2> QED
        BY <2>1, <2>2, <2>3 DEF HeldMove, Grows, store
<1> QED
    BY <1>2, <1>3, <1>4, <1>5, Leaves DEF HeldMove

\* A lease that is renewed, released or runs out keeps its token.
LEMMA LeaseKeeps ==
    ASSUME IInv, ScanInv, NEW w \in Workers, Release(w) \/ Renew(w) \/ Stall(w) PROVE ScanInv'
<1> DEFINE j == Job(w)
<1>1. /\ Types /\ Shared /\ HolderInv(w) /\ loc \in [Workers -> Locals] /\ pc \in [Workers -> Labels]
    BY DEF IInv, Types
<1>2. pc[w] \in Held
    BY HeldPlaces DEF Held, Release, Renew, Beating, Stall
<1>3. j \in Jobs /\ lease \in [Jobs -> Lease] /\ lease[j].live \in BOOLEAN
    BY <1>1, <1>2, AtHand DEF HolderInv, Shared, Lease
<1>4. UNCHANGED <<log, count, erasing, cursor, done, dead>>
    BY DEF Release, Renew, Stall, store
<1>5. \A k \in Jobs : lease'[k].tok = lease[k].tok
    <2>1. CASE UNCHANGED lease
        BY <2>1
    <2>2. CASE \E b \in BOOLEAN : lease' = [lease EXCEPT ![j].live = b]
        BY <1>1, <1>3, <2>2, LiveOnly
    <2>3. Release(w) => \E b \in BOOLEAN : lease' = [lease EXCEPT ![j].live = b]
        BY <1>3 DEF Release
    <2> QED
        BY <2>1, <2>2, <2>3 DEF Renew, Stall
<1>6. Grows
    BY <1>4, <1>5 DEF Grows
<1>7. pc' = [pc EXCEPT ![w] = pc'[w]] /\ pc'[w] \notin {"list", "scan", "acquire"}
    BY <1>1, <1>2 DEF Release, Renew, Stall, Return, Go, Held
<1>8. \A v \in Workers : v # w => loc'[v] = loc[v]
    BY <1>1 DEF Release, Renew, Stall, Return
<1> QED
    BY <1>4, <1>6, <1>7, <1>8, Leaves

\* A lease nobody holds runs out.
LEMMA ExpireKeeps ==
    ASSUME IInv, ScanInv, NEW j \in Jobs, Expire(j) PROVE ScanInv'
<1>1. Shared /\ lease' = [lease EXCEPT ![j].live = FALSE] /\ UNCHANGED <<log, count, erasing, cursor, done, dead, pc, loc>>
    BY DEF IInv, Types, Expire, store
<1>2. \A k \in Jobs : lease'[k].tok = lease[k].tok
    BY <1>1, LiveOnly
<1>3. Grows
    BY <1>1, <1>2 DEF Grows
<1> QED
    BY <1>1, <1>3, ScanStep

\* The scan's invariant is inductive while producers' clocks agree and no job is erased.
LEMMA ScanInductive == IInv /\ (InOrder => ScanInv) /\ [Next]_vars => (InOrder => ScanInv)'
<1> SUFFICES ASSUME IInv, InOrder => ScanInv, [Next]_vars, InOrder' PROVE ScanInv'
    OBVIOUS
<1>1. UNCHANGED setting
    <2>1. ASSUME NEW w \in Workers, RunOnce(w) PROVE UNCHANGED setting
        <3>1. ASSUME Poll(w) \/ List(w) \/ Check(w) \/ PageEnd(w) \/ Acquire(w) PROVE UNCHANGED setting
            BY <3>1 DEF Poll, List, Check, PageEnd, Acquire, store
        <3>2. ASSUME Own(w) \/ Call(w) \/ Handle(w) \/ Gate(w) PROVE UNCHANGED setting
            BY <3>2 DEF Own, Call, Handle, Gate, store
        <3>3. ASSUME Done(w) \/ Count(w) \/ Counted(w) \/ Bury(w) \/ Release(w) PROVE UNCHANGED setting
            BY <3>3 DEF Done, Count, Counted, Bury, Release, store
        <3> QED
            BY <2>1, <3>1, <3>2, <3>3 DEF RunOnce
    <2>2. ASSUME NEW w \in Workers, Renew(w) \/ RenewFails(w) \/ Stall(w) \/ Crash(w) PROVE UNCHANGED setting
        BY <2>2 DEF Renew, RenewFails, Stall, Crash, store
    <2>3. ASSUME Enqueue \/ EraseMarkers PROVE UNCHANGED setting
        BY <2>3 DEF Enqueue, EraseMarkers
    <2>4. ASSUME NEW j \in Jobs, RetryJob(j) \/ Erase(j) \/ Expire(j) PROVE UNCHANGED setting
        BY <2>3, <2>4 DEF RetryJob, Erase, Expire, store
    <2>5. ASSUME UNCHANGED vars PROVE UNCHANGED setting
        BY <2>5 DEF vars, store
    <2> QED
        BY <2>1, <2>2, <2>3, <2>4, <2>5 DEF Next
<1>2. InOrder /\ ScanInv /\ erasing = 0 /\ ~setting.erases
    BY <1>1 DEF InOrder, ScanInv
<1>3. ASSUME Enqueue \/ EraseMarkers PROVE ScanInv'
    BY <1>2, <1>3, AppendKeeps DEF EraseMarkers
<1>4. ASSUME NEW j \in Jobs, RetryJob(j) \/ Erase(j) \/ Expire(j) PROVE ScanInv'
    BY <1>2, <1>4, AppendKeeps, ExpireKeeps DEF RetryJob, Erase
<1>5. ASSUME NEW w \in Workers, RunOnce(w) PROVE ScanInv'
    <2>1. ASSUME Poll(w) \/ List(w) \/ Check(w) \/ PageEnd(w) \/ Acquire(w) PROVE ScanInv'
        BY <1>2, <2>1, PollKeeps, ListKeeps, CheckKeeps, PageEndKeeps, AcquireKeeps
    <2>2. ASSUME Own(w) \/ Call(w) \/ Handle(w) \/ Gate(w) \/ Done(w) \/ Count(w) \/ Counted(w) \/ Bury(w) PROVE ScanInv'
        BY <1>2, <2>2, HeldKeeps
    <2> QED
        BY <1>2, <1>5, <2>1, <2>2, LeaseKeeps DEF RunOnce
<1>6. ASSUME NEW w \in Workers, Renew(w) \/ RenewFails(w) \/ Stall(w) \/ Crash(w) PROVE ScanInv'
    BY <1>2, <1>6, HeldKeeps, LeaseKeeps
<1>7. CASE UNCHANGED vars
    <2>1. UNCHANGED <<log, count, erasing, cursor, done, dead, lease, pc, loc>>
        BY <1>7 DEF vars, store
    <2>2. Grows
        BY <2>1 DEF Grows
    <2> QED
        BY <1>2, <2>1, <2>2, ScanStep
<1> QED
    BY <1>3, <1>4, <1>5, <1>6, <1>7 DEF Next

\* The initial states.
LEMMA InitScan == Init => ScanInv
<1> SUFFICES ASSUME Init PROVE ScanInv
    OBVIOUS
<1>1. log = <<>> /\ count = 0 /\ erasing = 0 /\ cursor = 0 /\ \A w \in Workers : pc[w] = "idle"
    BY DEF Init
<1>2. Len(log) = count /\ cursor <= count /\ 1 .. count = {} /\ 1 .. cursor = {}
    BY <1>1
<1>3. \A w \in Workers : PassedInv(w)
    BY <1>1 DEF PassedInv
<1> HIDE DEF PassedInv
<1> QED
    BY <1>1, <1>2, <1>3 DEF ScanInv


\* WorkStore.list and QCURSOR: while the producers' clocks agree on the order of the
\* jobs and none is erased, no job that nobody has ever claimed is behind the persisted
\* cursor, for any number of workers that scan, claim, crash and stall meanwhile.
THEOREM NothingSkipped == Spec => []UnclaimedStaysAhead
<1>1. ASSUME IInv, InOrder => ScanInv PROVE UnclaimedStaysAhead
    <2> SUFFICES ASSUME InOrder, NEW i \in DOMAIN log, i <= cursor
                 PROVE  Terminal(log[i]) \/ lease[log[i]].tok > 0
        BY DEF UnclaimedStaysAhead, InOrder
    <2>1. ScanInv /\ Shared /\ log \in Seq(Nat)
        BY <1>1 DEF IInv, Types, Shared
    <2>2. i \in 1 .. count /\ log[i] = i /\ i \in 1 .. cursor
        <3>1. Len(log) = count /\ cursor \in Nat /\ \A k \in 1 .. count : log[k] = k
            BY <2>1 DEF ScanInv, Shared
        <3>2. i \in 1 .. Len(log)
            BY <2>1
        <3> QED
            BY <3>1, <3>2
    <2>3. Fine(i) /\ i \in Jobs
        BY <2>1, <2>2, Enqueued DEF ScanInv
    <2>4. lease[i].tok \in Nat
        BY <2>1, <2>3, Enqueued DEF Shared, Lease
    <2> QED
        BY <2>2, <2>3, <2>4 DEF Fine
<1>2. Init => (InOrder => ScanInv)
    BY InitScan
<1> QED
    BY <1>1, <1>2, ScanInductive, Invariance, PTL DEF Spec
=============================================================================
