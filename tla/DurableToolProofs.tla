-------------------------- MODULE DurableToolProofs --------------------------
(***************************************************************************)
(* Proofs about one tool call under durableTool, for every tool, any set   *)
(* of workers, and any number of starts, crashes, answers and retries.     *)
(***************************************************************************)
EXTENDS DurableTool, FiniteSetTheorems, TLAPS

Labels == {"idle", "read", "deny", "suspend", "ladder", "lost", "poll", "judge",
           "takeover", "spend", "exec", "finish", "found", "fail"}
Answers == {"none", "yes", "no"}
Locals == [record : Record, approved : Answers, probe : {"unasked", "undone", "down"}, before : Record]

\* Only a claim and a failure carry an attempt count, and there is one absent record.
WellFormed(r) == (InDoubt(r) <=> r.n > 0) /\ (r.st = "absent" => r = Absent)

\* The types of the journal and the world ...
Shared ==
    /\ tool \in Tools /\ rec \in Record /\ WellFormed(rec)
    /\ decision \in {"none", "yes", "no", "spent"} /\ pending \in Answers
    /\ now \in Nat /\ applied \in Nat /\ orphans \in Nat /\ starts \in Nat
    /\ answers \in [given : Nat, yes : Nat]

\* ... and of the workers.
Types ==
    /\ Shared /\ pc \in [Workers -> Labels] /\ loc \in [Workers -> Locals]
    /\ \A w \in Workers : WellFormed(loc[w].record)

Top == IF MaxRetries = 0 THEN 1 ELSE MaxRetries

\* Answers are bounded, and without one nobody has an approval.
AnswersInv ==
    /\ answers.given <= tool.maxAnswers
    /\ answers.given = 0 => decision = "none" /\ pending = "none" /\ \A w \in Workers : loc[w].approved = "none"

\* A worker alone: what it has read is what the journal holds.
AloneInv(w) ==
    /\ pc[w] # "idle" => w \in tool.workers
    /\ pc[w] \in {"deny", "suspend", "ladder", "judge", "takeover"} =>
          loc[w].record = rec /\ rec.st \notin Terminal
    /\ pc[w] = "suspend" => Asks(rec)
    /\ pc[w] \in {"judge", "takeover"} => rec # Absent
    /\ pc[w] = "takeover" => loc[w].before = rec /\ (InDoubt(rec) => rec.n < MaxRetries)
    /\ Executing(w) => rec.st = "running" /\ rec.n = Attempts(loc[w].record) + 1

\* Any number of workers on a bare side effect: only the first claim executes.
BareInv(w) ==
    /\ pc[w] \in {"idle", "read", "ladder", "lost", "poll", "judge", "spend", "exec", "finish", "fail"}
    /\ loc[w].record.st \in {"absent", "running", "failed"}
    /\ pc[w] = "judge" => loc[w].record # Absent
    /\ Executing(w) => rec.st = "running" /\ rec.n = 1 /\ loc[w].record = Absent
    /\ pc[w] \in {"spend", "exec"} => applied = 0 /\ orphans = 0

OnceInv ==
    /\ rec.st \in {"absent", "running", "failed", "succeeded"} /\ rec.n <= 1
    /\ applied + orphans <= 1 /\ (rec = Absent => applied = 0 /\ orphans = 0)
    /\ \A v, w \in Workers : Executing(v) /\ Executing(w) => v = w

\* The inductive invariant.
IInv ==
    /\ Types /\ AnswersInv
    /\ Alone => rec.n <= Top /\ \A w \in Workers : AloneInv(w)
    /\ Bare => OnceInv /\ \A w \in Workers : BareInv(w)
-----------------------------------------------------------------------------
One(b) == IF b THEN 1 ELSE 0

\* An ungated call was claimed: its first attempt needs no answer.
Base == One(Gate = "none" /\ rec # Absent)

\* A yes that is in the journal, or in the hands of worker w, and not spent; and one
\* that is being written.
Unspent(w) == One(decision = "yes" \/ (loc[w].approved = "yes" /\ pc[w] \notin {"exec", "finish", "found", "fail"}))
Coming == One(pending = "yes" /\ decision # "spent")

\* Effects that have happened, may still happen, or are about to without an answer left to spend
Used(w) == applied + orphans + One(pc[w] = "exec" \/ (pc[w] = "spend" /\ loc[w].approved # "yes"))

\* The yes in the journal came after w had started.
Newer(w) == One(decision = "yes" /\ pc[w] # "idle" /\ loc[w].approved # "yes")

\* The effects are covered by the answers and the free first attempt ...
Balance(w) == Used(w) + Unspent(w) + Coming <= answers.yes + Base

\* ... and so is an attempt that may have had its effect, next to the answers still to be spent.
Doubt(w) == InDoubt(rec) => 1 + Newer(w) + Coming <= answers.yes + Base

\* What the worker w knows when it goes for an attempt that no answer covers.
Unasked(w) ==
    /\ pc[w] \in {"lost", "poll"} => rec # Absent
    /\ pc[w] \in {"ladder", "judge", "takeover"} /\ loc[w].approved # "yes" =>
          (rec = Absent => Gate = "none") /\ (rec = Absent \/ InDoubt(rec))
    /\ pc[w] = "judge" /\ loc[w].approved # "yes" /\ tool.recover /\ loc[w].probe # "down" => applied = 0
    /\ pc[w] = "takeover" /\ loc[w].approved # "yes" => tool.recover /\ applied = 0
    /\ pc[w] = "idle" => loc[w].approved # "yes"

\* The budget of effects of a side-effect tool whose one worker is w.
BudgetInv(w) ==
    /\ Balance(w) /\ Doubt(w) /\ Unasked(w)
    /\ tool.recover => orphans = 0
    /\ pending = "yes" => decision \in {"no", "spent"}

Budget ==
    Alone /\ Vouched /\ SideEffect =>
        /\ tool.workers = {} => applied = 0 /\ orphans = 0
        /\ \A w \in tool.workers : BudgetInv(w)
-----------------------------------------------------------------------------
(* What the steps do *)

\* The tool's options have their types.
LEMMA Options ==
    ASSUME Shared
    PROVE  /\ tool.mode \in {"call", "args"} /\ tool.sideEffect \in BOOLEAN /\ tool.recover \in BOOLEAN
           /\ tool.lookup \in BOOLEAN /\ tool.timeouts \in BOOLEAN /\ tool.gate \in {"none", "fresh", "any"}
           /\ tool.attemptScope \in BOOLEAN /\ tool.workers \subseteq Workers /\ tool.maxAnswers \in Nat
           /\ MaxRetries \in Nat /\ TTL \in Nat /\ MaxStarts \in Nat
<1>1. tool \in ToolOptions
    BY DurableToolAssumption DEF Shared
<1>2. MaxRetries \in Nat /\ TTL \in Nat /\ MaxStarts \in Nat
    BY DurableToolAssumption
<1> QED
    BY <1>1, <1>2 DEF ToolOptions

\* A worker's local variables have their types.
LEMMA Fields ==
    ASSUME Types, NEW w \in Workers
    PROVE  /\ loc[w] \in Locals /\ pc[w] \in Labels /\ loc[w].record \in Record /\ loc[w].approved \in Answers
           /\ loc[w].probe \in {"unasked", "undone", "down"} /\ loc[w].before \in Record /\ WellFormed(loc[w].record)
<1>1. loc[w] \in Locals /\ pc[w] \in Labels /\ WellFormed(loc[w].record)
    BY DEF Types
<1> QED
    BY <1>1 DEF Locals

\* The records that are written.
LEMMA Written ==
    ASSUME now \in Nat
    PROVE  /\ Absent \in Record /\ WellFormed(Absent) /\ Absent.st = "absent" /\ Absent.n = 0
           /\ \A n \in Nat \ {0} : /\ Running(n) \in Record /\ Running(n).st = "running" /\ Running(n).n = n
                                   /\ Running(n).at = now /\ WellFormed(Running(n)) /\ Running(n) # Absent
                                   /\ Failed(n) \in Record /\ Failed(n).st = "failed" /\ Failed(n).n = n
                                   /\ WellFormed(Failed(n)) /\ Failed(n) # Absent
           /\ \A s \in {"suspended", "denied", "succeeded"} :
                 Final(s) \in Record /\ Final(s).st = s /\ Final(s).n = 0 /\ WellFormed(Final(s)) /\ Final(s) # Absent
<1>1. Absent \in Record /\ WellFormed(Absent) /\ Absent.st = "absent" /\ Absent.n = 0
    BY DEF Absent, Record, WellFormed, InDoubt
<1>2. ASSUME NEW n \in Nat \ {0}
      PROVE  /\ Running(n) \in Record /\ Running(n).st = "running" /\ Running(n).n = n /\ Running(n).at = now
             /\ Failed(n) \in Record /\ Failed(n).st = "failed" /\ Failed(n).n = n
    BY DEF Running, Failed, Record
<1>3. ASSUME NEW n \in Nat \ {0} PROVE WellFormed(Running(n)) /\ WellFormed(Failed(n)) /\ Running(n) # Absent /\ Failed(n) # Absent
    <2>1. n > 0
        OBVIOUS
    <2> QED
        BY <1>1, <1>2, <2>1 DEF WellFormed, InDoubt
<1>4. ASSUME NEW s \in {"suspended", "denied", "succeeded"}
      PROVE  Final(s) \in Record /\ Final(s).st = s /\ Final(s).n = 0
    BY DEF Final, Record, Terminal
<1>5. ASSUME NEW s \in {"suspended", "denied", "succeeded"} PROVE WellFormed(Final(s)) /\ Final(s) # Absent
    BY <1>1, <1>4 DEF WellFormed, InDoubt
<1> QED
    BY <1>1, <1>2, <1>3, <1>4, <1>5

\* A turn of worker w: the types are kept, and the others stay where they are.
Turn(w) ==
    /\ Types' /\ tool' = tool
    /\ \A v \in Workers : v # w => pc'[v] = pc[v] /\ loc'[v] = loc[v]

\* A worker that moves.
LEMMA Moved ==
    ASSUME Types, NEW w \in Workers, NEW label \in Labels, NEW l \in Locals, WellFormed(l.record),
           pc' = [pc EXCEPT ![w] = label], loc' = [loc EXCEPT ![w] = l], Shared', tool' = tool
    PROVE  Turn(w) /\ pc'[w] = label /\ loc'[w] = l
<1>1. pc \in [Workers -> Labels] /\ loc \in [Workers -> Locals]
    BY DEF Types
<1>2. /\ pc' \in [Workers -> Labels] /\ loc' \in [Workers -> Locals] /\ pc'[w] = label /\ loc'[w] = l
      /\ \A v \in Workers : v # w => pc'[v] = pc[v] /\ loc'[v] = loc[v]
    BY <1>1
<1>3. \A v \in Workers : WellFormed(loc'[v].record)
    BY <1>2 DEF Types
<1>4. \A v \in Workers : WellFormed(loc[v].record)' <=> WellFormed(loc'[v].record)
    BY DEF WellFormed, InDoubt, Absent
<1> QED
    BY <1>2, <1>3, <1>4 DEF Turn, Types

\* The empty locals.
LEMMA Empty ==
    /\ NoLocals \in Locals /\ WellFormed(NoLocals.record) /\ NoLocals.record = Absent /\ NoLocals.approved = "none"
    /\ Absent.st = "absent"
<1>1. Absent \in Record /\ WellFormed(Absent) /\ Absent.st = "absent"
    BY DEF Absent, Record, WellFormed, InDoubt
<1> QED
    BY <1>1 DEF NoLocals, Locals, Answers

\* execute() returns.
LEMMA Returned ==
    ASSUME Types, NEW w \in Workers, Return(w), Shared', tool' = tool
    PROVE  Turn(w) /\ pc'[w] = "idle" /\ loc'[w] = NoLocals /\ loc'[w].record = Absent /\ loc'[w].approved = "none"
<1>1. "idle" \in Labels /\ pc' = [pc EXCEPT ![w] = "idle"] /\ loc' = [loc EXCEPT ![w] = NoLocals]
    BY DEF Labels, Return, Go
<1> QED
    BY <1>1, Empty, Moved

\* A worker changes its place only.
LEMMA Went ==
    ASSUME Types, NEW w \in Workers, NEW label \in Labels, Go(w, label), UNCHANGED loc, Shared', tool' = tool
    PROVE  Turn(w) /\ pc'[w] = label /\ loc'[w] = loc[w]
<1>1. loc' = [loc EXCEPT ![w] = loc[w]] /\ pc' = [pc EXCEPT ![w] = label] /\ loc \in [Workers -> Locals]
    BY DEF Types, Go
<1>2. loc[w] \in Locals /\ WellFormed(loc[w].record)
    BY Fields
<1> QED
    BY <1>1, <1>2, Moved

\* What a worker notes of the journal's record.
Notes(w, r) ==
    /\ loc'[w].record = r /\ loc'[w].approved = loc[w].approved
    /\ loc'[w].probe = loc[w].probe /\ loc'[w].before = loc[w].before

\* A worker notes a record it has read.
LEMMA Noted ==
    ASSUME Types, NEW w \in Workers, NEW label \in Labels, NEW r \in Record, WellFormed(r), Go(w, label), Set(w, r),
           Shared', tool' = tool
    PROVE  Turn(w) /\ pc'[w] = label /\ Notes(w, r)
<1> DEFINE l == [loc[w] EXCEPT !.record = r]
<1>1. loc[w] \in Locals
    BY Fields
<1>2. /\ l \in Locals /\ l.record = r /\ l.approved = loc[w].approved /\ l.probe = loc[w].probe
      /\ l.before = loc[w].before
    BY <1>1 DEF Locals
<1>3. loc' = [loc EXCEPT ![w] = l] /\ pc' = [pc EXCEPT ![w] = label]
    BY DEF Set, Go
<1> HIDE DEF l
<1>4. WellFormed(l.record)
    BY <1>2
<1>5. Turn(w) /\ pc'[w] = label /\ loc'[w] = l
    BY <1>2, <1>3, <1>4, Moved
<1> QED
    BY <1>2, <1>5 DEF Notes

\* A step that leaves the journal's record alone.
LEMMA WorldStays ==
    ASSUME Types, UNCHANGED <<rec, decision, world>>
    PROVE  /\ Shared' /\ UNCHANGED <<tool, rec, decision, now, applied, orphans, pending, answers, starts>>
<1>1. UNCHANGED <<tool, rec, decision, now, applied, orphans, pending, answers, starts>>
    BY DEF world
<1>2. WellFormed(rec)' <=> WellFormed(rec)
    BY <1>1 DEF WellFormed, InDoubt, Absent
<1> QED
    BY <1>1, <1>2 DEF Types, Shared

\* A step that writes a record.
LEMMA RecordPut ==
    ASSUME Types, NEW r \in Record, WellFormed(r), rec' = r, UNCHANGED <<decision, world>>
    PROVE  /\ Shared' /\ UNCHANGED <<tool, decision, now, applied, orphans, pending, answers, starts>>
<1>1. UNCHANGED <<tool, decision, now, applied, orphans, pending, answers, starts>>
    BY DEF world
<1>2. WellFormed(rec)' <=> WellFormed(r)
    BY <1>1 DEF WellFormed, InDoubt, Absent
<1> QED
    BY <1>1, <1>2 DEF Types, Shared

\* The calls: what each step of worker w leaves behind.
LEMMA StartDoes ==
    ASSUME Types, NEW w \in Workers, Start(w)
    PROVE  /\ Turn(w) /\ pc[w] = "idle" /\ w \in tool.workers /\ pc'[w] = "read"
           /\ loc'[w].record = loc[w].record
           /\ loc'[w].approved = (IF decision = "spent" THEN "none" ELSE decision)
           /\ UNCHANGED <<rec, decision, now, applied, orphans, pending, answers>>
<1> DEFINE a == IF decision = "spent" THEN "none" ELSE decision
           l == [loc[w] EXCEPT !.approved = a]
<1>1. /\ loc[w] \in Locals /\ WellFormed(loc[w].record) /\ decision \in {"none", "yes", "no", "spent"}
      /\ starts \in Nat
    BY Fields DEF Types, Shared
<1>2. a \in Answers /\ "read" \in Labels
    BY <1>1 DEF Answers, Labels
<1>3. /\ loc' = [loc EXCEPT ![w] = l] /\ pc' = [pc EXCEPT ![w] = "read"] /\ starts' = starts + 1
      /\ UNCHANGED <<tool, rec, decision, now, applied, orphans, pending, answers>> /\ pc[w] = "idle" /\ w \in tool.workers
    BY DEF Start, Go
<1> HIDE DEF a
<1>4. l \in Locals /\ l.record = loc[w].record /\ l.approved = a
    BY <1>1, <1>2 DEF Locals
<1>5. Shared'
    <2>1. WellFormed(rec)' <=> WellFormed(rec)
        BY <1>3 DEF WellFormed, InDoubt, Absent
    <2>2. starts' \in Nat
        BY <1>1, <1>3
    <2> QED
        BY <1>3, <2>1, <2>2 DEF Types, Shared
<1> HIDE DEF l
<1>6. WellFormed(l.record)
    BY <1>1, <1>4
<1>7. Turn(w) /\ pc'[w] = "read" /\ loc'[w] = l
    BY <1>2, <1>3, <1>4, <1>5, <1>6, Moved
<1> QED
    BY <1>3, <1>4, <1>7 DEF a

\* The read and the gates.
LEMMA ReadDoes ==
    ASSUME Types, NEW w \in Workers, Read(w)
    PROVE  /\ Turn(w) /\ pc[w] = "read"
           /\ UNCHANGED <<rec, decision, now, applied, orphans, pending, answers>>
           /\ \/ pc'[w] = "idle" /\ loc'[w] = NoLocals /\ loc'[w].record = Absent /\ loc'[w].approved = "none"
              \/ /\ Notes(w, rec) /\ rec.st \notin Terminal
                 /\ \/ pc'[w] = "deny" /\ (Gate = "none" => rec.st = "suspended")
                    \/ pc'[w] = "suspend" /\ Asks(rec)
                    \/ pc'[w] = "ladder" /\ (loc[w].approved = "yes" \/ (rec.st # "suspended" /\ ~Asks(rec)))
<1>1. /\ Shared /\ Shared' /\ UNCHANGED <<tool, rec, decision, now, applied, orphans, pending, answers>>
      /\ rec \in Record /\ WellFormed(rec)
    BY WorldStays DEF Types, Shared, Read
<1>2. pc[w] = "read" /\ {"deny", "suspend", "ladder"} \subseteq Labels
    BY DEF Read, Labels
<1>3. CASE Return(w)
    BY <1>1, <1>2, <1>3, Returned
<1>4. CASE /\ Set(w, rec) /\ rec.st \notin Terminal
           /\ \/ Go(w, "deny") /\ (Gate = "none" => rec.st = "suspended")
              \/ Go(w, "suspend") /\ Asks(rec)
              \/ Go(w, "ladder") /\ (loc[w].approved = "yes" \/ (rec.st # "suspended" /\ ~Asks(rec)))
    BY <1>1, <1>2, <1>4, Noted
<1>5. "suspended" \notin Terminal /\ "absent" \notin Terminal /\ "running" \notin Terminal /\ "failed" \notin Terminal
    BY DEF Terminal
<1>6. Asks(rec) => Gate # "none"
    BY DEF Asks
<1> QED
    BY <1>3, <1>4, <1>5, <1>6 DEF Read

\* Refusals, questions, outcomes and failures are put, and the call returns.
LEMMA PutDoes ==
    ASSUME Types, NEW w \in Workers, Deny(w) \/ Suspend(w) \/ Finish(w) \/ Fail(w)
    PROVE  /\ Turn(w) /\ pc'[w] = "idle" /\ loc'[w] = NoLocals /\ loc'[w].record = Absent /\ loc'[w].approved = "none"
           /\ UNCHANGED <<decision, now, applied, orphans, pending, answers>> /\ rec' # Absent
           /\ \/ pc[w] = "deny" /\ rec'.st = "denied" /\ rec'.n = 0
              \/ pc[w] = "suspend" /\ rec'.st = "suspended" /\ rec'.n = 0
              \/ pc[w] \in {"finish", "found"} /\ rec'.st = "succeeded" /\ rec'.n = 0
              \/ pc[w] = "fail" /\ rec'.st = "failed" /\ rec'.n = Attempts(loc[w].record) + 1
<1> DEFINE n == Attempts(loc[w].record) + 1
<1>1. now \in Nat /\ loc[w].record \in Record
    BY Fields DEF Types, Shared
<1>2. n \in Nat \ {0}
    BY <1>1 DEF Attempts, Record
<1> HIDE DEF n
<1>3. Return(w) /\ UNCHANGED <<decision, world>>
    BY DEF Deny, Suspend, Finish, Fail
<1>4. PICK r : r = rec'
    OBVIOUS
<1>5. \/ pc[w] = "deny" /\ r = Final("denied")
      \/ pc[w] = "suspend" /\ r = Final("suspended")
      \/ pc[w] \in {"finish", "found"} /\ r = Final("succeeded")
      \/ pc[w] = "fail" /\ r = Failed(n)
    BY <1>4 DEF Deny, Suspend, Finish, Fail, n
<1>6. /\ r \in Record /\ WellFormed(r) /\ r # Absent
      /\ \/ pc[w] = "deny" /\ r.st = "denied" /\ r.n = 0
         \/ pc[w] = "suspend" /\ r.st = "suspended" /\ r.n = 0
         \/ pc[w] \in {"finish", "found"} /\ r.st = "succeeded" /\ r.n = 0
         \/ pc[w] = "fail" /\ r.st = "failed" /\ r.n = n
    BY <1>1, <1>2, <1>5, Written
<1>7. Shared' /\ UNCHANGED <<tool, decision, now, applied, orphans, pending, answers>>
    BY <1>3, <1>4, <1>6, RecordPut
<1>8. Turn(w) /\ pc'[w] = "idle" /\ loc'[w] = NoLocals /\ loc'[w].record = Absent /\ loc'[w].approved = "none"
    BY <1>3, <1>7, Returned
<1> QED
    BY <1>4, <1>6, <1>7, <1>8 DEF n

\* The claim and the takeover.
LEMMA ClaimDoes ==
    ASSUME Types, NEW w \in Workers, Claim(w) \/ Takeover(w)
    PROVE  /\ Turn(w) /\ loc'[w] = loc[w] /\ UNCHANGED <<decision, now, applied, orphans, pending, answers>>
           /\ \/ pc[w] = "ladder" /\ loc[w].record = Absent
              \/ pc[w] = "takeover"
           /\ \/ /\ pc'[w] = "spend" /\ rec'.st = "running" /\ rec' # Absent /\ rec'.at = now
                 /\ \/ pc[w] = "ladder" /\ rec = Absent /\ rec'.n = 1
                    \/ pc[w] = "takeover" /\ rec = loc[w].before /\ rec'.n = Attempts(loc[w].before) + 1
              \/ pc'[w] = "lost" /\ UNCHANGED rec /\ (pc[w] = "takeover" => rec # loc[w].before)
                 /\ (pc[w] = "ladder" => rec # Absent)
<1>1. now \in Nat /\ loc[w].before \in Record /\ {"lost", "spend"} \subseteq Labels
    BY Fields DEF Types, Shared, Labels
<1>2. UNCHANGED <<decision, loc, world>> /\ ((pc[w] = "ladder" /\ loc[w].record = Absent) \/ pc[w] = "takeover")
    BY DEF Claim, Takeover
<1>3. CASE Go(w, "lost") /\ UNCHANGED rec
    <2>1. Shared' /\ UNCHANGED <<tool, decision, now, applied, orphans, pending, answers>>
        BY <1>2, <1>3, WorldStays
    <2>2. Turn(w) /\ pc'[w] = "lost" /\ loc'[w] = loc[w]
        BY <1>1, <1>2, <1>3, <2>1, Went
    <2>3. (pc[w] = "takeover" => rec # loc[w].before) /\ (pc[w] = "ladder" => rec # Absent)
        <3>1. pc \in [Workers -> Labels] /\ pc' = [pc EXCEPT ![w] = "lost"] /\ pc'[w] # "spend"
            BY <1>3, <2>2 DEF Types, Go
        <3>2. ~Go(w, "spend")
            BY <3>1 DEF Go
        <3> QED
            BY <3>2 DEF Claim, Takeover
    <2> QED
        BY <1>2, <1>3, <2>1, <2>2, <2>3
<1>4. ASSUME NEW n \in Nat \ {0}, rec' = Running(n), Go(w, "spend"),
             \/ pc[w] = "ladder" /\ rec = Absent /\ n = 1
             \/ pc[w] = "takeover" /\ rec = loc[w].before /\ n = Attempts(loc[w].before) + 1
      PROVE  /\ Turn(w) /\ pc'[w] = "spend" /\ loc'[w] = loc[w] /\ UNCHANGED <<decision, now, applied, orphans, pending, answers>>
             /\ rec'.st = "running" /\ rec' # Absent /\ rec'.at = now /\ rec'.n = n
    <2>1. PICK r : r = rec' /\ r = Running(n)
        BY <1>4
    <2>2. r \in Record /\ WellFormed(r) /\ r # Absent /\ r.st = "running" /\ r.n = n /\ r.at = now
        BY <1>1, <1>4, <2>1, Written
    <2>3. Shared' /\ UNCHANGED <<tool, decision, now, applied, orphans, pending, answers>>
        BY <1>2, <2>1, <2>2, RecordPut
    <2>4. Turn(w) /\ pc'[w] = "spend" /\ loc'[w] = loc[w]
        BY <1>1, <1>2, <1>4, <2>3, Went
    <2> QED
        BY <2>1, <2>2, <2>3, <2>4
<1>5. Attempts(loc[w].before) + 1 \in Nat \ {0} /\ 1 \in Nat \ {0}
    BY <1>1 DEF Attempts, Record
<1>6. \/ Go(w, "lost") /\ UNCHANGED rec
      \/ pc[w] = "ladder" /\ rec = Absent /\ rec' = Running(1) /\ Go(w, "spend")
      \/ pc[w] = "takeover" /\ rec = loc[w].before /\ rec' = Running(Attempts(loc[w].before) + 1) /\ Go(w, "spend")
    BY DEF Claim, Takeover
<1> QED
    BY <1>2, <1>3, <1>4, <1>5, <1>6

\* The second read of a claim that was lost or waited for.
LEMMA RereadDoes ==
    ASSUME Types, NEW w \in Workers, Reread(w)
    PROVE  /\ Turn(w) /\ pc[w] \in {"lost", "poll"}
           /\ UNCHANGED <<rec, decision, now, applied, orphans, pending, answers>>
           /\ \/ pc'[w] = "idle" /\ loc'[w] = NoLocals /\ loc'[w].record = Absent /\ loc'[w].approved = "none"
              \/ Notes(w, rec) /\ rec.st \notin Terminal /\ rec.st # "suspended" /\ pc'[w] = "ladder"
<1>1. /\ Shared' /\ UNCHANGED <<tool, rec, decision, now, applied, orphans, pending, answers>>
      /\ rec \in Record /\ WellFormed(rec) /\ "ladder" \in Labels /\ pc[w] \in {"lost", "poll"}
    BY WorldStays DEF Types, Shared, Reread, Labels
<1>2. CASE Return(w)
    BY <1>1, <1>2, Returned
<1>3. CASE rec.st \notin Terminal \cup {"suspended"} /\ Set(w, rec) /\ Go(w, "ladder")
    BY <1>1, <1>3, Noted
<1> QED
    BY <1>2, <1>3 DEF Reread

\* A worker gives up, waits, or goes from the ladder to its verdict.
LEMMA BusyDoes ==
    ASSUME Types, NEW w \in Workers, Busy(w) \/ SkipProbe(w)
    PROVE  /\ Turn(w) /\ pc[w] = "ladder"
           /\ UNCHANGED <<rec, decision, now, applied, orphans, pending, answers>>
           /\ \/ pc'[w] = "idle" /\ loc'[w] = NoLocals /\ loc'[w].record = Absent /\ loc'[w].approved = "none"
              \/ pc'[w] = "poll" /\ loc'[w] = loc[w]
              \/ /\ pc'[w] = "judge" /\ loc'[w] = loc[w] /\ loc[w].record # Absent
                 /\ ~(SideEffect /\ InDoubt(loc[w].record) /\ loc[w].approved # "yes" /\ Recover /\ loc[w].probe # "down")
<1>1. /\ Shared' /\ UNCHANGED <<tool, rec, decision, now, applied, orphans, pending, answers>>
      /\ "poll" \in Labels /\ "judge" \in Labels /\ pc[w] = "ladder"
    BY WorldStays DEF Busy, SkipProbe, Labels
<1>2. CASE Return(w)
    BY <1>1, <1>2, Returned
<1>3. CASE Go(w, "poll") /\ UNCHANGED loc
    BY <1>1, <1>3, Went
<1>4. CASE SkipProbe(w)
    BY <1>1, <1>4, Went DEF SkipProbe, Reclaimable
<1> QED
    BY <1>2, <1>3, <1>4 DEF Busy

\* recover() is asked.
LEMMA ProbeDoes ==
    ASSUME Types, NEW w \in Workers, Probe(w)
    PROVE  /\ Turn(w) /\ pc[w] = "ladder" /\ Recover /\ SideEffect /\ InDoubt(loc[w].record) /\ loc[w].approved # "yes"
           /\ loc[w].record # Absent
           /\ UNCHANGED <<rec, decision, now, applied, orphans, pending, answers>>
           /\ loc'[w].record = loc[w].record /\ loc'[w].approved = loc[w].approved
           /\ \/ pc'[w] = "found"
              \/ pc'[w] = "judge" /\ (loc'[w].probe = "down" \/ (loc'[w].probe = "undone" /\ applied = 0))
<1>1. /\ Shared' /\ UNCHANGED <<tool, rec, decision, now, applied, orphans, pending, answers>>
      /\ "found" \in Labels /\ "judge" \in Labels /\ pc[w] = "ladder"
      /\ Recover /\ SideEffect /\ InDoubt(loc[w].record) /\ loc[w].approved # "yes" /\ loc[w].record # Absent
    BY WorldStays DEF Probe, Labels, Reclaimable
<1>2. CASE Go(w, "found") /\ UNCHANGED loc
    BY <1>1, <1>2, Went
<1>3. ASSUME NEW p \in {"undone", "down"}, Go(w, "judge"), loc' = [loc EXCEPT ![w].probe = p]
      PROVE  Turn(w) /\ pc'[w] = "judge" /\ loc'[w].record = loc[w].record /\ loc'[w].approved = loc[w].approved /\ loc'[w].probe = p
    <2> DEFINE l == [loc[w] EXCEPT !.probe = p]
    <2>1. loc[w] \in Locals /\ WellFormed(loc[w].record)
        BY Fields
    <2>2. l \in Locals /\ l.record = loc[w].record /\ l.approved = loc[w].approved /\ l.probe = p
        BY <1>3, <2>1 DEF Locals
    <2>3. loc' = [loc EXCEPT ![w] = l] /\ pc' = [pc EXCEPT ![w] = "judge"]
        BY <1>3 DEF Go
    <2> HIDE DEF l
    <2>4. WellFormed(l.record)
        BY <2>1, <2>2
    <2>5. Turn(w) /\ pc'[w] = "judge" /\ loc'[w] = l
        BY <1>1, <2>2, <2>3, <2>4, Moved
    <2> QED
        BY <2>2, <2>5
<1>4. \/ Go(w, "found") /\ UNCHANGED loc
      \/ applied = 0 /\ Go(w, "judge") /\ loc' = [loc EXCEPT ![w].probe = "undone"]
      \/ Go(w, "judge") /\ loc' = [loc EXCEPT ![w].probe = "down"]
    BY DEF Probe
<1>5. CASE applied = 0 /\ Go(w, "judge") /\ loc' = [loc EXCEPT ![w].probe = "undone"]
    BY <1>1, <1>3, <1>5
<1>6. CASE Go(w, "judge") /\ loc' = [loc EXCEPT ![w].probe = "down"]
    BY <1>1, <1>3, <1>6
<1> QED
    BY <1>2, <1>4, <1>5, <1>6

\* The verdict and the read it is followed by.
LEMMA JudgeDoes ==
    ASSUME Types, NEW w \in Workers, Judge(w)
    PROVE  /\ Turn(w) /\ pc[w] = "judge"
           /\ UNCHANGED <<rec, decision, now, applied, orphans, pending, answers>>
           /\ \/ pc'[w] = "idle" /\ loc'[w] = NoLocals /\ loc'[w].record = Absent /\ loc'[w].approved = "none"
              \/ /\ pc'[w] = "takeover" /\ ~Blocked(w) /\ ~Exhausted(w) /\ rec.st \notin Terminal
                 /\ loc'[w].before = rec /\ loc'[w].record = (IF InDoubt(rec) THEN rec ELSE loc[w].record)
                 /\ loc'[w].approved = loc[w].approved /\ loc'[w].probe = loc[w].probe
<1> DEFINE r == IF InDoubt(rec) THEN rec ELSE loc[w].record
           l == [loc[w] EXCEPT !.before = rec, !.record = r]
<1>1. /\ Shared' /\ UNCHANGED <<tool, rec, decision, now, applied, orphans, pending, answers>>
      /\ rec \in Record /\ WellFormed(rec) /\ "takeover" \in Labels /\ pc[w] = "judge"
    BY WorldStays DEF Types, Shared, Judge, Labels
<1>2. CASE Return(w)
    BY <1>1, <1>2, Returned
<1>3. CASE /\ ~Blocked(w) /\ ~Exhausted(w) /\ rec.st \notin Terminal
           /\ loc' = [loc EXCEPT ![w].before = rec, ![w].record = IF InDoubt(rec) THEN rec ELSE @]
           /\ Go(w, "takeover")
    <2>1. loc[w] \in Locals /\ WellFormed(loc[w].record) /\ loc[w].record \in Record /\ loc \in [Workers -> Locals]
        BY Fields DEF Types
    <2>2. r \in Record /\ WellFormed(r)
        BY <1>1, <2>1
    <2>3. loc' = [loc EXCEPT ![w] = l] /\ pc' = [pc EXCEPT ![w] = "takeover"]
        BY <1>3, <2>1 DEF Go, Locals
    <2> HIDE DEF r
    <2>4. l \in Locals /\ l.record = r /\ l.approved = loc[w].approved /\ l.probe = loc[w].probe /\ l.before = rec
        BY <1>1, <2>1, <2>2 DEF Locals
    <2> HIDE DEF l
    <2>5. WellFormed(l.record)
        BY <2>2, <2>4
    <2>6. Turn(w) /\ pc'[w] = "takeover" /\ loc'[w] = l
        BY <1>1, <2>3, <2>4, <2>5, Moved
    <2> QED
        BY <1>1, <1>3, <2>4, <2>6 DEF r
<1> QED
    BY <1>2, <1>3 DEF Judge

\* The approval is spent, when it covers one attempt only.
LEMMA SpendDoes ==
    ASSUME Types, NEW w \in Workers, Spend(w)
    PROVE  /\ Turn(w) /\ pc[w] = "spend" /\ pc'[w] = "exec" /\ loc'[w] = loc[w]
           /\ UNCHANGED <<rec, now, applied, orphans, pending, answers>>
           /\ decision' = (IF AttemptScope /\ SideEffect /\ loc[w].approved = "yes" THEN "spent" ELSE decision)
<1>1. /\ UNCHANGED <<tool, rec, loc, now, applied, orphans, pending, answers, starts>> /\ pc[w] = "spend" /\ Go(w, "exec")
      /\ decision' = (IF AttemptScope /\ SideEffect /\ loc[w].approved = "yes" THEN "spent" ELSE decision) /\ "exec" \in Labels
    BY DEF Spend, world, Labels
<1>2. decision' \in {"none", "yes", "no", "spent"}
    BY <1>1 DEF Types, Shared
<1>3. WellFormed(rec)' <=> WellFormed(rec)
    BY <1>1 DEF WellFormed, InDoubt, Absent
<1>4. Shared'
    BY <1>1, <1>2, <1>3 DEF Types, Shared
<1> QED
    BY <1>1, <1>4, Went

\* lookup() finds the effect.
LEMMA LookUpDoes ==
    ASSUME Types, NEW w \in Workers, LookUp(w)
    PROVE  /\ Turn(w) /\ pc[w] = "exec" /\ pc'[w] = "found" /\ loc'[w] = loc[w] /\ tool.lookup
           /\ UNCHANGED <<rec, decision, now, applied, orphans, pending, answers>>
<1>1. /\ Shared' /\ UNCHANGED <<tool, rec, decision, now, applied, orphans, pending, answers>>
      /\ "found" \in Labels /\ pc[w] = "exec" /\ tool.lookup /\ Go(w, "found") /\ UNCHANGED loc
    BY WorldStays DEF LookUp, Labels
<1> QED
    BY <1>1, Went

\* The tool runs: the effect happens, does not, or may still.
LEMMA ExecuteDoes ==
    ASSUME Types, NEW w \in Workers, Execute(w)
    PROVE  /\ Turn(w) /\ pc[w] = "exec" /\ pc'[w] \in {"finish", "fail"} /\ loc'[w] = loc[w]
           /\ UNCHANGED <<rec, decision, now, pending, answers>>
           /\ \/ applied' = applied + 1 /\ orphans' = orphans
              \/ applied' = applied /\ orphans' = orphans
              \/ tool.timeouts /\ applied' = applied /\ orphans' = orphans + 1
<1>1. /\ UNCHANGED <<tool, rec, decision, loc, now, pending, answers, starts>> /\ pc[w] = "exec" /\ {"finish", "fail"} \subseteq Labels
      /\ Go(w, "finish") \/ Go(w, "fail")
      /\ \/ applied' = applied + 1 /\ orphans' = orphans
         \/ applied' = applied /\ orphans' = orphans
         \/ tool.timeouts /\ applied' = applied /\ orphans' = orphans + 1
    BY DEF Execute, Labels
<1>2. applied' \in Nat /\ orphans' \in Nat
    BY <1>1 DEF Types, Shared
<1>3. WellFormed(rec)' <=> WellFormed(rec)
    BY <1>1 DEF WellFormed, InDoubt, Absent
<1>4. Shared'
    BY <1>1, <1>2, <1>3 DEF Types, Shared
<1>5. Turn(w) /\ pc'[w] \in {"finish", "fail"} /\ loc'[w] = loc[w]
    BY <1>1, <1>4, Went
<1> QED
    BY <1>1, <1>5

\* A worker crashes.
LEMMA CrashDoes ==
    ASSUME Types, NEW w \in Workers, Crash(w)
    PROVE  /\ Turn(w) /\ pc[w] # "idle" /\ pc'[w] = "idle" /\ loc'[w] = NoLocals /\ loc'[w].record = Absent /\ loc'[w].approved = "none"
           /\ UNCHANGED <<rec, decision, now, applied, orphans, pending, answers>>
<1>1. /\ Shared' /\ UNCHANGED <<tool, rec, decision, now, applied, orphans, pending, answers>> /\ pc[w] # "idle" /\ Return(w)
    BY WorldStays DEF Crash
<1> QED
    BY <1>1, Returned

\* The human, the clock and a late effect leave the workers and the record alone.
LEMMA OutsideDoes ==
    ASSUME Types, (\E d \in {"yes", "no"} : Answer(d) \/ ChangeMind(d)) \/ Amend \/ Land \/ Tick
    PROVE  /\ Types' /\ UNCHANGED <<tool, rec, pc, loc>>
           /\ \/ /\ orphans > 0 /\ orphans' = orphans - 1 /\ applied' = applied + 1 /\ UNCHANGED <<decision, pending, answers>>
              \/ /\ UNCHANGED <<applied, orphans>>
                 /\ \/ \E d \in {"yes", "no"} :
                         /\ answers.given < tool.maxAnswers /\ answers'.given = answers.given + 1
                         /\ answers'.yes = answers.yes + One(d = "yes") /\ pending = "none"
                         /\ \/ decision \in {"none", "spent"} /\ decision' = d /\ pending' = pending
                            \/ decision \in {"yes", "no"} \ {d} /\ decision' = decision /\ pending' = d
                    \/ /\ pending # "none" /\ pending' = "none" /\ UNCHANGED answers
                       /\ decision' = (IF decision = "spent" THEN decision ELSE pending)
                    \/ UNCHANGED <<decision, pending, answers>>
<1>1. /\ UNCHANGED <<tool, rec, pc, loc, starts>>
    BY DEF Answer, ChangeMind, Amend, Land, Tick
<1>2. Shared /\ pc \in [Workers -> Labels] /\ loc \in [Workers -> Locals] /\ (\A w \in Workers : WellFormed(loc[w].record))
    BY DEF Types
<1>3. ASSUME decision' \in {"none", "yes", "no", "spent"}, pending' \in Answers, now' \in Nat, applied' \in Nat,
             orphans' \in Nat, answers' \in [given : Nat, yes : Nat]
      PROVE  Types'
    <2>1. WellFormed(rec)' <=> WellFormed(rec)
        BY <1>1 DEF WellFormed, InDoubt, Absent
    <2>2. \A w \in Workers : WellFormed(loc[w].record)' <=> WellFormed(loc[w].record)
        BY <1>1 DEF WellFormed, InDoubt, Absent
    <2>3. Shared'
        BY <1>1, <1>2, <1>3, <2>1 DEF Shared
    <2> QED
        BY <1>1, <1>2, <2>2, <2>3 DEF Types
<1>4. /\ decision \in {"none", "yes", "no", "spent"} /\ pending \in Answers /\ now \in Nat /\ applied \in Nat
      /\ orphans \in Nat /\ answers \in [given : Nat, yes : Nat] /\ answers.given \in Nat /\ answers.yes \in Nat
    BY <1>2 DEF Shared
<1>5. ASSUME NEW d \in {"yes", "no"}, Answer(d) \/ ChangeMind(d)
      PROVE  /\ Types' /\ UNCHANGED <<applied, orphans>>
             /\ answers.given < tool.maxAnswers /\ answers'.given = answers.given + 1
             /\ answers'.yes = answers.yes + One(d = "yes") /\ pending = "none"
             /\ \/ decision \in {"none", "spent"} /\ decision' = d /\ pending' = pending
                \/ decision \in {"yes", "no"} \ {d} /\ decision' = decision /\ pending' = d
    <2>1. /\ answers' = [given |-> answers.given + 1, yes |-> answers.yes + One(d = "yes")]
          /\ UNCHANGED <<now, applied, orphans>> /\ answers.given < tool.maxAnswers /\ pending = "none"
          /\ \/ decision \in {"none", "spent"} /\ decision' = d /\ pending' = pending
             \/ decision \in {"yes", "no"} \ {d} /\ decision' = decision /\ pending' = d
        BY <1>5 DEF Answer, ChangeMind, One
    <2>2. One(d = "yes") \in Nat
        BY DEF One
    <2>3. answers' \in [given : Nat, yes : Nat] /\ answers'.given = answers.given + 1 /\ answers'.yes = answers.yes + One(d = "yes")
        BY <1>4, <2>1, <2>2
    <2>4. decision' \in {"none", "yes", "no", "spent"} /\ pending' \in Answers
        BY <1>4, <2>1 DEF Answers
    <2>5. Types'
        BY <1>3, <1>4, <2>1, <2>3, <2>4
    <2> QED
        BY <2>1, <2>3, <2>5
<1>6. CASE Amend
    <2>1. /\ UNCHANGED <<now, applied, orphans, answers>> /\ pending # "none" /\ pending' = "none"
          /\ decision' = (IF decision = "spent" THEN decision ELSE pending)
        BY <1>6 DEF Amend
    <2>2. decision' \in {"none", "yes", "no", "spent"} /\ pending' \in Answers
        BY <1>4, <2>1 DEF Answers
    <2> QED
        BY <1>1, <1>3, <1>4, <2>1, <2>2
<1>7. CASE Land
    <2>1. /\ UNCHANGED <<now, decision, pending, answers>> /\ orphans > 0 /\ orphans' = orphans - 1 /\ applied' = applied + 1
        BY <1>7 DEF Land
    <2>2. orphans' \in Nat /\ applied' \in Nat
        BY <1>4, <2>1
    <2> QED
        BY <1>1, <1>3, <1>4, <2>1, <2>2
<1>8. CASE Tick
    <2>1. UNCHANGED <<applied, orphans, decision, pending, answers>> /\ now' \in Nat
        BY <1>4, <1>8 DEF Tick
    <2> QED
        BY <1>1, <1>3, <1>4, <2>1
<1> QED
    BY <1>1, <1>5, <1>6, <1>7, <1>8

-----------------------------------------------------------------------------
(* The answers *)

\* What a worker's turn does to the answers.
LEMMA TurnAnswers ==
    ASSUME Types, NEW w \in Workers, Start(w) \/ Work(w) \/ Crash(w)
    PROVE  /\ Turn(w) /\ UNCHANGED <<pending, answers>>
           /\ loc'[w].approved \in {loc[w].approved, "none"} \/ (decision # "spent" /\ loc'[w].approved = decision)
           /\ decision' = decision \/ (loc[w].approved = "yes" /\ decision' = "spent")
<1>1. CASE Start(w)
    BY <1>1, StartDoes
<1>2. CASE Read(w)
    BY <1>2, ReadDoes DEF Notes
<1>3. CASE Deny(w) \/ Suspend(w) \/ Finish(w) \/ Fail(w)
    BY <1>3, PutDoes
<1>4. CASE Claim(w) \/ Takeover(w)
    BY <1>4, ClaimDoes
<1>5. CASE Reread(w)
    BY <1>5, RereadDoes DEF Notes
<1>6. CASE Busy(w) \/ SkipProbe(w)
    BY <1>6, BusyDoes
<1>7. CASE Probe(w)
    BY <1>7, ProbeDoes
<1>8. CASE Judge(w)
    BY <1>8, JudgeDoes
<1>9. CASE Spend(w)
    BY <1>9, SpendDoes
<1>10. CASE LookUp(w)
    BY <1>10, LookUpDoes
<1>11. CASE Execute(w)
    BY <1>11, ExecuteDoes
<1>12. CASE Crash(w)
    BY <1>12, CrashDoes
<1> QED
    BY <1>1, <1>2, <1>3, <1>4, <1>5, <1>6, <1>7, <1>8, <1>9, <1>10, <1>11, <1>12 DEF Work

\* A worker's turn keeps the answers.
LEMMA TurnKeepsAnswers ==
    ASSUME Types, AnswersInv, NEW w \in Workers, Start(w) \/ Work(w) \/ Crash(w)
    PROVE  AnswersInv'
<1>1. /\ Turn(w) /\ UNCHANGED <<pending, answers>>
      /\ loc'[w].approved \in {loc[w].approved, "none"} \/ (decision # "spent" /\ loc'[w].approved = decision)
      /\ decision' = decision \/ (loc[w].approved = "yes" /\ decision' = "spent")
    BY TurnAnswers
<1>2. tool' = tool /\ \A v \in Workers : v # w => loc'[v] = loc[v]
    BY <1>1 DEF Turn
<1>3. ASSUME answers.given = 0
      PROVE  decision' = "none" /\ pending' = "none" /\ \A v \in Workers : loc'[v].approved = "none"
    BY <1>1, <1>2, <1>3 DEF AnswersInv
<1> QED
    BY <1>1, <1>2, <1>3 DEF AnswersInv

\* So does what happens outside.
LEMMA OutsideKeepsAnswers ==
    ASSUME Types, AnswersInv, (\E d \in {"yes", "no"} : Answer(d) \/ ChangeMind(d)) \/ Amend \/ Land \/ Tick
    PROVE  AnswersInv'
<1>1. answers.given \in Nat /\ tool.maxAnswers \in Nat
    BY Options DEF Types, Shared
<1>2. UNCHANGED <<tool, loc>>
    BY OutsideDoes
<1>3. CASE UNCHANGED <<decision, pending, answers>>
    BY <1>2, <1>3 DEF AnswersInv
<1>4. CASE answers.given < tool.maxAnswers /\ answers'.given = answers.given + 1
    BY <1>1, <1>2, <1>4 DEF AnswersInv
<1>5. CASE pending # "none" /\ UNCHANGED answers
    BY <1>2, <1>5 DEF AnswersInv
<1> QED
    BY <1>3, <1>4, <1>5, OutsideDoes
-----------------------------------------------------------------------------
(* One worker *)

\* The worker itself: what it has read is still there when it acts on it.
LEMMA OwnTurn ==
    ASSUME Types, rec.n <= Top, NEW w \in Workers, AloneInv(w), Start(w) \/ Work(w) \/ Crash(w)
    PROVE  rec'.n <= Top /\ AloneInv(w)'
<1>1. /\ Turn(w) /\ tool' = tool
    BY TurnAnswers DEF Turn
<1>2. /\ MaxRetries \in Nat /\ rec.n \in Nat /\ (InDoubt(rec) <=> rec.n > 0) /\ (rec.st = "absent" => rec = Absent)
      /\ Top \in Nat /\ 1 <= Top /\ MaxRetries <= Top
    BY Options DEF Types, Shared, WellFormed, Record, Top
<1>3. CASE pc'[w] \in {"idle", "read", "lost", "poll", "found"} /\ rec'.n <= Top /\ w \in tool.workers
    BY <1>1, <1>3 DEF AloneInv, Executing
<1>4. pc[w] # "idle" => w \in tool.workers
    BY DEF AloneInv
<1>5. CASE Start(w)
    BY <1>3, <1>5, StartDoes
<1>6. CASE Read(w)
    <2>1. /\ pc[w] = "read" /\ UNCHANGED rec
          /\ \/ pc'[w] = "idle"
             \/ loc'[w].record = rec /\ rec.st \notin Terminal /\ pc'[w] \in {"deny", "suspend", "ladder"} /\ (pc'[w] = "suspend" => Asks(rec))
        BY <1>6, ReadDoes DEF Notes
    <2>2. Asks(rec)' <=> Asks(rec)
        BY <1>1, <2>1 DEF Asks, Gate, Absent
    <2> QED
        BY <1>1, <1>3, <1>4, <2>1, <2>2 DEF AloneInv, Executing
<1>7. CASE Deny(w) \/ Suspend(w) \/ Finish(w) \/ Fail(w)
    <2>1. /\ pc[w] # "idle" /\ pc'[w] = "idle" /\ (rec'.n = 0 \/ (pc[w] = "fail" /\ rec'.n = Attempts(loc[w].record) + 1))
        BY <1>7, PutDoes
    <2>2. rec'.n <= Top
        BY <1>2, <2>1 DEF AloneInv, Executing
    <2> QED
        BY <1>3, <1>4, <2>1, <2>2
<1>8. CASE Claim(w) \/ Takeover(w)
    <2>1. CASE pc'[w] = "lost" /\ UNCHANGED rec
        BY <1>3, <1>4, <1>8, <2>1, ClaimDoes
    <2>2. CASE pc'[w] # "lost"
        <3>1. /\ pc'[w] = "spend" /\ rec'.st = "running" /\ loc'[w] = loc[w] /\ pc[w] \in {"ladder", "takeover"}
              /\ \/ pc[w] = "ladder" /\ rec = Absent /\ rec'.n = 1
                 \/ pc[w] = "takeover" /\ rec = loc[w].before /\ rec'.n = Attempts(loc[w].before) + 1
            BY <1>8, <2>2, ClaimDoes
        <3>2. loc[w].record = rec /\ rec'.n = Attempts(rec) + 1 /\ (pc[w] = "takeover" /\ InDoubt(rec) => rec.n < MaxRetries)
            BY <3>1 DEF AloneInv, Attempts, Absent
        <3>3. rec'.n <= Top
            BY <1>2, <3>1, <3>2 DEF Attempts, InDoubt, Absent
        <3>4. w \in tool.workers /\ Attempts(loc'[w].record) = Attempts(loc[w].record)
            BY <1>4, <3>1
        <3> QED
            BY <1>1, <3>1, <3>2, <3>3, <3>4 DEF AloneInv, Executing, Attempts
    <2> QED
        BY <1>8, <2>1, <2>2, ClaimDoes
<1>9. CASE Reread(w)
    <2>1. /\ pc[w] # "idle" /\ UNCHANGED rec
          /\ \/ pc'[w] = "idle"
             \/ loc'[w].record = rec /\ rec.st \notin Terminal /\ pc'[w] = "ladder"
        BY <1>9, RereadDoes DEF Notes
    <2> QED
        BY <1>1, <1>3, <1>4, <2>1 DEF AloneInv, Executing
<1>10. CASE Busy(w) \/ SkipProbe(w)
    <2>1. /\ pc[w] = "ladder" /\ UNCHANGED rec
          /\ \/ pc'[w] \in {"idle", "poll"}
             \/ pc'[w] = "judge" /\ loc'[w] = loc[w] /\ loc[w].record # Absent
        BY <1>10, BusyDoes
    <2> QED
        BY <1>1, <1>3, <1>4, <2>1 DEF AloneInv, Executing, Absent
<1>11. CASE Probe(w)
    <2>1. /\ pc[w] = "ladder" /\ UNCHANGED rec /\ loc[w].record # Absent /\ loc'[w].record = loc[w].record /\ pc'[w] \in {"found", "judge"}
        BY <1>11, ProbeDoes
    <2> QED
        BY <1>1, <1>3, <1>4, <2>1 DEF AloneInv, Executing, Absent
<1>12. CASE Judge(w)
    <2>1. /\ pc[w] = "judge" /\ UNCHANGED rec
          /\ \/ pc'[w] = "idle"
             \/ /\ pc'[w] = "takeover" /\ ~Exhausted(w) /\ rec.st \notin Terminal /\ loc'[w].before = rec
                /\ loc'[w].record = (IF InDoubt(rec) THEN rec ELSE loc[w].record)
        BY <1>12, JudgeDoes
    <2>2. loc[w].record = rec /\ rec # Absent
        BY <2>1 DEF AloneInv
    <2>3. CASE pc'[w] = "takeover"
        <3>1. loc'[w].record = rec /\ (InDoubt(rec) => rec.n < MaxRetries)
            BY <1>2, <2>1, <2>2, <2>3 DEF Exhausted
        <3>2. InDoubt(rec)' <=> InDoubt(rec)
            BY <2>1 DEF InDoubt
        <3> QED
            BY <1>1, <1>2, <1>4, <2>1, <2>2, <2>3, <3>1, <3>2 DEF AloneInv, Executing, Absent
    <2> QED
        BY <1>3, <1>4, <2>1, <2>3
<1>13. CASE Spend(w) \/ LookUp(w) \/ Execute(w)
    <2>1. /\ pc[w] \in {"spend", "exec"} /\ UNCHANGED rec /\ pc'[w] \in {"exec", "found", "finish", "fail"} /\ loc'[w] = loc[w]
        BY <1>13, SpendDoes, LookUpDoes, ExecuteDoes
    <2>2. Attempts(loc'[w].record) = Attempts(loc[w].record)
        BY <2>1
    <2> QED
        BY <1>1, <1>4, <2>1, <2>2 DEF AloneInv, Executing, Attempts
<1>14. CASE Crash(w)
    BY <1>3, <1>4, <1>14, CrashDoes
<1> QED
    BY <1>5, <1>6, <1>7, <1>8, <1>9, <1>10, <1>11, <1>12, <1>13, <1>14 DEF Work

\* A worker alone stays alone, and the others stay idle.
LEMMA AloneTurn ==
    ASSUME Types, Alone, rec.n <= Top, \A v \in Workers : AloneInv(v), NEW w \in Workers, Start(w) \/ Work(w) \/ Crash(w)
    PROVE  rec'.n <= Top /\ \A v \in Workers : AloneInv(v)'
<1>1. rec'.n <= Top /\ AloneInv(w)'
    BY OwnTurn
<1>2. Turn(w) /\ tool' = tool /\ tool.workers \subseteq Workers
    BY TurnAnswers, Options DEF Turn, Types
<1>3. w \in tool.workers
    BY DEF AloneInv, Start, Work, Crash, Read, Deny, Suspend, Claim, Reread, Busy, Probe, SkipProbe, Judge, Takeover,
           Spend, LookUp, Execute, Finish, Fail
<1>4. ASSUME NEW v \in Workers, v # w PROVE AloneInv(v)'
    <2>1. pc[v] = "idle" /\ pc'[v] = pc[v]
        BY <1>2, <1>3, <1>4 DEF Alone, AloneInv, Turn
    <2> QED
        BY <2>1 DEF AloneInv, Executing
<1> QED
    BY <1>1, <1>4

-----------------------------------------------------------------------------
(* Several workers on a bare side effect *)

\* Every other worker keeps its part when this one is not executing, or when it is and goes on.
LEMMA BareQuiet ==
    ASSUME Types, OnceInv, \A v \in Workers : BareInv(v), NEW w \in Workers, Turn(w), UNCHANGED <<rec, applied, orphans>>,
           \/ /\ pc'[w] \in {"idle", "read", "ladder", "lost", "poll", "judge"}
              /\ loc'[w].record.st \in {"absent", "running", "failed"} /\ (pc'[w] = "judge" => loc'[w].record # Absent)
           \/ pc[w] = "spend" /\ pc'[w] = "exec" /\ loc'[w] = loc[w]
    PROVE  OnceInv' /\ \A v \in Workers : BareInv(v)'
<1>1. \A v \in Workers : v # w => pc'[v] = pc[v] /\ loc'[v] = loc[v]
    BY DEF Turn
<1>2. BareInv(w)'
    BY DEF BareInv, Executing, Absent
<1>3. ASSUME NEW v \in Workers, v # w PROVE BareInv(v)'
    <2>1. BareInv(v) /\ pc'[v] = pc[v] /\ loc'[v] = loc[v]
        BY <1>1, <1>3
    <2> QED
        BY <2>1 DEF BareInv, Executing, Absent
<1>4. \A v \in Workers : Executing(v)' => Executing(v)
    BY <1>1 DEF Executing
<1>5. OnceInv'
    BY <1>4 DEF OnceInv, Absent
<1> QED
    BY <1>2, <1>3, <1>5

\* Every other worker keeps its part when this one is the executor and goes on.
LEMMA BareActs ==
    ASSUME Types, OnceInv, \A v \in Workers : BareInv(v), NEW w \in Workers, Turn(w), BareInv(w)',
           \A v \in Workers : Executing(v) => v = w,
           rec'.st \in {"absent", "running", "failed", "succeeded"}, rec'.n <= 1, rec' # Absent, applied' + orphans' <= 1
    PROVE  OnceInv' /\ \A v \in Workers : BareInv(v)'
<1>1. \A v \in Workers : v # w => pc'[v] = pc[v] /\ loc'[v] = loc[v]
    BY DEF Turn
<1>2. ASSUME NEW v \in Workers, v # w PROVE BareInv(v)' /\ ~Executing(v)'
    <2>1. BareInv(v) /\ pc'[v] = pc[v] /\ loc'[v] = loc[v] /\ ~Executing(v)
        BY <1>1, <1>2
    <2> QED
        BY <2>1 DEF BareInv, Executing, Absent
<1>3. OnceInv'
    BY <1>2 DEF OnceInv, Absent
<1> QED
    BY <1>2, <1>3

\* A turn of a worker on a bare side effect.
LEMMA BareTurn ==
    ASSUME Types, AnswersInv, Bare, OnceInv, \A v \in Workers : BareInv(v), NEW w \in Workers, Start(w) \/ Work(w) \/ Crash(w)
    PROVE  OnceInv' /\ \A v \in Workers : BareInv(v)'
<1>1. /\ Turn(w) /\ BareInv(w) /\ applied \in Nat /\ orphans \in Nat /\ WellFormed(rec) /\ WellFormed(loc[w].record)
    BY TurnAnswers, Fields DEF Types, Shared
<1>2. loc[w].approved = "none"
    BY Options DEF AnswersInv, Bare, Types, Shared
<1>3. /\ tool.gate = "none" /\ tool.sideEffect /\ ~tool.recover /\ ~tool.lookup
      /\ loc[w].record.st \in {"absent", "running", "failed"} /\ rec.st \in {"absent", "running", "failed", "succeeded"}
    BY <1>1 DEF Bare, Gate, SideEffect, Recover, BareInv, OnceInv
<1>4. \A r : ~Asks(r)
    BY <1>3 DEF Asks, Gate
<1>5. ASSUME pc'[w] = "idle", loc'[w].record = Absent, UNCHANGED <<rec, applied, orphans>>
      PROVE  OnceInv' /\ \A v \in Workers : BareInv(v)'
    BY <1>1, <1>5, BareQuiet, Empty
<1>6. ASSUME Notes(w, rec), pc'[w] = "ladder", rec.st \notin Terminal, UNCHANGED <<rec, applied, orphans>>
      PROVE  OnceInv' /\ \A v \in Workers : BareInv(v)'
    <2>1. loc'[w].record.st \in {"absent", "running", "failed"}
        BY <1>3, <1>6 DEF Notes, Terminal
    <2> QED
        BY <1>1, <1>6, <2>1, BareQuiet
<1>7. CASE Start(w)
    BY <1>1, <1>3, <1>7, StartDoes, BareQuiet
<1>8. CASE Read(w)
    BY <1>3, <1>4, <1>5, <1>6, <1>8, ReadDoes DEF Gate
<1>9. CASE Deny(w) \/ Suspend(w) \/ Finish(w) \/ Fail(w)
    <2>1. /\ pc'[w] = "idle" /\ loc'[w].record = Absent /\ UNCHANGED <<applied, orphans>> /\ rec' # Absent
          /\ \/ pc[w] = "finish" /\ rec'.st = "succeeded" /\ rec'.n = 0
             \/ pc[w] = "fail" /\ rec'.st = "failed" /\ rec'.n = Attempts(loc[w].record) + 1
        BY <1>1, <1>9, PutDoes DEF BareInv
    <2>2. Executing(w) /\ loc[w].record = Absent
        BY <1>1, <2>1 DEF Executing, BareInv
    <2>3. rec'.n <= 1 /\ rec'.st \in {"absent", "running", "failed", "succeeded"}
        BY <2>1, <2>2 DEF Attempts, Absent
    <2>4. BareInv(w)'
        BY <2>1, Empty DEF BareInv, Executing
    <2>5. \A v \in Workers : Executing(v) => v = w
        BY <2>2 DEF OnceInv
    <2>6. applied' + orphans' <= 1
        BY <2>1 DEF OnceInv
    <2> QED
        BY <1>1, <2>1, <2>3, <2>4, <2>5, <2>6, BareActs
<1>10. CASE Claim(w) \/ Takeover(w)
    <2>1. pc[w] = "ladder" /\ loc[w].record = Absent /\ loc'[w] = loc[w] /\ UNCHANGED <<applied, orphans>>
        BY <1>1, <1>10, ClaimDoes DEF BareInv
    <2>2. CASE pc'[w] = "lost" /\ UNCHANGED rec
        BY <1>1, <1>3, <2>1, <2>2, BareQuiet
    <2>3. CASE pc'[w] = "spend"
        <3>1. rec = Absent /\ rec'.st = "running" /\ rec'.n = 1 /\ rec' # Absent
            BY <1>10, <2>1, <2>3, ClaimDoes
        <3>2. rec.st = "absent" /\ applied = 0 /\ orphans = 0
            BY <3>1, Empty DEF OnceInv
        <3>3. \A v \in Workers : ~Executing(v)
            BY <3>2 DEF BareInv
        <3>4. BareInv(w)'
            BY <1>3, <2>1, <2>3, <3>1, <3>2 DEF BareInv, Executing, Absent
        <3> QED
            BY <1>1, <2>1, <3>1, <3>2, <3>3, <3>4, BareActs
    <2> QED
        BY <1>10, <2>2, <2>3, ClaimDoes
<1>11. CASE Reread(w)
    BY <1>5, <1>6, <1>11, RereadDoes
<1>12. CASE Busy(w) \/ SkipProbe(w)
    <2>1. CASE pc'[w] = "idle"
        BY <1>5, <1>12, <2>1, BusyDoes
    <2>2. CASE pc'[w] # "idle"
        BY <1>1, <1>3, <1>12, <2>2, BusyDoes, BareQuiet
    <2> QED
        BY <2>1, <2>2
<1>13. CASE Probe(w)
    BY <1>3, <1>13, ProbeDoes DEF Recover
<1>14. CASE Judge(w)
    <2>1. pc[w] = "judge" /\ loc[w].record # Absent
        BY <1>1, <1>14, JudgeDoes DEF BareInv
    <2>2. Blocked(w)
        BY <1>1, <1>2, <1>3, <2>1 DEF Blocked, InDoubt, WellFormed, SideEffect, Recover
    <2> QED
        BY <1>5, <1>14, <2>2, JudgeDoes
<1>15. CASE Spend(w)
    BY <1>1, <1>15, SpendDoes, BareQuiet
<1>16. CASE LookUp(w)
    BY <1>3, <1>16, LookUpDoes
<1>17. CASE Execute(w)
    <2>1. /\ pc[w] = "exec" /\ pc'[w] \in {"finish", "fail"} /\ loc'[w] = loc[w] /\ UNCHANGED rec
          /\ \/ applied' = applied + 1 /\ orphans' = orphans
             \/ applied' = applied /\ orphans' = orphans
             \/ applied' = applied /\ orphans' = orphans + 1
        BY <1>17, ExecuteDoes
    <2>2. Executing(w) /\ applied = 0 /\ orphans = 0 /\ rec.st = "running" /\ rec.n = 1 /\ loc[w].record = Absent
        BY <1>1, <2>1 DEF Executing, BareInv
    <2>3. applied' + orphans' <= 1
        BY <2>1, <2>2
    <2>4. BareInv(w)'
        BY <1>3, <2>1, <2>2 DEF BareInv, Executing, Absent
    <2>5. \A v \in Workers : Executing(v) => v = w
        BY <2>2 DEF OnceInv
    <2>6. rec' # Absent /\ rec'.st = "running" /\ rec'.n <= 1
        BY <2>1, <2>2, Empty
    <2> QED
        BY <1>1, <2>3, <2>4, <2>5, <2>6, BareActs
<1>18. CASE Crash(w)
    BY <1>5, <1>18, CrashDoes
<1> QED
    BY <1>7, <1>8, <1>9, <1>10, <1>11, <1>12, <1>13, <1>14, <1>15, <1>16, <1>17, <1>18 DEF Work

\* What happens outside: a late effect comes when nobody is about to execute.
LEMMA OutsideKeeps ==
    ASSUME IInv, (\E d \in {"yes", "no"} : Answer(d) \/ ChangeMind(d)) \/ Amend \/ Land \/ Tick
    PROVE  IInv'
<1>1. /\ Types' /\ UNCHANGED <<tool, rec, pc, loc>> /\ AnswersInv' /\ applied \in Nat /\ orphans \in Nat
      /\ \/ orphans > 0 /\ orphans' = orphans - 1 /\ applied' = applied + 1
         \/ UNCHANGED <<applied, orphans>>
    BY OutsideDoes, OutsideKeepsAnswers DEF IInv, Types, Shared
<1>2. ASSUME Alone' PROVE rec'.n <= Top /\ \A w \in Workers : AloneInv(w)'
    <2>1. Alone /\ rec.n <= Top /\ \A w \in Workers : AloneInv(w)
        BY <1>1, <1>2 DEF Alone, IInv
    <2>2. \A w \in Workers : AloneInv(w)' <=> AloneInv(w)
        BY <1>1 DEF AloneInv, Executing, Asks, Gate, InDoubt, Attempts, Absent
    <2> QED
        BY <1>1, <2>1, <2>2
<1>3. ASSUME Bare' PROVE OnceInv' /\ \A w \in Workers : BareInv(w)'
    <2>1. OnceInv /\ \A w \in Workers : BareInv(w)
        BY <1>1, <1>3 DEF Bare, Gate, SideEffect, Recover, IInv
    <2>2. applied' + orphans' = applied + orphans
        BY <1>1
    <2>3. CASE UNCHANGED <<applied, orphans>>
        <3>1. \A w \in Workers : BareInv(w)' <=> BareInv(w)
            BY <1>1, <2>3 DEF BareInv, Executing, Absent
        <3>2. OnceInv' <=> OnceInv
            BY <1>1, <2>3 DEF OnceInv, Executing, Absent
        <3> QED
            BY <2>1, <3>1, <3>2
    <2>4. CASE orphans > 0
        <3>1. rec # Absent /\ \A w \in Workers : pc[w] \notin {"spend", "exec"}
            BY <2>1, <2>4 DEF OnceInv, BareInv
        <3>2. ASSUME NEW w \in Workers PROVE BareInv(w)'
            BY <1>1, <2>1, <3>1 DEF BareInv, Executing, Absent
        <3>3. OnceInv'
            BY <1>1, <2>1, <2>2, <3>1 DEF OnceInv, Executing, Absent
        <3> QED
            BY <3>2, <3>3
    <2> QED
        BY <1>1, <2>3, <2>4
<1>4. Top' = Top
    BY DEF Top
<1> QED
    BY <1>1, <1>2, <1>3, <1>4 DEF IInv
-----------------------------------------------------------------------------
(* The invariant *)

\* The inductive invariant holds at first ...
LEMMA Initially == ASSUME Init PROVE IInv
<1>1. /\ rec = Absent /\ pc = [w \in Workers |-> "idle"] /\ loc = [w \in Workers |-> NoLocals] /\ decision = "none"
      /\ pending = "none" /\ answers = [given |-> 0, yes |-> 0] /\ applied = 0 /\ orphans = 0 /\ now = 0 /\ starts = 0 /\ tool \in Tools
    BY DEF Init
<1>2. Absent \in Record /\ WellFormed(Absent) /\ Absent.st = "absent" /\ Absent.n = 0
    BY DEF Absent, Record, WellFormed, InDoubt
<1>3. Types
    BY <1>1, <1>2, Empty DEF Types, Shared, Labels, Answers
<1>4. MaxRetries \in Nat /\ Top \in Nat /\ tool.maxAnswers \in Nat
    BY <1>3, Options DEF Types, Top
<1>5. AnswersInv
    BY <1>1, <1>4, Empty DEF AnswersInv
<1>6. rec.n <= Top /\ \A w \in Workers : AloneInv(w)
    BY <1>1, <1>2, <1>4 DEF AloneInv, Executing
<1>7. OnceInv /\ \A w \in Workers : BareInv(w)
    BY <1>1, <1>2, Empty DEF OnceInv, BareInv, Executing
<1> QED
    BY <1>3, <1>5, <1>6, <1>7 DEF IInv

\* ... and is kept by every step.
LEMMA Inductive == ASSUME IInv, [Next]_vars PROVE IInv'
<1>1. Types /\ AnswersInv
    BY DEF IInv
<1>2. ASSUME NEW w \in Workers, Start(w) \/ Work(w) \/ Crash(w) PROVE IInv'
    <2>1. Types' /\ tool' = tool /\ AnswersInv'
        BY <1>1, <1>2, TurnAnswers, TurnKeepsAnswers DEF Turn
    <2>2. (Alone' <=> Alone) /\ (Bare' <=> Bare) /\ Top' = Top
        BY <2>1 DEF Alone, Bare, Gate, SideEffect, Recover, Top
    <2>3. Alone => rec'.n <= Top /\ \A v \in Workers : AloneInv(v)'
        BY <1>2, AloneTurn DEF IInv
    <2>4. Bare => OnceInv' /\ \A v \in Workers : BareInv(v)'
        BY <1>2, BareTurn DEF IInv
    <2> QED
        BY <2>1, <2>2, <2>3, <2>4 DEF IInv
<1>3. CASE (\E d \in {"yes", "no"} : Answer(d) \/ ChangeMind(d)) \/ Amend \/ Land \/ Tick
    BY <1>3, OutsideKeeps
<1>4. CASE UNCHANGED vars
    BY <1>4 DEF vars, world, IInv, Types, Shared, AnswersInv, Alone, Bare, Gate, SideEffect, Recover, Top, AloneInv, BareInv,
                OnceInv, Executing, WellFormed, InDoubt, Absent, Attempts, Asks
<1> QED
    BY <1>2, <1>3, <1>4 DEF Next

\* The inductive invariant holds in every state the program reaches.
THEOREM Invariance == Spec => []IInv
<1>1. Init => IInv
    BY Initially
<1>2. IInv /\ [Next]_vars => IInv'
    BY Inductive
<1> QED
    BY <1>1, <1>2, PTL DEF Spec

\* At most one worker is between its claim and its outcome.
LEMMA OneExecutor ==
    ASSUME IInv, Sole, NEW v \in Workers, NEW w \in Workers, Executing(v), Executing(w)
    PROVE  v = w
<1>1. CASE Bare
    BY <1>1 DEF IInv, OnceInv
<1>2. CASE Alone
    <2>1. pc[v] # "idle" /\ pc[w] # "idle"
        BY DEF Executing
    <2>2. v \in tool.workers /\ w \in tool.workers
        BY <1>2, <2>1 DEF IInv, AloneInv
    <2> QED
        BY <1>2, <2>2 DEF Alone
<1> QED
    BY <1>1, <1>2 DEF Sole

\* CallInv of every reachable state (durableTool's claim, its compare-and-set takeover and
\* maxRetries): the types, one executor of a call, and no attempt beyond the ceiling.
THEOREM CallHolds == Spec => []CallInv
<1>1. ASSUME IInv PROVE TypeOK
    <2>1. Types /\ Shared
        BY <1>1 DEF IInv, Types
    <2> QED
        BY <2>1 DEF TypeOK, Types, Shared, WellFormed, Labels, Locals, Answers
<1>2. ASSUME IInv, Sole PROVE ExecutorUnique
    <2> DEFINE E == {w \in Workers : Executing(w)}
    <2>1. IsFiniteSet(Workers) /\ E \subseteq Workers
        BY DurableToolAssumption
    <2>2. IsFiniteSet(E)
        BY <2>1, FS_Subset
    <2>3. CASE E = {}
        <3>1. Cardinality(E) = 0
            BY <2>3, FS_EmptySet
        <3> QED
            BY <3>1 DEF ExecutorUnique
    <2>4. CASE E # {}
        <3>1. PICK w \in Workers : w \in E /\ Executing(w)
            BY <2>4
        <3>2. \A v \in E : v = w
            BY <1>2, <3>1, OneExecutor
        <3>3. E = {w}
            BY <3>1, <3>2
        <3>4. Cardinality(E) = 1
            BY <3>3, FS_Singleton
        <3> QED
            BY <3>4 DEF ExecutorUnique
    <2> QED
        BY <2>3, <2>4
<1>3. ASSUME IInv, Sole PROVE RetryCeiling
    <2>1. MaxRetries \in Nat /\ rec.n \in Nat
        BY <1>3, Options DEF IInv, Types, Shared, Record
    <2> QED
        BY <1>3, <2>1 DEF IInv, Sole, OnceInv, RetryCeiling, Top
<1>4. IInv => CallInv
    BY <1>1, <1>2, <1>3 DEF CallInv
<1> QED
    BY <1>4, Invariance, PTL

\* Who writes the record, and over what.
LEMMA Writes ==
    ASSUME IInv, Sole, [Next]_vars, rec' # rec
    PROVE  /\ rec.st # "succeeded" \/ rec'.st = "succeeded"
           /\ rec'.st = "suspended" => Asks(rec)
           /\ InDoubt(rec) /\ InDoubt(rec') => rec'.n >= rec.n
<1>1. Types /\ Shared /\ rec.n \in Nat /\ WellFormed(rec) /\ "succeeded" \in Terminal
    BY DEF IInv, Types, Shared, Record, Terminal
<1>2. PICK w \in Workers : Start(w) \/ Work(w) \/ Crash(w)
    BY <1>1, OutsideDoes DEF Next, vars
<1>3. CASE Deny(w) \/ Suspend(w) \/ Finish(w) \/ Fail(w)
    <2>1. \/ pc[w] = "deny" /\ rec'.st = "denied" /\ rec'.n = 0
          \/ pc[w] = "suspend" /\ rec'.st = "suspended" /\ rec'.n = 0
          \/ pc[w] \in {"finish", "found"} /\ rec'.st = "succeeded" /\ rec'.n = 0
          \/ pc[w] = "fail" /\ rec'.st = "failed" /\ rec'.n = Attempts(loc[w].record) + 1
        BY <1>1, <1>3, PutDoes
    <2>2. CASE pc[w] = "deny"
        <3>1. rec.st \notin Terminal
            BY <2>2 DEF IInv, Sole, AloneInv, BareInv
        <3> QED
            BY <1>1, <2>1, <2>2, <3>1 DEF InDoubt
    <2>3. CASE pc[w] = "suspend"
        <3>1. rec.st \notin Terminal /\ Asks(rec)
            BY <2>3 DEF IInv, Sole, AloneInv, BareInv
        <3> QED
            BY <1>1, <2>1, <2>3, <3>1 DEF InDoubt
    <2>4. CASE pc[w] = "fail"
        <3>1. rec.st = "running" /\ rec.n = Attempts(loc[w].record) + 1
            <4>1. Executing(w)
                BY <2>4 DEF Executing
            <4>2. CASE Alone
                BY <4>1, <4>2 DEF IInv, AloneInv
            <4>3. CASE Bare
                BY <4>1, <4>3 DEF IInv, BareInv, Attempts, Absent
            <4> QED
                BY <4>2, <4>3 DEF Sole
        <3> QED
            BY <1>1, <2>1, <2>4, <3>1
    <2> QED
        BY <2>1, <2>2, <2>3, <2>4 DEF InDoubt
<1>4. CASE Claim(w) \/ Takeover(w)
    <2>1. /\ rec'.st = "running"
          /\ \/ rec = Absent
             \/ pc[w] = "takeover" /\ rec = loc[w].before /\ rec'.n = Attempts(loc[w].before) + 1
        BY <1>1, <1>4, ClaimDoes
    <2>2. CASE rec = Absent
        BY <2>1, <2>2, Empty DEF InDoubt
    <2>3. CASE pc[w] = "takeover" /\ rec = loc[w].before /\ rec'.n = Attempts(loc[w].before) + 1
        <3>1. rec.st \notin Terminal
            BY <2>3 DEF IInv, Sole, AloneInv, BareInv
        <3>2. InDoubt(rec) => rec'.n = rec.n + 1
            BY <2>3 DEF InDoubt, Attempts
        <3> QED
            BY <1>1, <2>1, <3>1, <3>2
    <2> QED
        BY <2>1, <2>2, <2>3
<1>5. \/ Deny(w) \/ Suspend(w) \/ Finish(w) \/ Fail(w) \/ Claim(w) \/ Takeover(w)
    BY <1>1, <1>2, StartDoes, ReadDoes, RereadDoes, BusyDoes, ProbeDoes, JudgeDoes, SpendDoes, LookUpDoes, ExecuteDoes, CrashDoes DEF Work
<1> QED
    BY <1>3, <1>4, <1>5

\* RecordNeverRegresses of every behaviour (writeToolTerminal, the claim and the takeover), where
\* one worker calls or the side effect is bare: a success stands, only a policy that asks about any
\* call puts its question over an attempt, and from one attempt to the next the count grows.
THEOREM RecordForward == Spec => RecordNeverRegresses
<1>1. ASSUME IInv, [Next]_vars PROVE [Sole => SucceededStable /\ NeverHidesAttempt /\ AttemptsNeverDecrease]_vars
    <2>1. rec.n \in Nat /\ WellFormed(rec) /\ Absent.st = "absent"
        BY <1>1, Empty DEF IInv, Types, Shared, Record
    <2> SUFFICES ASSUME Sole PROVE SucceededStable /\ NeverHidesAttempt /\ AttemptsNeverDecrease
        OBVIOUS
    <2>2. CASE rec' = rec
        BY <2>1, <2>2 DEF SucceededStable, NeverHidesAttempt, AttemptsNeverDecrease, InDoubt
    <2>3. CASE rec' # rec
        <3>1. /\ rec.st # "succeeded" \/ rec'.st = "succeeded"
              /\ rec'.st = "suspended" => Asks(rec)
              /\ InDoubt(rec) /\ InDoubt(rec') => rec'.n >= rec.n
            BY <1>1, <2>3, Writes
        <3>2. Asks(rec) /\ InDoubt(rec) => Gate = "any"
            BY <2>1 DEF Asks, InDoubt
        <3> QED
            BY <3>1, <3>2 DEF SucceededStable, NeverHidesAttempt, AttemptsNeverDecrease
    <2> QED
        BY <2>2, <2>3
<1> QED
    BY <1>1, Invariance, PTL DEF Spec, RecordNeverRegresses

-----------------------------------------------------------------------------
(* The budget of effects *)

\* The amounts are numbers.
LEMMA Amounts ==
    ASSUME Types, NEW w \in Workers
    PROVE  /\ Used(w) \in Nat /\ Unspent(w) \in {0, 1} /\ Coming \in {0, 1} /\ Base \in {0, 1} /\ Newer(w) \in {0, 1}
           /\ answers.yes \in Nat /\ applied \in Nat /\ orphans \in Nat
<1>1. applied \in Nat /\ orphans \in Nat /\ answers.yes \in Nat
    BY DEF Types, Shared
<1>2. \A b : One(b) \in {0, 1}
    BY DEF One
<1>3. Unspent(w) \in {0, 1} /\ Coming \in {0, 1} /\ Base \in {0, 1} /\ Newer(w) \in {0, 1}
    BY <1>2 DEF Unspent, Coming, Base, Newer
<1>4. One(pc[w] = "exec" \/ (pc[w] = "spend" /\ loc[w].approved # "yes")) \in {0, 1}
    BY <1>2
<1> QED
    BY <1>1, <1>3, <1>4 DEF Used

\* A step that uses no more than before keeps the balance.
LEMMA Saved ==
    ASSUME Types, Types', NEW w \in Workers, Balance(w), Doubt(w), UNCHANGED answers,
           Used(w)' <= Used(w), Unspent(w)' <= Unspent(w), Coming' <= Coming, Newer(w)' <= Newer(w), Base <= Base',
           InDoubt(rec)' => InDoubt(rec)
    PROVE  Balance(w)' /\ Doubt(w)'
<1>1. /\ Used(w) \in Nat /\ Unspent(w) \in Nat /\ Coming \in Nat /\ Base \in Nat /\ Newer(w) \in Nat /\ answers.yes \in Nat
    BY Amounts
<1>2. /\ Used(w)' \in Nat /\ Unspent(w)' \in Nat /\ Coming' \in Nat /\ Base' \in Nat /\ Newer(w)' \in Nat /\ answers'.yes = answers.yes
    <2>1. applied' \in Nat /\ orphans' \in Nat
        BY DEF Types, Shared
    <2>2. \A b : One(b) \in {0, 1}
        BY DEF One
    <2>3. (Unspent(w) \in {0, 1} /\ Coming \in {0, 1} /\ Base \in {0, 1} /\ Newer(w) \in {0, 1})'
        BY <2>2 DEF Unspent, Coming, Base, Newer, One
    <2>4. Used(w)' \in Nat
        BY <2>1 DEF Used, One
    <2> QED
        BY <2>3, <2>4
<1>3. Balance(w)'
    BY <1>1, <1>2 DEF Balance
<1>4. Doubt(w)'
    BY <1>1, <1>2 DEF Doubt
<1> QED
    BY <1>3, <1>4

\* A call that returns saves what it had not spent.
LEMMA Ends ==
    ASSUME Types, Types', NEW w \in Workers, BudgetInv(w), tool' = tool, pc'[w] = "idle", loc'[w].approved = "none",
           UNCHANGED <<decision, applied, orphans, pending, answers>>, rec' = rec \/ rec' # Absent,
           InDoubt(rec)' => InDoubt(rec)
    PROVE  BudgetInv(w)'
<1>1. applied \in Nat /\ orphans \in Nat
    BY DEF Types, Shared
<1>2. Used(w)' <= Used(w)
    BY <1>1 DEF Used, One
<1>3. Unspent(w)' <= Unspent(w) /\ Newer(w)' <= Newer(w) /\ Coming' <= Coming
    BY DEF Unspent, Newer, Coming, One
<1>4. Base <= Base'
    BY DEF Base, One, Gate, Absent
<1>5. Balance(w)' /\ Doubt(w)'
    BY <1>2, <1>3, <1>4, Saved DEF BudgetInv
<1> QED
    BY <1>5 DEF BudgetInv, Unasked

\* A call that goes on, with nothing spent and nothing written, keeps its balance.
LEMMA GoesOn ==
    ASSUME Types, Types', NEW w \in Workers, BudgetInv(w), tool' = tool, UNCHANGED <<rec, decision, applied, orphans, pending, answers>>,
           loc'[w].approved = loc[w].approved, pc[w] \notin {"idle", "spend", "exec"}, pc'[w] \notin {"idle", "spend", "exec"},
           pc'[w] \in {"finish", "found", "fail"} => loc[w].approved # "yes",
           pc[w] \in {"finish", "found", "fail"} => loc[w].approved # "yes",
           Unasked(w)'
    PROVE  BudgetInv(w)'
<1>1. applied \in Nat /\ orphans \in Nat
    BY DEF Types, Shared
<1>2. Used(w)' <= Used(w)
    BY <1>1 DEF Used, One
<1>3. Unspent(w)' <= Unspent(w) /\ Newer(w)' <= Newer(w) /\ Coming' <= Coming
    BY DEF Unspent, Newer, Coming, One
<1>4. Base <= Base' /\ (InDoubt(rec)' => InDoubt(rec))
    BY DEF Base, One, Gate, Absent, InDoubt
<1>5. Balance(w)' /\ Doubt(w)'
    BY <1>2, <1>3, <1>4, Saved DEF BudgetInv
<1> QED
    BY <1>5 DEF BudgetInv

\* The claim: an approved one leaves its answer to be spent, another is the free first
\* attempt, or the takeover of an effect that recover() says has not happened.
LEMMA ClaimCovered ==
    ASSUME IInv, Alone, SideEffect, NEW w \in Workers, BudgetInv(w), Claim(w) \/ Takeover(w), pc'[w] = "spend"
    PROVE  BudgetInv(w)'
<1>1. Types /\ AloneInv(w) /\ WellFormed(rec)
    BY DEF IInv, Types, Shared
<1>2. /\ Types' /\ tool' = tool /\ loc'[w] = loc[w] /\ UNCHANGED <<decision, applied, orphans, pending, answers>>
      /\ rec'.st = "running" /\ rec' # Absent /\ InDoubt(rec)' /\ pc[w] \in {"ladder", "takeover"}
      /\ (pc[w] = "ladder" /\ rec = Absent) \/ pc[w] = "takeover"
    BY <1>1, ClaimDoes DEF Turn, InDoubt
<1>3. /\ Used(w) \in Nat /\ Unspent(w) \in {0, 1} /\ Coming \in {0, 1} /\ Base \in {0, 1} /\ Newer(w) \in {0, 1}
      /\ answers.yes \in Nat /\ applied \in Nat /\ orphans \in Nat
    BY <1>1, Amounts
<1>4. Used(w) = applied + orphans /\ Newer(w) <= Unspent(w)
    BY <1>2, <1>3 DEF Used, Newer, Unspent, One
<1>5. Unspent(w)' = Unspent(w) /\ Newer(w)' = Newer(w) /\ Coming' = Coming
    BY <1>2 DEF Unspent, Newer, Coming, One
<1>6. Base <= Base' /\ Base' \in {0, 1} /\ answers'.yes = answers.yes
    BY <1>2 DEF Base, One, Gate, Absent
<1>7. Used(w) + Unspent(w) + Coming <= answers.yes + Base
    BY DEF BudgetInv, Balance
<1>8. CASE loc[w].approved = "yes"
    <2>1. Used(w)' = applied + orphans /\ Unspent(w) = 1 /\ Newer(w) = 0
        BY <1>2, <1>3, <1>8 DEF Used, Unspent, Newer, One
    <2>2. Balance(w)'
        BY <1>3, <1>4, <1>5, <1>6, <1>7, <2>1 DEF Balance
    <2>3. 1 + Newer(w)' + Coming' <= answers'.yes + Base'
        BY <1>3, <1>4, <1>5, <1>6, <1>7, <2>1
    <2> QED
        BY <1>2, <1>8, <2>2, <2>3 DEF BudgetInv, Doubt, Unasked
<1>9. CASE loc[w].approved # "yes" /\ pc[w] = "ladder"
    <2>1. Used(w)' = applied + orphans + 1
        BY <1>2, <1>3, <1>9 DEF Used, One
    <2>2. Gate = "none" /\ rec = Absent
        BY <1>2, <1>9 DEF BudgetInv, Unasked
    <2>3. Base = 0 /\ Base' = 1
        BY <1>2, <2>2 DEF Base, One, Gate, Absent
    <2>4. Balance(w)'
        BY <1>3, <1>4, <1>5, <1>6, <1>7, <2>1, <2>3 DEF Balance
    <2>5. 1 + Newer(w)' + Coming' <= answers'.yes + Base'
        BY <1>3, <1>4, <1>5, <1>6, <1>7, <2>3
    <2> QED
        BY <1>2, <1>9, <2>4, <2>5 DEF BudgetInv, Doubt, Unasked
<1>10. CASE loc[w].approved # "yes" /\ pc[w] = "takeover"
    <2>1. Used(w)' = applied + orphans + 1 /\ Unspent(w) = Newer(w)
        BY <1>2, <1>3, <1>10 DEF Used, Unspent, Newer, One
    <2>2. applied = 0 /\ orphans = 0 /\ rec # Absent
        BY <1>1, <1>10 DEF BudgetInv, Unasked, AloneInv
    <2>3. InDoubt(rec)
        BY <1>10, <2>2 DEF BudgetInv, Unasked
    <2>4. 1 + Newer(w) + Coming <= answers.yes + Base
        BY <2>3 DEF BudgetInv, Doubt
    <2>5. Balance(w)'
        BY <1>3, <1>5, <1>6, <2>1, <2>2, <2>4 DEF Balance
    <2>6. 1 + Newer(w)' + Coming' <= answers'.yes + Base'
        BY <1>3, <1>5, <1>6, <2>4
    <2> QED
        BY <1>2, <1>10, <2>5, <2>6 DEF BudgetInv, Doubt, Unasked
<1> QED
    BY <1>2, <1>8, <1>9, <1>10

\* The answer is spent before the effect.
LEMMA SpendCovered ==
    ASSUME IInv, Vouched, SideEffect, NEW w \in Workers, BudgetInv(w), Spend(w)
    PROVE  BudgetInv(w)'
<1>1. Types /\ AnswersInv
    BY DEF IInv
<1>2. /\ Types' /\ tool' = tool /\ loc'[w] = loc[w] /\ UNCHANGED <<rec, applied, orphans, pending, answers>>
      /\ pc[w] = "spend" /\ pc'[w] = "exec"
      /\ decision' = (IF AttemptScope /\ SideEffect /\ loc[w].approved = "yes" THEN "spent" ELSE decision)
    BY <1>1, SpendDoes DEF Turn
<1>3. /\ Used(w) \in Nat /\ Unspent(w) \in {0, 1} /\ Coming \in {0, 1} /\ Base \in {0, 1} /\ Newer(w) \in {0, 1}
      /\ answers.yes \in Nat /\ applied \in Nat /\ orphans \in Nat
    BY <1>1, Amounts
<1>4. Base' = Base /\ answers'.yes = answers.yes /\ (InDoubt(rec)' <=> InDoubt(rec))
    BY <1>2 DEF Base, One, Gate, Absent, InDoubt
<1>5. Unasked(w)'
    BY <1>2 DEF Unasked
<1>6. CASE loc[w].approved = "yes"
    <2>1. answers.given # 0
        BY <1>1, <1>6 DEF AnswersInv
    <2>2. AttemptScope
        BY <1>1, <2>1, Options DEF Vouched, AnswersInv, Types, Shared
    <2>3. decision' = "spent"
        BY <1>2, <1>6, <2>2
    <2>4. /\ Used(w)' = applied + orphans + 1 /\ Used(w) = applied + orphans /\ Unspent(w) = 1
        BY <1>2, <1>3, <1>6 DEF Used, Unspent, One
    <2>5. Unspent(w)' = 0 /\ Coming' = 0 /\ Newer(w)' = 0
        BY <1>2, <2>3 DEF Unspent, Coming, Newer, One
    <2>6. Used(w) + Unspent(w) + Coming <= answers.yes + Base
        BY DEF BudgetInv, Balance
    <2>7. Balance(w)'
        BY <1>3, <1>4, <2>4, <2>5, <2>6 DEF Balance
    <2>8. 1 + Newer(w)' + Coming' <= answers'.yes + Base'
        BY <1>3, <1>4, <2>4, <2>5, <2>6
    <2> QED
        BY <1>2, <1>5, <2>3, <2>7, <2>8 DEF BudgetInv, Doubt
<1>7. CASE loc[w].approved # "yes"
    <2>1. decision' = decision
        BY <1>2, <1>7
    <2>2. Used(w)' <= Used(w)
        BY <1>2, <1>3, <1>7 DEF Used, One
    <2>3. Unspent(w)' <= Unspent(w) /\ Coming' <= Coming /\ Newer(w)' <= Newer(w)
        BY <1>2, <1>7, <2>1 DEF Unspent, Coming, Newer, One
    <2>4. Base <= Base'
        BY <1>3, <1>4
    <2>5. Balance(w)' /\ Doubt(w)'
        BY <1>1, <1>2, <1>4, <2>2, <2>3, <2>4, Saved DEF BudgetInv
    <2> QED
        BY <1>2, <1>5, <2>1, <2>5 DEF BudgetInv
<1> QED
    BY <1>6, <1>7

\* The execution, or the lookup in its place: one effect at most, and none of a tool with a
\* recover hook stays in flight.
LEMMA ExecuteCovered ==
    ASSUME IInv, Vouched, NEW w \in Workers, BudgetInv(w), LookUp(w) \/ Execute(w)
    PROVE  BudgetInv(w)'
<1>1. Types
    BY DEF IInv
<1>2. /\ Types' /\ tool' = tool /\ loc'[w] = loc[w] /\ UNCHANGED <<rec, decision, pending, answers>>
      /\ pc[w] = "exec" /\ pc'[w] \in {"found", "finish", "fail"}
      /\ \/ applied' = applied + 1 /\ orphans' = orphans
         \/ applied' = applied /\ orphans' = orphans
         \/ tool.timeouts /\ applied' = applied /\ orphans' = orphans + 1
    BY <1>1, LookUpDoes, ExecuteDoes DEF Turn
<1>3. applied \in Nat /\ orphans \in Nat
    BY <1>1, Amounts
<1>4. Base <= Base' /\ (InDoubt(rec)' => InDoubt(rec))
    BY <1>2 DEF Base, One, Gate, Absent, InDoubt
<1>5. Unasked(w)'
    BY <1>2 DEF Unasked
<1>6. Used(w) = applied + orphans + 1 /\ Used(w)' = applied' + orphans'
    BY <1>2, <1>3 DEF Used, One
<1>7. Used(w)' <= Used(w)
    BY <1>2, <1>3, <1>6
<1>8. Unspent(w)' <= Unspent(w) /\ Coming' <= Coming /\ Newer(w)' <= Newer(w)
    BY <1>2 DEF Unspent, Coming, Newer, One
<1>9. Balance(w)' /\ Doubt(w)'
    BY <1>1, <1>2, <1>4, <1>7, <1>8, Saved DEF BudgetInv
<1>10. tool.recover => orphans' = 0
    BY <1>2 DEF BudgetInv, Vouched, Recover
<1> QED
    BY <1>2, <1>5, <1>9, <1>10 DEF BudgetInv

\* Every turn of the worker stays within its budget.
LEMMA BudgetTurn ==
    ASSUME IInv, Alone, Vouched, SideEffect, NEW w \in Workers, BudgetInv(w), Start(w) \/ Work(w) \/ Crash(w)
    PROVE  BudgetInv(w)'
<1>1. Types /\ AloneInv(w) /\ WellFormed(rec)
    BY DEF IInv, Types, Shared
<1>2. Types' /\ tool' = tool
    BY <1>1, TurnAnswers DEF Turn
<1>3. ASSUME pc'[w] = "idle", loc'[w].approved = "none", UNCHANGED <<rec, decision, applied, orphans, pending, answers>>
      PROVE  BudgetInv(w)'
    <2>1. InDoubt(rec)' => InDoubt(rec)
        BY <1>3 DEF InDoubt
    <2> QED
        BY <1>1, <1>2, <1>3, <2>1, Ends
<1>4. CASE Start(w)
    <2>1. /\ pc[w] = "idle" /\ pc'[w] = "read" /\ UNCHANGED <<rec, decision, applied, orphans, pending, answers>>
          /\ loc'[w].approved = (IF decision = "spent" THEN "none" ELSE decision)
        BY <1>1, <1>4, StartDoes
    <2>2. loc[w].approved # "yes" /\ applied \in Nat /\ orphans \in Nat
        BY <1>1, <2>1, Amounts DEF BudgetInv, Unasked
    <2>3. Used(w)' <= Used(w)
        BY <2>1, <2>2 DEF Used, One
    <2>4. Unspent(w)' <= Unspent(w) /\ Newer(w)' <= Newer(w) /\ Coming' <= Coming
        BY <2>1, <2>2 DEF Unspent, Newer, Coming, One
    <2>5. Base <= Base' /\ (InDoubt(rec)' => InDoubt(rec))
        BY <1>2, <2>1 DEF Base, One, Gate, Absent, InDoubt
    <2>6. Balance(w)' /\ Doubt(w)'
        BY <1>1, <1>2, <2>1, <2>3, <2>4, <2>5, Saved DEF BudgetInv
    <2> QED
        BY <1>2, <2>1, <2>6 DEF BudgetInv, Unasked
<1>5. CASE Read(w)
    <2>1. /\ pc[w] = "read" /\ UNCHANGED <<rec, decision, applied, orphans, pending, answers>>
          /\ \/ pc'[w] = "idle" /\ loc'[w].approved = "none"
             \/ /\ loc'[w].approved = loc[w].approved /\ pc'[w] \in {"deny", "suspend", "ladder"} /\ rec.st \notin Terminal
                /\ pc'[w] = "ladder" => loc[w].approved = "yes" \/ (rec.st # "suspended" /\ ~Asks(rec))
        BY <1>1, <1>5, ReadDoes DEF Notes
    <2>2. CASE pc'[w] # "idle"
        <3>1. rec \in Record /\ tool.gate \in {"none", "fresh", "any"}
            BY <1>1, Options DEF Types, Shared
        <3>2. pc'[w] = "ladder" /\ loc[w].approved # "yes" => (rec = Absent => Gate = "none") /\ (rec = Absent \/ InDoubt(rec))
            BY <1>1, <2>1, <3>1 DEF Asks, Gate, Terminal, Record, InDoubt, WellFormed
        <3>3. Unasked(w)'
            BY <1>2, <2>1, <2>2, <3>2 DEF Unasked, Gate, InDoubt, Absent
        <3> QED
            BY <1>1, <1>2, <2>1, <2>2, <3>3, GoesOn
    <2> QED
        BY <1>3, <2>1, <2>2
<1>6. CASE Deny(w) \/ Suspend(w) \/ Finish(w) \/ Fail(w)
    <2>1. /\ pc'[w] = "idle" /\ loc'[w].approved = "none" /\ UNCHANGED <<decision, applied, orphans, pending, answers>> /\ rec' # Absent
          /\ rec'.st \in {"denied", "suspended", "succeeded"} \/ pc[w] = "fail"
        BY <1>1, <1>6, PutDoes
    <2>2. InDoubt(rec)' => InDoubt(rec)
        BY <1>1, <2>1 DEF InDoubt, AloneInv, Executing
    <2> QED
        BY <1>1, <1>2, <2>1, <2>2, Ends
<1>7. CASE (Claim(w) \/ Takeover(w)) /\ pc'[w] = "spend"
    BY <1>7, ClaimCovered
<1>8. CASE (Claim(w) \/ Takeover(w)) /\ pc'[w] # "spend"
    <2>1. /\ pc[w] \in {"ladder", "takeover"} /\ pc'[w] = "lost" /\ loc'[w] = loc[w] /\ (pc[w] = "ladder" => rec # Absent)
          /\ UNCHANGED <<rec, decision, applied, orphans, pending, answers>>
        BY <1>1, <1>8, ClaimDoes
    <2>2. rec' # Absent
        BY <1>1, <2>1 DEF AloneInv
    <2>3. Unasked(w)'
        BY <2>1, <2>2 DEF Unasked, Absent
    <2> QED
        BY <1>1, <1>2, <2>1, <2>3, GoesOn
<1>9. CASE Reread(w)
    <2>1. /\ pc[w] \in {"lost", "poll"} /\ UNCHANGED <<rec, decision, applied, orphans, pending, answers>>
          /\ \/ pc'[w] = "idle" /\ loc'[w].approved = "none"
             \/ /\ loc'[w].approved = loc[w].approved /\ pc'[w] = "ladder" /\ rec.st \notin Terminal /\ rec.st # "suspended"
        BY <1>1, <1>9, RereadDoes DEF Notes
    <2>2. CASE pc'[w] = "ladder"
        <3>1. rec \in Record
            BY <1>1 DEF Types, Shared
        <3>2. rec # Absent /\ InDoubt(rec)
            BY <1>1, <2>1, <2>2, <3>1 DEF BudgetInv, Unasked, Terminal, Record, InDoubt, WellFormed
        <3>3. Unasked(w)'
            BY <1>2, <2>1, <2>2, <3>2 DEF Unasked, InDoubt, Absent
        <3> QED
            BY <1>1, <1>2, <2>1, <2>2, <3>3, GoesOn
    <2> QED
        BY <1>3, <2>1, <2>2
<1>10. CASE Busy(w) \/ SkipProbe(w)
    <2>1. /\ pc[w] = "ladder" /\ UNCHANGED <<rec, decision, applied, orphans, pending, answers>>
          /\ \/ pc'[w] = "idle" /\ loc'[w].approved = "none"
             \/ pc'[w] = "poll" /\ loc'[w] = loc[w]
             \/ /\ pc'[w] = "judge" /\ loc'[w] = loc[w] /\ loc[w].record # Absent
                /\ ~(SideEffect /\ InDoubt(loc[w].record) /\ loc[w].approved # "yes" /\ Recover /\ loc[w].probe # "down")
        BY <1>1, <1>10, BusyDoes
    <2>2. loc[w].record = rec
        BY <1>1, <2>1 DEF AloneInv
    <2>3. CASE pc'[w] = "poll"
        <3>1. rec # Absent
            <4>1. SkipProbe(w) => pc'[w] = "judge"
                BY <1>1 DEF SkipProbe, Go, Types
            <4>2. Fresh(loc[w].record)
                BY <1>10, <2>3, <4>1 DEF Busy
            <4> QED
                BY <2>2, <4>2 DEF Fresh, Absent
        <3>2. Unasked(w)'
            BY <2>1, <2>3, <3>1 DEF Unasked, Absent
        <3> QED
            BY <1>1, <1>2, <2>1, <2>3, <3>2, GoesOn
    <2>4. CASE pc'[w] = "judge"
        <3>1. loc[w].approved # "yes" => InDoubt(rec)
            BY <2>1, <2>2, <2>4 DEF BudgetInv, Unasked
        <3>2. loc'[w] = loc[w] /\ rec # Absent
            BY <2>1, <2>2, <2>4
        <3>3. ~(loc[w].approved # "yes" /\ tool.recover /\ loc[w].probe # "down")
            BY <2>1, <2>2, <2>4, <3>1 DEF Recover
        <3>4. Unasked(w)'
            BY <1>2, <2>1, <2>4, <3>1, <3>2, <3>3 DEF Unasked, InDoubt, Absent
        <3> QED
            BY <1>1, <1>2, <2>1, <2>4, <3>2, <3>4, GoesOn
    <2> QED
        BY <1>3, <2>1, <2>3, <2>4
<1>11. CASE Probe(w)
    <2>1. /\ pc[w] = "ladder" /\ UNCHANGED <<rec, decision, applied, orphans, pending, answers>> /\ loc[w].record # Absent
          /\ loc[w].approved # "yes" /\ loc'[w].approved = loc[w].approved /\ InDoubt(loc[w].record)
          /\ \/ pc'[w] = "found"
             \/ pc'[w] = "judge" /\ (loc'[w].probe = "down" \/ applied = 0)
        BY <1>1, <1>11, ProbeDoes
    <2>2. loc[w].record = rec
        BY <1>1, <2>1 DEF AloneInv
    <2>3. Unasked(w)'
        BY <1>2, <2>1, <2>2 DEF Unasked, InDoubt, Absent
    <2> QED
        BY <1>1, <1>2, <2>1, <2>3, GoesOn
<1>12. CASE Judge(w)
    <2>1. /\ pc[w] = "judge" /\ UNCHANGED <<rec, decision, applied, orphans, pending, answers>>
          /\ \/ pc'[w] = "idle" /\ loc'[w].approved = "none"
             \/ pc'[w] = "takeover" /\ ~Blocked(w) /\ loc'[w].approved = loc[w].approved
        BY <1>1, <1>12, JudgeDoes
    <2>2. CASE pc'[w] = "takeover"
        <3>1. loc[w].record = rec /\ rec # Absent
            BY <1>1, <2>1 DEF AloneInv
        <3>2. loc[w].approved # "yes" => InDoubt(rec)
            BY <2>1, <3>1 DEF BudgetInv, Unasked
        <3>3. loc[w].approved # "yes" => tool.recover /\ loc[w].probe # "down"
            BY <2>1, <2>2, <3>1, <3>2 DEF Blocked, Recover
        <3>4. loc[w].approved # "yes" => tool.recover /\ applied = 0
            BY <2>1, <3>3 DEF BudgetInv, Unasked
        <3>5. Unasked(w)'
            BY <1>2, <2>1, <2>2, <3>1, <3>2, <3>4 DEF Unasked, InDoubt, Absent
        <3> QED
            BY <1>1, <1>2, <2>1, <2>2, <3>5, GoesOn
    <2> QED
        BY <1>3, <2>1, <2>2
<1>13. CASE Spend(w)
    BY <1>13, SpendCovered
<1>14. CASE LookUp(w) \/ Execute(w)
    BY <1>14, ExecuteCovered
<1>15. CASE Crash(w)
    BY <1>1, <1>3, <1>15, CrashDoes
<1> QED
    BY <1>4, <1>5, <1>6, <1>7, <1>8, <1>9, <1>10, <1>11, <1>12, <1>13, <1>14, <1>15 DEF Work

\* Outside: an answer brings its own cover, and an effect in flight was covered when it left.
LEMMA BudgetOutside ==
    ASSUME IInv, NEW w \in Workers, BudgetInv(w), (\E d \in {"yes", "no"} : Answer(d) \/ ChangeMind(d)) \/ Amend \/ Land \/ Tick
    PROVE  BudgetInv(w)'
<1>1. Types
    BY DEF IInv
<1>2. Types' /\ UNCHANGED <<tool, rec, pc, loc>>
    BY <1>1, OutsideDoes
<1>3. /\ Used(w) \in Nat /\ Unspent(w) \in {0, 1} /\ Coming \in {0, 1} /\ Base \in {0, 1} /\ Newer(w) \in {0, 1}
      /\ answers.yes \in Nat /\ applied \in Nat /\ orphans \in Nat
    BY <1>1, Amounts
<1>4. Base' = Base /\ (InDoubt(rec)' <=> InDoubt(rec))
    BY <1>2 DEF Base, One, Gate, Absent, InDoubt
<1>5. Used(w) + Unspent(w) + Coming <= answers.yes + Base /\ (InDoubt(rec) => 1 + Newer(w) + Coming <= answers.yes + Base)
    BY DEF BudgetInv, Balance, Doubt
<1>6. CASE orphans > 0 /\ orphans' = orphans - 1 /\ applied' = applied + 1 /\ UNCHANGED <<decision, pending, answers>>
    <2>1. ~tool.recover
        BY <1>3, <1>6 DEF BudgetInv
    <2>2. Unasked(w)'
        BY <1>2, <2>1 DEF BudgetInv, Unasked, Gate, InDoubt, Absent
    <2>3. Used(w)' <= Used(w)
        BY <1>2, <1>3, <1>6 DEF Used, One
    <2>4. Unspent(w)' <= Unspent(w) /\ Coming' <= Coming /\ Newer(w)' <= Newer(w) /\ Base <= Base'
        BY <1>2, <1>3, <1>4, <1>6 DEF Unspent, Coming, Newer, One
    <2>5. Balance(w)' /\ Doubt(w)'
        BY <1>1, <1>2, <1>4, <1>6, <2>3, <2>4, Saved DEF BudgetInv
    <2> QED
        BY <1>2, <1>6, <2>1, <2>2, <2>5 DEF BudgetInv
<1>7. ASSUME UNCHANGED <<applied, orphans>>, Balance(w)', Doubt(w)', pending' = "yes" => decision' \in {"no", "spent"}
      PROVE  BudgetInv(w)'
    <2>1. Unasked(w)'
        BY <1>2, <1>7 DEF BudgetInv, Unasked, Gate, InDoubt, Absent
    <2> QED
        BY <1>2, <1>7, <2>1 DEF BudgetInv
<1>8. ASSUME UNCHANGED <<applied, orphans>> PROVE Used(w)' = Used(w)
    BY <1>2, <1>8 DEF Used
<1>9. ASSUME NEW d \in {"yes", "no"}, UNCHANGED <<applied, orphans>>, answers'.yes = answers.yes + One(d = "yes"), pending = "none",
             \/ decision \in {"none", "spent"} /\ decision' = d /\ pending' = pending
             \/ decision \in {"yes", "no"} \ {d} /\ decision' = decision /\ pending' = d
      PROVE  BudgetInv(w)'
    <2>1. Coming = 0 /\ One(d = "yes") \in {0, 1}
        BY <1>9 DEF Coming, One
    <2>2. Unspent(w)' + Coming' <= Unspent(w) + One(d = "yes")
        BY <1>2, <1>9 DEF Unspent, Coming, One
    <2>3. Newer(w)' + Coming' <= Newer(w) + One(d = "yes")
        BY <1>2, <1>9 DEF Newer, Coming, One
    <2>4. Unspent(w)' \in {0, 1} /\ Newer(w)' \in {0, 1} /\ Coming' \in {0, 1}
        BY DEF Unspent, Newer, Coming, One
    <2>5. Balance(w)'
        BY <1>3, <1>4, <1>5, <1>8, <1>9, <2>1, <2>2, <2>4 DEF Balance
    <2>6. Doubt(w)'
        BY <1>3, <1>4, <1>5, <1>9, <2>1, <2>3, <2>4 DEF Doubt
    <2>7. pending' = "yes" => decision' \in {"no", "spent"}
        BY <1>9
    <2> QED
        BY <1>7, <1>9, <2>5, <2>6, <2>7
<1>10. ASSUME UNCHANGED <<applied, orphans>>, UNCHANGED answers,
              \/ pending # "none" /\ pending' = "none" /\ decision' = (IF decision = "spent" THEN decision ELSE pending)
              \/ UNCHANGED <<decision, pending>>
       PROVE  BudgetInv(w)'
    <2>1. /\ decision \in {"none", "yes", "no", "spent"} /\ pending \in Answers /\ (pending = "yes" => decision \in {"no", "spent"})
        BY <1>1 DEF Types, Shared, BudgetInv
    <2>2. Unspent(w)' + Coming' <= Unspent(w) + Coming
        BY <1>2, <1>10, <2>1 DEF Unspent, Coming, One
    <2>3. Newer(w)' + Coming' <= Newer(w) + Coming
        BY <1>2, <1>10, <2>1 DEF Newer, Coming, One
    <2>4. Unspent(w)' \in {0, 1} /\ Newer(w)' \in {0, 1} /\ Coming' \in {0, 1}
        BY DEF Unspent, Newer, Coming, One
    <2>5. Balance(w)'
        BY <1>3, <1>4, <1>5, <1>8, <1>10, <2>2, <2>4 DEF Balance
    <2>6. Doubt(w)'
        BY <1>3, <1>4, <1>5, <1>10, <2>3, <2>4 DEF Doubt
    <2>7. pending' = "yes" => decision' \in {"no", "spent"}
        BY <1>10, <2>1
    <2> QED
        BY <1>7, <1>10, <2>5, <2>6, <2>7
<1> QED
    BY <1>1, <1>6, <1>9, <1>10, OutsideDoes

\* The budget holds at first ...
LEMMA BudgetFirst == ASSUME Init PROVE Budget
<1>1. IInv
    BY Initially
<1>2. /\ rec = Absent /\ pc = [w \in Workers |-> "idle"] /\ loc = [w \in Workers |-> NoLocals] /\ decision = "none"
      /\ pending = "none" /\ answers = [given |-> 0, yes |-> 0] /\ applied = 0 /\ orphans = 0
    BY DEF Init
<1>3. ASSUME NEW w \in tool.workers PROVE BudgetInv(w)
    <2>1. w \in Workers /\ Types
        BY <1>1, <1>3, Options DEF IInv, Types
    <2>2. pc[w] = "idle" /\ loc[w].approved = "none" /\ ~InDoubt(rec)
        BY <1>2, <2>1, Empty DEF InDoubt
    <2>3. Used(w) = 0 /\ Unspent(w) = 0 /\ Coming = 0 /\ answers.yes = 0
        BY <1>2, <2>2 DEF Used, Unspent, Coming, One
    <2>4. Balance(w)
        BY <2>1, <2>3, Amounts DEF Balance
    <2> QED
        BY <1>2, <2>2, <2>4 DEF BudgetInv, Doubt, Unasked
<1> QED
    BY <1>2, <1>3 DEF Budget

\* ... and is kept by every step.
LEMMA BudgetKept == ASSUME IInv, Budget, [Next]_vars PROVE Budget'
<1>1. Types /\ tool.workers \subseteq Workers
    BY Options DEF IInv, Types
<1>2. ASSUME tool' = tool PROVE (Alone' <=> Alone) /\ (Vouched' <=> Vouched) /\ (SideEffect' <=> SideEffect)
    BY <1>2 DEF Alone, Vouched, SideEffect, AttemptScope, Recover
<1>3. ASSUME NEW w \in Workers, Start(w) \/ Work(w) \/ Crash(w) PROVE Budget'
    <2>1. tool' = tool
        BY <1>1, <1>3, TurnAnswers DEF Turn
    <2> SUFFICES ASSUME Alone, Vouched, SideEffect
                 PROVE  (tool.workers = {} => applied' = 0 /\ orphans' = 0) /\ \A v \in tool.workers : BudgetInv(v)'
        BY <1>2, <2>1 DEF Budget
    <2>2. w \in tool.workers
        BY <1>3 DEF IInv, AloneInv, Start, Work, Crash, Read, Deny, Suspend, Claim, Reread, Busy, Probe, SkipProbe, Judge, Takeover,
                    Spend, LookUp, Execute, Finish, Fail
    <2>3. BudgetInv(w)'
        BY <1>3, <2>2, BudgetTurn DEF Budget
    <2> QED
        BY <2>2, <2>3 DEF Alone
<1>4. CASE (\E d \in {"yes", "no"} : Answer(d) \/ ChangeMind(d)) \/ Amend \/ Land \/ Tick
    <2>1. /\ tool' = tool /\ orphans \in Nat
          /\ (orphans = 0 => UNCHANGED <<applied, orphans>>)
        BY <1>1, <1>4, OutsideDoes DEF Types, Shared
    <2>2. ASSUME NEW v \in tool.workers, BudgetInv(v) PROVE BudgetInv(v)'
        BY <1>1, <1>4, <2>2, BudgetOutside
    <2> QED
        BY <1>2, <2>1, <2>2 DEF Budget
<1>5. CASE UNCHANGED vars
    BY <1>5 DEF vars, world, Budget, Alone, Vouched, SideEffect, AttemptScope, Recover, BudgetInv, Balance, Doubt, Unasked, Used, Unspent,
                Coming, Newer, Base, Gate, InDoubt, Absent
<1> QED
    BY <1>3, <1>4, <1>5 DEF Next

\* EffectsAuthorised of every reachable state (durableTool's ladder and resolveApprovals): a side
\* effect happens once for an ungated call and once for every human yes, through crashes, retries,
\* changed minds and calls that fail after their effect.
THEOREM EffectsVouched == Spec => []EffectsAuthorised
<1>1. ASSUME IInv, Budget PROVE EffectsAuthorised
    <2>1. Types /\ applied \in Nat /\ orphans \in Nat /\ answers.yes \in Nat
        BY <1>1 DEF IInv, Types, Shared
    <2> SUFFICES ASSUME Sole, Vouched, SideEffect
                 PROVE  applied <= answers.yes + IF Gate = "none" THEN 1 ELSE 0
        BY DEF EffectsAuthorised
    <2>2. CASE Bare
        <3>1. applied + orphans <= 1 /\ Gate = "none"
            BY <1>1, <2>2 DEF IInv, OnceInv, Bare
        <3> QED
            BY <2>1, <3>1
    <2>3. CASE Alone /\ tool.workers = {}
        BY <1>1, <2>1, <2>3 DEF Budget
    <2>4. CASE Alone /\ tool.workers # {}
        <3>1. PICK w \in tool.workers : BudgetInv(w)
            BY <1>1, <2>4 DEF Budget
        <3>2. w \in Workers
            BY <2>1, Options DEF Types
        <3>3. /\ Used(w) \in Nat /\ Unspent(w) \in {0, 1} /\ Coming \in {0, 1} /\ Used(w) >= applied
            <4>1. Used(w) \in Nat /\ Unspent(w) \in {0, 1} /\ Coming \in {0, 1}
                BY <2>1, <3>2, Amounts
            <4> QED
                BY <2>1, <4>1 DEF Used, One
        <3>4. Base <= (IF Gate = "none" THEN 1 ELSE 0) /\ Base \in {0, 1}
            BY DEF Base, One
        <3>5. Used(w) + Unspent(w) + Coming <= answers.yes + Base
            BY <3>1 DEF BudgetInv, Balance
        <3> QED
            BY <2>1, <3>3, <3>4, <3>5
    <2> QED
        BY <2>2, <2>3, <2>4 DEF Sole
<1>2. Init => Budget
    BY BudgetFirst
<1>3. IInv /\ Budget /\ [Next]_vars => Budget'
    BY BudgetKept
<1>4. IInv /\ Budget => EffectsAuthorised
    BY <1>1
<1> QED
    BY <1>2, <1>3, <1>4, Invariance, PTL DEF Spec
=============================================================================
