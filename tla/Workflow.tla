------------------------------ MODULE Workflow ------------------------------
(***************************************************************************)
(* One run of the workflow engine (packages/workflow/src/workflow.ts) and  *)
(* the waker that resumes it (packages/scheduler/src/workflow-waker.ts):   *)
(* runResumable with journaled steps, the write-ahead claim of side-effect *)
(* steps, suspension, the durable cancel flag, the status registry, and    *)
(* the wake tickets.                                                       *)
(*                                                                         *)
(* An output is the number of the call that computed it.  recover()        *)
(* answers truthfully, and a claim outlives its TTL only when no living    *)
(* worker stands behind it (claimTtlMs is calibrated, as documented).      *)
(***************************************************************************)
EXTENDS Naturals, FiniteSets, Sequences

CONSTANTS Workers,    \* hosts and wakers that execute the run
          Plans       \* workflows: their steps; bounds: the calls that hosts may
                      \* make (then only the waker resumes the run), and the faults

ASSUME WorkflowAssumption ==
    /\ IsFiniteSet(Workers)
    /\ \A p \in Plans :
          /\ p.maxFaults \in Nat /\ p.maxCalls \in Nat
          /\ \* side effect, recover(), suspends until a time
             p.steps \in Seq([effect : BOOLEAN, recover : BOOLEAN, sleeps : BOOLEAN])

VARIABLES plan,       \* the element of Plans this behaviour is about
          out,        \* the journaled output of a step, 0 if none
          claim,      \* the record under `<stepKey>:_claim`
          expired,    \* the calls whose claims are older than claimTtlMs
          canceled,   \* the flag `_canceled`
          status,     \* the registry record `wfrun:<runId>`
          tickets,    \* the wake tickets taken, by updatedAt
          timeUp,     \* the sleep is over
          effects,    \* the external world: how often a step's effect happened
          cancel,     \* the call of cancelWorkflowRun
          pc, loc,    \* a worker's place in its call, and its local variables
          calls, faults,
          late        \* history: step bodies a worker ran after the flag was set

journal == <<out, claim, canceled, status, tickets>>
vars == <<plan, journal, expired, timeUp, effects, cancel, pc, loc, calls, faults, late>>
-----------------------------------------------------------------------------
N == Len(plan.steps)

NoClaim == [by |-> 0, is |-> "none"]

\* the number of the call, the position, the output so far, the claim as read,
\* how the step ended, and the updatedAt of the run the waker listed
NoLocals == [call |-> 0, i |-> 1, cur |-> 0, claim |-> NoClaim, ended |-> "none", at |-> 0]

Init ==
    /\ plan \in Plans
    /\ out = [i \in 1 .. N |-> 0]
    /\ claim = [i \in 1 .. N |-> NoClaim]
    /\ effects = [i \in 1 .. N |-> 0]
    /\ expired = {} /\ tickets = {}
    /\ canceled = FALSE /\ timeUp = FALSE
    /\ status = [is |-> "none", at |-> 0]
    /\ cancel = "idle"
    /\ pc = [w \in Workers |-> "idle"]
    /\ loc = [w \in Workers |-> NoLocals]
    /\ calls = 0 /\ faults = 0
    /\ late = [w \in Workers |-> 0]

Go(w, label) == pc' = [pc EXCEPT ![w] = label]

Return(w) == Go(w, "idle") /\ loc' = [loc EXCEPT ![w] = NoLocals]

Step(w) == plan.steps[loc[w].i]

\* the next step, whose input is this one's output
Advance(w, value) ==
    /\ loc' = [loc EXCEPT ![w] = [NoLocals EXCEPT !.call = loc[w].call, !.i = loc[w].i + 1,
                                                 !.cur = value]]
    /\ Go(w, "flag")

\* Something throws, or a process dies
Fault == faults < plan.maxFaults /\ faults' = faults + 1
-----------------------------------------------------------------------------
(* runResumable *)

Call(w) ==
    /\ calls' = calls + 1
    /\ loc' = [loc EXCEPT ![w] = [NoLocals EXCEPT !.call = calls + 1]]
    /\ Go(w, "flag")

\* A host starts the run, or calls it again.
Start(w) ==
    /\ pc[w] = "idle" /\ calls < plan.maxCalls
    /\ Call(w)
    /\ UNCHANGED <<plan, journal, expired, timeUp, effects, cancel, faults, late>>

\* A step boundary: get the cancel flag, or the steps are over.
Boundary(w) ==
    /\ pc[w] = "flag"
    /\ \/ loc[w].i > N /\ loc' = [loc EXCEPT ![w].ended = "completed"] /\ Go(w, "status")
       \/ /\ loc[w].i <= N /\ canceled
          /\ loc' = [loc EXCEPT ![w].ended = "canceled"] /\ Go(w, "status")
       \/ loc[w].i <= N /\ ~canceled /\ Go(w, "get") /\ UNCHANGED loc
    /\ UNCHANGED <<plan, journal, expired, timeUp, effects, cancel, calls, faults, late>>

\* putStatus: the registry mirrors how the call ended
PutStatus(w) ==
    /\ pc[w] = "status"
    /\ status' = [is |-> loc[w].ended, at |-> status.at + 1]
    /\ Return(w)
    /\ UNCHANGED <<plan, out, claim, canceled, tickets, expired, timeUp, effects, cancel, calls, faults, late>>

\* runStep: a journaled output is replayed
GetOutput(w) ==
    /\ pc[w] = "get"
    /\ \/ out[loc[w].i] # 0 /\ Advance(w, out[loc[w].i])
       \/ out[loc[w].i] = 0 /\ Go(w, IF Step(w).effect THEN "claim" ELSE "run") /\ UNCHANGED loc
    /\ UNCHANGED <<plan, journal, expired, timeUp, effects, cancel, calls, faults, late>>
-----------------------------------------------------------------------------
(* runSideEffectStep: claim, judge, recover, adopt *)

Mine(w) == [by |-> loc[w].call, is |-> "live"]

\* putIfAbsent of the write-ahead claim
Claim(w) ==
    /\ pc[w] = "claim"
    /\ \/ /\ claim[loc[w].i] = NoClaim
          /\ claim' = [claim EXCEPT ![loc[w].i] = Mine(w)]
          /\ Go(w, "run")
       \/ claim[loc[w].i] # NoClaim /\ Go(w, "done?") /\ UNCHANGED claim
    /\ UNCHANGED <<plan, out, canceled, status, tickets, expired, timeUp, effects, cancel, loc, calls, faults, late>>

\* get the output: completed between the cache check and here
GetDone(w) ==
    /\ pc[w] = "done?"
    /\ \/ out[loc[w].i] # 0 /\ Advance(w, out[loc[w].i])
       \/ out[loc[w].i] = 0 /\ Go(w, "claim?") /\ UNCHANGED loc
    /\ UNCHANGED <<plan, journal, expired, timeUp, effects, cancel, calls, faults, late>>

InFlight(c) == c.is = "live" /\ c.by \notin expired

\* get the claim: a clean suspend is adopted, a live one and one whose outcome
\* nobody can tell (no recover) throw StepRetryBlockedError
Judge(w) ==
    LET c == claim[loc[w].i] IN
    /\ pc[w] = "claim?"
    /\ \/ c.is = "released" /\ loc' = [loc EXCEPT ![w].claim = c] /\ Go(w, "adopt")
       \/ InFlight(c) /\ Return(w)
       \/ c.is # "released" /\ ~InFlight(c) /\ ~Step(w).recover /\ Return(w)
       \/ /\ c.is # "released" /\ ~InFlight(c) /\ Step(w).recover
          /\ loc' = [loc EXCEPT ![w].claim = c] /\ Go(w, "recover")
    /\ UNCHANGED <<plan, journal, expired, timeUp, effects, cancel, calls, faults, late>>

\* recover() asks the external system: the effect landed, or it never did
Recover(w) ==
    /\ pc[w] = "recover"
    /\ Go(w, IF effects[loc[w].i] > 0 THEN "write" ELSE "adopt")
    /\ UNCHANGED <<plan, journal, expired, timeUp, effects, cancel, loc, calls, faults, late>>

\* mutant: the takeover is a plain put
AdoptBlind(w) ==
    /\ pc[w] = "adopt"
    /\ claim' = [claim EXCEPT ![loc[w].i] = Mine(w)]
    /\ Go(w, "landed?")
    /\ UNCHANGED <<plan, out, canceled, status, tickets, expired, timeUp, effects, cancel, loc, calls, faults, late>>

\* adoptClaim: putIfMatch against the record as read, or blocked
Adopt(w) ==
    /\ pc[w] = "adopt"
    /\ \/ /\ claim[loc[w].i] = loc[w].claim
          /\ claim' = [claim EXCEPT ![loc[w].i] = Mine(w)]
          /\ Go(w, "landed?") /\ UNCHANGED loc
       \/ claim[loc[w].i] # loc[w].claim /\ Return(w) /\ UNCHANGED claim
    /\ UNCHANGED <<plan, out, canceled, status, tickets, expired, timeUp, effects, cancel, calls, faults, late>>

\* get the output: a sibling's recover wrote it without touching the claim
GetLanded(w) ==
    /\ pc[w] = "landed?"
    /\ \/ out[loc[w].i] # 0 /\ Advance(w, out[loc[w].i])
       \/ out[loc[w].i] = 0 /\ Go(w, "run") /\ UNCHANGED loc
    /\ UNCHANGED <<plan, journal, expired, timeUp, effects, cancel, calls, faults, late>>
-----------------------------------------------------------------------------
(* The step's body *)

Happen(w) == effects' = [effects EXCEPT ![loc[w].i] = @ + 1]

\* Where a body that did not finish goes: the claim is stamped first.
Ended(w, how) ==
    /\ loc' = [loc EXCEPT ![w].ended = how]
    /\ Go(w, IF Step(w).effect THEN "stamp" ELSE IF how = "suspended" THEN "status" ELSE "throw")

\* It suspends until its time, has its effect, or throws before or after it.
Run(w) ==
    /\ pc[w] = "run"
    /\ late' = [late EXCEPT ![w] = IF canceled THEN @ + 1 ELSE @]
    /\ \/ Step(w).sleeps /\ ~timeUp /\ Ended(w, "suspended") /\ UNCHANGED <<effects, faults>>
       \/ /\ Step(w).sleeps => timeUp
          /\ \/ Happen(w) /\ Go(w, "write") /\ UNCHANGED <<loc, faults>>
             \/ Happen(w) /\ Fault /\ Ended(w, "failed")
             \/ Fault /\ Ended(w, "failed") /\ UNCHANGED effects
    /\ UNCHANGED <<plan, journal, expired, timeUp, cancel, calls>>

\* mutant: the loser of the race keeps its own result
WriteKeepsOwn(w) ==
    /\ pc[w] = "write"
    /\ out' = IF out[loc[w].i] = 0 THEN [out EXCEPT ![loc[w].i] = loc[w].call] ELSE out
    /\ Advance(w, loc[w].call)
    /\ UNCHANGED <<plan, claim, canceled, status, tickets, expired, timeUp, effects, cancel, calls, faults, late>>

\* putIfAbsent of the output; the loser takes the winner's
Write(w) ==
    /\ pc[w] = "write"
    /\ out' = IF out[loc[w].i] = 0 THEN [out EXCEPT ![loc[w].i] = loc[w].call] ELSE out
    /\ Advance(w, out'[loc[w].i])
    /\ UNCHANGED <<plan, claim, canceled, status, tickets, expired, timeUp, effects, cancel, calls, faults, late>>

\* The claim is stamped by compare-and-set against one's own record.
Stamp(w) ==
    /\ pc[w] = "stamp"
    /\ claim' = IF claim[loc[w].i] # Mine(w) THEN claim
                ELSE [claim EXCEPT ![loc[w].i].is = IF loc[w].ended = "suspended" THEN "released"
                                                                                  ELSE "failed"]
    /\ Go(w, IF loc[w].ended = "suspended" THEN "status" ELSE "throw")
    /\ UNCHANGED <<plan, out, canceled, status, tickets, expired, timeUp, effects, cancel, loc, calls, faults, late>>

\* runResumable rethrows; nothing is written.
Throw(w) ==
    /\ pc[w] = "throw"
    /\ Return(w)
    /\ UNCHANGED <<plan, journal, expired, timeUp, effects, cancel, calls, faults, late>>
-----------------------------------------------------------------------------
(* cancelWorkflowRun *)

\* get the status: a completed run is not canceled
CancelRead ==
    /\ cancel = "idle"
    /\ cancel' = IF status.is = "completed" THEN "done" ELSE "flag"
    /\ UNCHANGED <<plan, journal, expired, timeUp, effects, pc, loc, calls, faults, late>>

CancelFlag ==
    /\ cancel = "flag"
    /\ canceled' = TRUE
    /\ cancel' = "status"
    /\ UNCHANGED <<plan, out, claim, status, tickets, expired, timeUp, effects, pc, loc, calls, faults, late>>

CancelStatus ==
    /\ cancel = "status"
    /\ status' = [is |-> "canceled", at |-> status.at + 1]
    /\ cancel' = "done"
    /\ UNCHANGED <<plan, out, claim, canceled, tickets, expired, timeUp, effects, pc, loc, calls, faults, late>>
-----------------------------------------------------------------------------
(* The waker *)

\* tick: the run is listed as suspended, and its time has come
Listed(w) ==
    /\ pc[w] = "idle"
    /\ status.is = "suspended" /\ timeUp /\ status.at \notin tickets
    /\ loc' = [loc EXCEPT ![w].at = status.at]
    /\ Go(w, "ticket")
    /\ UNCHANGED <<plan, journal, expired, timeUp, effects, cancel, calls, faults, late>>

\* mutant: the ticket does not say which suspension it is for
TicketPerRun(w) ==
    /\ pc[w] = "ticket"
    /\ \/ tickets = {} /\ tickets' = {loc[w].at} /\ Call(w)
       \/ tickets # {} /\ Return(w) /\ UNCHANGED <<tickets, calls>>
    /\ UNCHANGED <<plan, out, claim, canceled, status, expired, timeUp, effects, cancel, faults, late>>

\* claim the ticket of this suspension, and resume
Ticket(w) ==
    /\ pc[w] = "ticket"
    /\ \/ loc[w].at \notin tickets /\ tickets' = tickets \cup {loc[w].at} /\ Call(w)
       \/ loc[w].at \in tickets /\ Return(w) /\ UNCHANGED <<tickets, calls>>
    /\ UNCHANGED <<plan, out, claim, canceled, status, expired, timeUp, effects, cancel, faults, late>>
-----------------------------------------------------------------------------
(* The environment *)

TimeUp ==
    /\ ~timeUp
    /\ timeUp' = TRUE
    /\ UNCHANGED <<plan, journal, expired, effects, cancel, pc, loc, calls, faults, late>>

\* claimTtlMs runs out on the claim of a call that is gone
Expire(i) ==
    /\ claim[i].is = "live" /\ claim[i].by \notin expired
    /\ \A w \in Workers : loc[w].call # claim[i].by
    /\ expired' = expired \cup {claim[i].by}
    /\ UNCHANGED <<plan, journal, timeUp, effects, cancel, pc, loc, calls, faults, late>>

Crash(w) ==
    /\ pc[w] # "idle" /\ Fault
    /\ Return(w)
    /\ UNCHANGED <<plan, journal, expired, timeUp, effects, cancel, calls, late>>

RunResumable(w) ==
    \/ Boundary(w) \/ PutStatus(w) \/ GetOutput(w) \/ Claim(w) \/ GetDone(w) \/ Judge(w)
    \/ Recover(w) \/ Adopt(w) \/ GetLanded(w) \/ Run(w) \/ Write(w) \/ Stamp(w) \/ Throw(w)

Wake(w) == Listed(w) \/ Ticket(w)

Next ==
    \/ \E w \in Workers : Start(w) \/ RunResumable(w) \/ Wake(w) \/ Crash(w)
    \/ CancelRead \/ CancelFlag \/ CancelStatus \/ TimeUp
    \/ \E i \in 1 .. N : Expire(i)

Spec == Init /\ [][Next]_vars

\* A call that was made goes on, wakers tick, sleeps end; nobody has to start,
\* cancel or fail.
FairSpec ==
    /\ Spec
    /\ \A w \in Workers : WF_vars(RunResumable(w) \/ Wake(w))
    /\ WF_vars(TimeUp)
-----------------------------------------------------------------------------
(* Properties *)

\* Records and calls have their types; an output is a call that was made.
TypeOK ==
    /\ \A i \in 1 .. N : /\ out[i] \in 0 .. calls /\ effects[i] \in Nat
                         /\ claim[i] \in [by : 0 .. calls, is : {"none", "live", "released", "failed"}]
    /\ status.is \in {"none", "suspended", "completed", "canceled"} /\ status.at \in Nat
    /\ tickets \subseteq 1 .. status.at /\ expired \subseteq 1 .. calls
    /\ \A w \in Workers : loc[w].call \in 0 .. calls /\ loc[w].i \in 1 .. N + 1 /\ loc[w].cur \in 0 .. calls

\* The write-ahead claim: however often the run is resumed, by whomever, and
\* wherever it crashed or threw, a side effect happens at most once.
EffectAtMostOnce ==
    \A i \in 1 .. N : plan.steps[i].effect => effects[i] <= 1

\* One truth: every worker goes on with the journaled output of the step before,
\* also the one that computed another and lost the race.
ReplayAgrees ==
    \A w \in Workers : pc[w] # "idle" /\ loc[w].i > 1 => loc[w].cur = out[loc[w].i - 1]

\* Cancellation reaches a worker at its next step boundary: after the flag is
\* set it runs at most the body it was about to run.
CancelReaches == \A w \in Workers : late[w] <= 1

\* While nothing throws or crashes a run that sleeps is woken: once its time has come, it
\* is not listed as suspended for ever; and a late `suspended` written
\* over the registry record of a run that has ended is corrected for good.
SleepersWakeFaultless ==
    plan.maxFaults = 0 /\ timeUp /\ status.is = "suspended" ~> [](status.is # "suspended")

\* What holds of a run at any time: its types, one truth, and that a cancel reaches it.
RunInv == TypeOK /\ ReplayAgrees /\ CancelReaches
-----------------------------------------------------------------------------
(* Said in the code's comments and not true of it (README, Disagreements)  *)

\* workflow-waker.ts:139-143, "correctness does NOT depend on this CAS": a worker that
\* dies, or a step that throws, after the ticket was claimed leaves the status record
\* and its updatedAt as they were, and every later tick finds the ticket taken.
SleepersWake == status.is = "suspended" /\ timeUp ~> status.is # "suspended"
=============================================================================
