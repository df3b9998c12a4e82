------------------------------ MODULE DupMarker ------------------------------
(***************************************************************************)
(* The duplicate-side-effect marker of durable-tool.ts under               *)
(* sideEffectDuplicates 'block' without a window: calls with different ids *)
(* and identical arguments share one marker.  A call reads it at the gate, *)
(* claims it before the effect, completes it after a success and releases  *)
(* it after a failure.  A call a human approved skips gate and claim.      *)
(***************************************************************************)
EXTENDS Integers

CONSTANTS Calls,      \* toolCallIds
          Approved,   \* the calls with an explicit approval
          StaleTtl,   \* staleTtlMs
          Stalls,     \* an execution may outlast the TTL of its claim
          Crashes     \* a worker may crash

ASSUME DupMarkerAssumption ==
    /\ Approved \subseteq Calls
    /\ StaleTtl \in Nat
    /\ Stalls \in BOOLEAN /\ Crashes \in BOOLEAN

VARIABLES marker,  \* the DupMarker row
          clock,   \* journal.now()
          pc,      \* where a call is
          at,      \* the clock a call sampled for its claim
          raw      \* the marker a call read for its compare-and-set

markerVars == <<marker, clock, pc, at, raw>>
-----------------------------------------------------------------------------
None == [st |-> "absent", by |-> "nobody", at |-> 0]
InFlight(c) == [st |-> "in-flight", by |-> c, at |-> at[c]]
Complete(c) == [st |-> "completed", by |-> c, at |-> clock]
Free(c) == [st |-> "released", by |-> c, at |-> clock]

MarkerInit ==
    /\ marker = None
    /\ clock = 0
    /\ pc = [c \in Calls |-> "gate"]
    /\ at = [c \in Calls |-> 0]
    /\ raw = [c \in Calls |-> None]

Go(c, label) == pc' = [pc EXCEPT ![c] = label]
Read(c) == raw' = [raw EXCEPT ![c] = marker]

\* The policy gate: only a completed marker speaks.
Gate(c) ==
    /\ pc[c] = "gate"
    /\ \/ c \in Approved /\ Go(c, "exec")
       \/ c \notin Approved /\ marker.st = "completed" /\ Go(c, "blocked")
       \/ c \notin Approved /\ marker.st # "completed" /\ Go(c, "claim")
    /\ UNCHANGED <<marker, clock, at, raw>>

\* The claim is stamped with the clock, ...
Stamp(c) ==
    /\ pc[c] = "claim"
    /\ at' = [at EXCEPT ![c] = clock]
    /\ Go(c, "claim-get")
    /\ UNCHANGED <<marker, clock, raw>>

\* ... claimDupMarker reads the row ...
ClaimGet(c) ==
    /\ pc[c] = "claim-get"
    /\ Read(c)
    /\ Go(c, "claim-cas")
    /\ UNCHANGED <<marker, clock, at>>

Takeable(m) ==
    \/ m.st \in {"absent", "released"}
    \/ m.st = "in-flight" /\ clock - m.at > StaleTtl

\* mutant: a blind write instead of putIfAbsent and putIfMatch
ClaimBlind(c) ==
    /\ pc[c] = "claim-cas"
    /\ \/ Takeable(raw[c]) /\ marker' = InFlight(c) /\ Go(c, "exec")
       \/ ~Takeable(raw[c]) /\ Go(c, "blocked") /\ UNCHANGED marker
    /\ UNCHANGED <<clock, at, raw>>

\* ... and takes it if it is absent, released or stale, and still as read.
ClaimCas(c) ==
    /\ pc[c] = "claim-cas"
    /\ \/ /\ Takeable(raw[c]) /\ marker = raw[c]
          /\ marker' = InFlight(c) /\ Go(c, "exec")
       \/ /\ ~Takeable(raw[c]) \/ marker # raw[c]
          /\ Go(c, "blocked") /\ UNCHANGED marker
    /\ UNCHANGED <<clock, at, raw>>

\* original(input): the effect happens, or it throws
Execute(c) ==
    /\ pc[c] = "exec"
    /\ \E o \in {"ran", "threw"} : Go(c, o)
    /\ UNCHANGED <<marker, clock, at, raw>>

\* writeToolTerminal puts the tool record ...
Record(c) ==
    /\ pc[c] = "ran"
    /\ Go(c, "finalize")
    /\ UNCHANGED <<marker, clock, at, raw>>

\* ... claims an absent marker as completed, or reads it ...
Finalize(c) ==
    /\ pc[c] = "finalize"
    /\ \/ marker = None /\ marker' = Complete(c) /\ Go(c, "done") /\ UNCHANGED raw
       \/ marker # None /\ Read(c) /\ Go(c, "finalize-cas") /\ UNCHANGED marker
    /\ UNCHANGED <<clock, at>>

Ours(c, m) == m.st = "released" \/ (m.st = "in-flight" /\ m.by = c)

\* ... and overwrites its own claim or a released slot.
FinalizeCas(c) ==
    /\ pc[c] = "finalize-cas"
    /\ marker' = IF Ours(c, raw[c]) /\ marker = raw[c] THEN Complete(c) ELSE marker
    /\ Go(c, "done")
    /\ UNCHANGED <<clock, at, raw>>

\* mutant: every failing call releases, also one that claimed nothing
ReleaseAlways(c) ==
    /\ pc[c] = "threw"
    /\ marker' = Free(c)
    /\ Go(c, "failed")
    /\ UNCHANGED <<clock, at, raw>>

\* The catch: a call that claimed the marker releases it, by a plain put.
Release(c) ==
    /\ pc[c] = "threw"
    /\ marker' = IF c \in Approved THEN marker ELSE Free(c)
    /\ Go(c, "failed")
    /\ UNCHANGED <<clock, at, raw>>

Die(c) ==
    /\ Crashes /\ pc[c] \notin {"blocked", "done", "failed", "crashed"}
    /\ Go(c, "crashed")
    /\ UNCHANGED <<marker, clock, at, raw>>

\* The call holds the marker.
Executing(c) == c \notin Approved /\ pc[c] \in {"exec", "ran", "finalize", "finalize-cas", "threw"}

\* A call stalls when the TTL of its claim runs out under it.
Stalled(c) ==
    /\ Executing(c) \/ pc[c] \in {"claim-get", "claim-cas"}
    /\ clock - at[c] >= StaleTtl

\* Time passes while the age of a claim matters.
Elapse ==
    /\ marker.st = "in-flight" /\ clock - marker.at <= StaleTtl
    /\ Stalls \/ ~\E c \in Calls : Stalled(c)
    /\ clock' = clock + 1
    /\ UNCHANGED <<marker, pc, at, raw>>

MarkerNext ==
    \/ Elapse
    \/ \E c \in Calls :
          \/ Gate(c) \/ Stamp(c) \/ ClaimGet(c) \/ ClaimCas(c) \/ Execute(c) \/ Record(c)
          \/ Finalize(c) \/ FinalizeCas(c) \/ Release(c) \/ Die(c)

MarkerSpec == MarkerInit /\ [][MarkerNext]_markerVars
-----------------------------------------------------------------------------
(* Properties *)

\* Every variable has its type, and only an unapproved call's marker is in
\* flight or released: an approved call never claims one.
MarkerTypeOK ==
    /\ clock \in Nat
    /\ at \in [Calls -> 0 .. clock]
    /\ pc \in [Calls -> {"gate", "claim", "claim-get", "claim-cas", "exec", "ran", "threw",
                         "finalize", "finalize-cas", "blocked", "done", "failed", "crashed"}]
    /\ \A m \in {marker} \cup {raw[c] : c \in Calls} :
          \/ m = None
          \/ m.st = "completed" /\ m.by \in Calls /\ m.at \in 0 .. clock
          \/ m.st \in {"in-flight", "released"} /\ m.by \in Calls \ Approved /\ m.at \in 0 .. clock

\* Two unapproved calls never hold the marker at once (the same-step race).
OneExecutor == \A c, d \in Calls : Executing(c) /\ Executing(d) => c = d

\* Once an unapproved call has finished its success, the marker says so for
\* good: otherwise the next identical call would run the effect again.
SuccessMarked == (\E c \in Calls \ Approved : pc[c] = "done") => marker.st = "completed"

\* A completed marker stays: first success wins.
FirstSuccessStays == marker.st = "completed" => marker' = marker

\* No unapproved call runs the effect after another one ended its success:
\* the duplicate the guard exists to stop.
NoEffectAfterSuccess ==
    \A c, d \in Calls \ Approved :
          pc[d] = "done" => ~(pc[c] = "exec" /\ pc'[c] = "ran")

\* What holds at any time: the types, one executor, and a marker for every success.
MarkerInv == MarkerTypeOK /\ OneExecutor /\ SuccessMarked

\* A success is final: its marker stays, and no other unapproved call runs the
\* effect after it.
SuccessIsFinal == [][FirstSuccessStays /\ NoEffectAfterSuccess]_markerVars
=============================================================================
