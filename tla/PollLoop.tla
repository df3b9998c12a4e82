------------------------------ MODULE PollLoop ------------------------------
(***************************************************************************)
(* The poll loop shared by queue, events, scheduler and retention          *)
(* (packages/durable/src/polling.ts): a self-rescheduling timer chain with *)
(* back-off, start() and stop().  Every step runs to completion on the     *)
(* event loop; between them lies the await of fn().                        *)
(***************************************************************************)
EXTENDS Naturals, FiniteSets

CONSTANTS Handles,    \* timer handles; bounds the timers armed at once
          Undefined,
          PollMs, MaxPollMs,
          Backoff

ASSUME PollLoopAssumption ==
    /\ IsFiniteSet(Handles) /\ Undefined \notin Handles
    /\ PollMs \in Nat \ {0} /\ MaxPollMs \in Nat /\ PollMs <= MaxPollMs
    /\ Backoff \in BOOLEAN

VARIABLES timer,    \* the variable `timer`: a handle, which may have fired, or Undefined
          armed,    \* the timers set and neither fired nor cleared
          polling,  \* the overlap flag
          running,  \* calls of fn() in flight
          delay     \* currentPollMs

loopVars == <<timer, armed, polling, running, delay>>
-----------------------------------------------------------------------------
LoopInit ==
    /\ timer = Undefined
    /\ armed = {}
    /\ polling = FALSE
    /\ running = 0
    /\ delay = PollMs

\* setTimeout(tick): a handle that is not in use
Arm(h) == h \notin armed /\ armed' = armed \cup {h} /\ timer' = h

start ==
    /\ timer = Undefined
    /\ \E h \in Handles : Arm(h) /\ Cardinality(armed) + 1 < Cardinality(Handles)
    /\ delay' = PollMs
    /\ UNCHANGED <<polling, running>>

stop ==
    /\ armed' = armed \ {timer}
    /\ timer' = Undefined
    /\ UNCHANGED <<polling, running, delay>>

\* mutant: without the overlap flag
FireUnguarded(h) ==
    /\ h \in armed
    /\ armed' = armed \ {h}
    /\ polling' = TRUE /\ running' = running + 1
    /\ UNCHANGED <<timer, delay>>

\* A timer fires: tick() calls fn, or returns at once under the flag.
Fire(h) ==
    /\ h \in armed
    /\ armed' = armed \ {h}
    /\ \/ polling /\ UNCHANGED <<polling, running>>
       \/ ~polling /\ polling' = TRUE /\ running' = running + 1
    /\ UNCHANGED <<timer, delay>>

\* the next interval without progress
Grown == IF 2 * delay <= MaxPollMs THEN 2 * delay ELSE MaxPollMs

\* mutant: an empty or failed poll ends the chain
SettleIfProgress(progressed) ==
    /\ running > 0
    /\ running' = running - 1
    /\ polling' = FALSE
    /\ delay' = IF progressed \/ ~Backoff THEN PollMs ELSE Grown
    /\ IF timer = Undefined \/ ~progressed
       THEN UNCHANGED <<timer, armed>>
       ELSE \E h \in Handles : Arm(h)

\* fn() settles (a throw counts as no progress): the next interval is chosen
\* and, unless stopped meanwhile, the next tick scheduled.
Settle(progressed) ==
    /\ running > 0
    /\ running' = running - 1
    /\ polling' = FALSE
    /\ delay' = IF progressed \/ ~Backoff THEN PollMs ELSE Grown
    /\ \/ timer = Undefined /\ UNCHANGED <<timer, armed>>
       \/ timer # Undefined /\ \E h \in Handles : Arm(h)

LoopNext ==
    \/ start \/ stop
    \/ \E h \in Handles : Fire(h)
    \/ \E progressed \in BOOLEAN : Settle(progressed)

LoopSpec == LoopInit /\ [][LoopNext]_loopVars

\* Timers fire and fn() settles; nobody has to call start() or stop().
FairLoop ==
    /\ LoopSpec
    /\ \A h \in Handles : WF_loopVars(Fire(h))
    /\ WF_loopVars(\E progressed \in BOOLEAN : Settle(progressed))
-----------------------------------------------------------------------------
(* Properties *)

\* Every variable has its type, and the interval stays between its bounds.
LoopTypeOK ==
    /\ timer \in Handles \cup {Undefined}
    /\ armed \subseteq Handles
    /\ polling \in BOOLEAN
    /\ running \in Nat
    /\ delay \in PollMs .. MaxPollMs

\* fn() never overlaps itself, also across a stop() and start() in mid-flight,
\* after which several timers tick.
NoOverlap == running <= 1

\* The flag says exactly whether fn() is in flight.
FlagTells == polling <=> running = 1

\* The chain never dies: a started loop has a timer armed or fn() in flight.
ChainAlive == timer # Undefined => armed # {} \/ running > 0

\* A started loop polls again unless it is stopped.
StartedPolls == timer # Undefined ~> running > 0 \/ timer = Undefined

\* The promises of createPollLoop at any time: the types, no overlap, and a chain
\* of timers that does not die.
LoopInv == LoopTypeOK /\ NoOverlap /\ ChainAlive
=============================================================================
