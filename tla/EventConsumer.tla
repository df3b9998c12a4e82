---------------------------- MODULE EventConsumer ----------------------------
(***************************************************************************)
(* The event bus (packages/events/src/index.ts) as one consumer name sees  *)
(* it: the append-only log, the markers evtack, evtatt and evtdead, the    *)
(* persisted cursor and the rescan flag; the instances that poll under     *)
(* that name, and the operators that release quarantined events.           *)
(*                                                                         *)
(* Every request to the work store is one step.  Records that differ only  *)
(* in nextAt or at are told apart by their writer; releasedAt is read from *)
(* a clock that ticks between two releases.                                *)
(***************************************************************************)
EXTENDS Naturals, FiniteSets, Sequences

CONSTANTS Procs,        \* instances and operators
          Teams,        \* which of them take part, the consumer's maxAttempts, and
                        \* bounds on calls of retryDeadEvent and on crashes
          PageSize,     \* WorkStore.list's page
          ReleaseTries, \* RELEASE_CAS_TRIES
          MaxEvents     \* bound: events ever emitted

ASSUME EventConsumerAssumption ==
    /\ \A t \in Teams : /\ t.instances \subseteq Procs /\ IsFiniteSet(t.instances)
                        /\ t.operators \subseteq Procs \ t.instances
                        /\ t.maxAttempts \in Nat \ {0}
                        /\ {t.maxReleases, t.maxCrashes} \subseteq Nat
    /\ {PageSize, ReleaseTries} \subseteq Nat \ {0}
    /\ MaxEvents \in Nat
    /\ "none" \notin Procs

VARIABLES team,     \* the element of Teams this behaviour is about
          count,    \* the log holds the events 1 .. count
          acked,    \* evtack
          att,      \* evtatt
          waiting,  \* the events whose nextAt has not come
          dead,     \* evtdead
          cursor,   \* the persisted position in the log
          rescan,   \* the flag that asks for a pass from the start
          pc, loc,  \* a process's place in its call, and its local variables
          clock,    \* Date.now() of the last release
          calls,    \* calls of retryDeadEvent so far
          crashes,
          failed,   \* history: handler failures since the counter's last reset, up to MaxAttempts
          took,     \* history: releases of an event that took effect
          unflagged \* history: an operator died before it could set the flag

store == <<count, acked, att, waiting, dead, cursor, rescan>>
history == <<failed, took, unflagged>>
vars == <<team, store, pc, loc, clock, calls, crashes, history>>
-----------------------------------------------------------------------------
Events == 1 .. MaxEvents
Instances == team.instances
Operators == team.operators
MaxAttempts == team.maxAttempts

\* work.get returned undefined
NoDead == [releases |-> 0, releasedAt |-> 0, by |-> "none"]

\* The generation of a streak: how many releases, and when
releaseStamp(d) == <<d.releases, d.releasedAt>>

NoAttempts == [n |-> 0, gen |-> releaseStamp(NoDead), by |-> "none"]

HandedBack(d) == d.releasedAt # 0

Quarantined(d) == d # NoDead /\ ~HandedBack(d)

\* rescan as read at the start, the local cursor, the rest of the page, whether
\* there is another, frozen, and what was read about the event at hand; for an
\* operator its event, the record it read, releasedAt and its tries
NoLocals == [rescan |-> FALSE, from |-> 0, page |-> <<>>, more |-> FALSE, frozen |-> FALSE,
             dead |-> NoDead, att |-> NoAttempts, fresh |-> NoDead, event |-> 0, at |-> 0, tries |-> 0]

Init ==
    /\ team \in Teams
    /\ count = 0 /\ cursor = 0 /\ clock = 0 /\ calls = 0 /\ crashes = 0
    /\ rescan = FALSE /\ unflagged = FALSE
    /\ acked = {} /\ waiting = {}
    /\ att = [e \in Events |-> NoAttempts]
    /\ dead = [e \in Events |-> NoDead]
    /\ failed = [e \in Events |-> 0]
    /\ took = [e \in Events |-> 0]
    /\ pc = [p \in Procs |-> "idle"]
    /\ loc = [p \in Procs |-> NoLocals]

Go(p, label) == pc' = [pc EXCEPT ![p] = label]

Return(p) == Go(p, "idle") /\ loc' = [loc EXCEPT ![p] = NoLocals]

\* emit: an append under a new id (a repeated id is no second event)
Emit ==
    /\ count < MaxEvents
    /\ count' = count + 1
    /\ UNCHANGED <<team, acked, att, waiting, dead, cursor, rescan, pc, loc, clock, calls, crashes, history>>
-----------------------------------------------------------------------------
(* poll: the pass *)

\* get the rescan flag
PollStart(c) ==
    /\ pc[c] = "idle"
    /\ loc' = [loc EXCEPT ![c].rescan = rescan]
    /\ Go(c, IF rescan THEN "rewind" ELSE "cursor")
    /\ UNCHANGED <<team, store, clock, calls, crashes, history>>

\* put the cursor back to the start of the log; the pass starts there
Rewind(c) ==
    /\ pc[c] = "rewind"
    /\ cursor' = 0
    /\ Go(c, "list")
    /\ UNCHANGED <<team, count, acked, att, waiting, dead, rescan, loc, clock, calls, crashes, history>>

GetCursor(c) ==
    /\ pc[c] = "cursor"
    /\ loc' = [loc EXCEPT ![c].from = cursor]
    /\ Go(c, "list")
    /\ UNCHANGED <<team, store, clock, calls, crashes, history>>

\* work.list(ns, {cursor}): a page from the local cursor, which is an offset
List(c) ==
    LET next == loc[c].from + PageSize IN
    /\ pc[c] = "list"
    /\ loc' = [loc EXCEPT
         ![c].page = [i \in 1 .. (IF next < count THEN PageSize ELSE count - loc[c].from)
                        |-> loc[c].from + i],
         ![c].from = next, ![c].more = next < count]
    /\ Go(c, "ack?")
    /\ UNCHANGED <<team, store, clock, calls, crashes, history>>

\* mutant: the cursor moves on past an event that is still to be retried
PageEndUnfrozen(c) ==
    /\ pc[c] = "ack?" /\ loc[c].page = <<>>
    /\ \/ ~loc[c].more /\ ~loc[c].rescan /\ Return(c) /\ UNCHANGED cursor
       \/ ~loc[c].more /\ loc[c].rescan /\ Go(c, "clear") /\ UNCHANGED <<loc, cursor>>
       \/ loc[c].more /\ cursor' = loc[c].from /\ Go(c, "list") /\ UNCHANGED loc
    /\ UNCHANGED <<team, count, acked, att, waiting, dead, rescan, clock, calls, crashes, history>>

\* The end of a page: put the cursor, unless a retryable event is behind it.
PageEnd(c) ==
    /\ pc[c] = "ack?" /\ loc[c].page = <<>>
    /\ \/ ~loc[c].more /\ ~loc[c].rescan /\ Return(c) /\ UNCHANGED cursor
       \/ ~loc[c].more /\ loc[c].rescan /\ Go(c, "clear") /\ UNCHANGED <<loc, cursor>>
       \/ /\ loc[c].more
          /\ cursor' = IF loc[c].frozen THEN cursor ELSE loc[c].from
          /\ Go(c, "list") /\ UNCHANGED loc
    /\ UNCHANGED <<team, count, acked, att, waiting, dead, rescan, clock, calls, crashes, history>>

\* put the rescan flag to false at the end of a pass that reacted to it
ClearRescan(c) ==
    /\ pc[c] = "clear"
    /\ rescan' = FALSE
    /\ Return(c)
    /\ UNCHANGED <<team, count, acked, att, waiting, dead, cursor, clock, calls, crashes, history>>
-----------------------------------------------------------------------------
(* poll: one event *)

Event(c) == Head(loc[c].page)

\* the next event of the page; freeze says whether this one is still retryable
Skip(c, freeze) ==
    /\ loc' = [loc EXCEPT ![c].page = Tail(@), ![c].frozen = @ \/ freeze,
                          ![c].dead = NoDead, ![c].att = NoAttempts, ![c].fresh = NoDead]
    /\ Go(c, "ack?")

\* get evtack
GetAck(c) ==
    /\ pc[c] = "ack?" /\ loc[c].page # <<>>
    /\ \/ Event(c) \in acked /\ Skip(c, FALSE)
       \/ Event(c) \notin acked /\ Go(c, "dead?") /\ UNCHANGED loc
    /\ UNCHANGED <<team, store, clock, calls, crashes, history>>

\* get evtdead: quarantined and not released is terminal
GetDead(c) ==
    /\ pc[c] = "dead?"
    /\ LET d == dead[Event(c)] IN
       \/ Quarantined(d) /\ Skip(c, FALSE)
       \/ ~Quarantined(d) /\ loc' = [loc EXCEPT ![c].dead = d] /\ Go(c, "att?")
    /\ UNCHANGED <<team, store, clock, calls, crashes, history>>

\* mutant: an event that waits for its backoff does not hold the cursor
GetAttemptsPasses(c) ==
    /\ pc[c] = "att?"
    /\ \/ Event(c) \in waiting /\ Skip(c, FALSE)
       \/ /\ Event(c) \notin waiting
          /\ loc' = [loc EXCEPT ![c].att = att[Event(c)]]
          /\ Go(c, "handle")
    /\ UNCHANGED <<team, store, clock, calls, crashes, history>>

\* get evtatt: not before its nextAt
GetAttempts(c) ==
    /\ pc[c] = "att?"
    /\ \/ Event(c) \in waiting /\ Skip(c, TRUE)
       \/ /\ Event(c) \notin waiting
          /\ loc' = [loc EXCEPT ![c].att = att[Event(c)]]
          /\ Go(c, "handle")
    /\ UNCHANGED <<team, store, clock, calls, crashes, history>>

\* The handler resolves or throws.
Handle(c) ==
    /\ pc[c] = "handle"
    /\ \/ Go(c, "ack") /\ UNCHANGED failed
       \/ Go(c, "fresh") /\ failed' = [failed EXCEPT ![Event(c)] = IF @ < MaxAttempts THEN @ + 1 ELSE @]
    /\ UNCHANGED <<team, store, loc, clock, calls, crashes, took, unflagged>>

\* ackOnce
Ack(c) ==
    /\ pc[c] = "ack"
    /\ acked' = acked \cup {Event(c)}
    /\ Skip(c, FALSE)
    /\ UNCHANGED <<team, count, att, waiting, dead, cursor, rescan, clock, calls, crashes, history>>

Last(c) == loc[c].att.n + 1 >= MaxAttempts

\* get evtdead again: an attempt of an earlier generation is discarded
GetFresh(c) ==
    /\ pc[c] = "fresh"
    /\ LET d == dead[Event(c)] IN
       \/ releaseStamp(d) # releaseStamp(loc[c].dead) /\ Skip(c, TRUE)
       \/ /\ releaseStamp(d) = releaseStamp(loc[c].dead)
          /\ loc' = [loc EXCEPT ![c].fresh = d]
          /\ Go(c, IF Last(c) THEN "acked?" ELSE "count")
    /\ UNCHANGED <<team, store, clock, calls, crashes, history>>

\* get evtack: another instance delivered it meanwhile
Recheck(c) ==
    /\ pc[c] = "acked?"
    /\ \/ Event(c) \in acked /\ Skip(c, FALSE)
       \/ Event(c) \notin acked /\ Go(c, "count") /\ UNCHANGED loc
    /\ UNCHANGED <<team, store, clock, calls, crashes, history>>

\* the attempt is written
Attempted(c) ==
    /\ att' = [att EXCEPT ![Event(c)] = [n |-> loc[c].att.n + 1, gen |-> loc[c].att.gen, by |-> c]]
    /\ waiting' = waiting \cup {Event(c)}
    /\ \/ Last(c) /\ Go(c, "bury") /\ UNCHANGED loc
       \/ ~Last(c) /\ Skip(c, TRUE)

\* put evtatt if it was absent, else putIfMatch; a lost one is discarded
Count(c) ==
    /\ pc[c] = "count"
    /\ \/ loc[c].att \in {NoAttempts, att[Event(c)]} /\ Attempted(c)
       \/ loc[c].att \notin {NoAttempts, att[Event(c)]} /\ Skip(c, TRUE) /\ UNCHANGED <<att, waiting>>
    /\ UNCHANGED <<team, count, acked, dead, cursor, rescan, clock, calls, crashes, history>>

\* mutant: the quarantine is a plain put
BuryBlind(c) ==
    /\ pc[c] = "bury"
    /\ dead' = [dead EXCEPT ![Event(c)] =
                  [releases |-> loc[c].fresh.releases, releasedAt |-> 0, by |-> c]]
    /\ Skip(c, FALSE)
    /\ UNCHANGED <<team, count, acked, att, waiting, cursor, rescan, clock, calls, crashes, history>>

\* put evtdead if it was absent, else putIfMatch
Bury(c) ==
    /\ pc[c] = "bury"
    /\ \/ /\ loc[c].fresh \in {NoDead, dead[Event(c)]}
          /\ dead' = [dead EXCEPT ![Event(c)] =
                        [releases |-> loc[c].fresh.releases, releasedAt |-> 0, by |-> c]]
          /\ Skip(c, FALSE)
       \/ /\ loc[c].fresh \notin {NoDead, dead[Event(c)]}
          /\ Skip(c, TRUE) /\ UNCHANGED dead
    /\ UNCHANGED <<team, count, acked, att, waiting, cursor, rescan, clock, calls, crashes, history>>
-----------------------------------------------------------------------------
(* retryDeadEvent *)

\* mutant: an event without a dead-letter record is released
RetryAnyEvent(o, e) ==
    /\ pc[o] = "idle" /\ calls < team.maxReleases
    /\ e <= count
    /\ calls' = calls + 1
    /\ loc' = [loc EXCEPT ![o].event = e, ![o].dead = dead[e]]
    /\ Go(o, "acked?")
    /\ UNCHANGED <<team, store, clock, crashes, history>>

\* The call, and its first get of evtdead; false if there is no record
RetryDeadEvent(o, e) ==
    /\ pc[o] = "idle" /\ calls < team.maxReleases
    /\ dead[e] # NoDead
    /\ calls' = calls + 1
    /\ loc' = [loc EXCEPT ![o].event = e, ![o].dead = dead[e]]
    /\ Go(o, "acked?")
    /\ UNCHANGED <<team, store, clock, crashes, history>>

\* get evtdead once more after a lost compare-and-set
Reread(o) ==
    /\ pc[o] = "reread"
    /\ loc' = [loc EXCEPT ![o].dead = dead[loc[o].event]]
    /\ Go(o, "acked?")
    /\ UNCHANGED <<team, store, clock, calls, crashes, history>>

\* get evtack: a delivered event is not released
ReleaseAcked(o) ==
    /\ pc[o] = "acked?"
    /\ \/ loc[o].event \in acked /\ Return(o)
       \/ loc[o].event \notin acked /\ Go(o, "reset") /\ UNCHANGED loc
    /\ UNCHANGED <<team, store, clock, calls, crashes, history>>

\* {...rec, releasedAt, releases + 1}
ReleasedRecord(o, at) ==
    [releases |-> loc[o].dead.releases + 1, releasedAt |-> at, by |-> loc[o].dead.by]

\* put evtatt: no failures, due now, stamped with this release
Reset(o) ==
    /\ pc[o] = "reset"
    /\ clock' = clock + 1
    /\ loc' = [loc EXCEPT ![o].at = clock']
    /\ att' = [att EXCEPT ![loc[o].event] =
                 [n |-> 0, gen |-> releaseStamp(ReleasedRecord(o, clock')), by |-> "none"]]
    /\ waiting' = waiting \ {loc[o].event}
    /\ failed' = [failed EXCEPT ![loc[o].event] = 0]
    /\ Go(o, "release")
    /\ UNCHANGED <<team, count, acked, dead, cursor, rescan, calls, crashes, took, unflagged>>

\* the record is written as released
Released(o) ==
    /\ dead' = [dead EXCEPT ![loc[o].event] = ReleasedRecord(o, loc[o].at)]
    /\ took' = [took EXCEPT ![loc[o].event] = @ + 1]
    /\ Go(o, "flag")
    /\ UNCHANGED loc

\* mutant: two releases that land together both write what they read, plus one
ReleaseBlind(o) ==
    /\ pc[o] = "release"
    /\ Released(o)
    /\ UNCHANGED <<team, count, acked, att, waiting, cursor, rescan, clock, calls, crashes, failed, unflagged>>

\* putIfMatch(dk, rec, released), or another try
Release(o) ==
    /\ pc[o] = "release"
    /\ \/ dead[loc[o].event] = loc[o].dead /\ Released(o)
       \/ /\ dead[loc[o].event] # loc[o].dead /\ UNCHANGED <<dead, took>>
          /\ \/ loc[o].tries + 1 = ReleaseTries /\ Return(o)
             \/ /\ loc[o].tries + 1 < ReleaseTries
                /\ loc' = [loc EXCEPT ![o] = [@ EXCEPT !.tries = loc[o].tries + 1, !.at = 0]]
                /\ Go(o, "reread")
    /\ UNCHANGED <<team, count, acked, att, waiting, cursor, rescan, clock, calls, crashes, failed, unflagged>>

\* put the rescan flag, last
SetRescan(o) ==
    /\ pc[o] = "flag"
    /\ rescan' = TRUE
    /\ Return(o)
    /\ UNCHANGED <<team, count, acked, att, waiting, dead, cursor, clock, calls, crashes, history>>
-----------------------------------------------------------------------------
(* The environment *)

\* nextAt has come
Elapse(e) ==
    /\ e \in waiting
    /\ waiting' = waiting \ {e}
    /\ UNCHANGED <<team, count, acked, att, dead, cursor, rescan, pc, loc, clock, calls, crashes, history>>

Crash(p) ==
    /\ pc[p] # "idle" /\ crashes < team.maxCrashes
    /\ crashes' = crashes + 1
    /\ unflagged' = (unflagged \/ pc[p] = "flag")
    /\ Return(p)
    /\ UNCHANGED <<team, store, clock, calls, failed, took>>

Poll(c) ==
    \/ PollStart(c) \/ Rewind(c) \/ GetCursor(c) \/ List(c) \/ PageEnd(c) \/ ClearRescan(c)
    \/ GetAck(c) \/ GetDead(c) \/ GetAttempts(c) \/ Handle(c) \/ Ack(c)
    \/ GetFresh(c) \/ Recheck(c) \/ Count(c) \/ Bury(c)

Retry(o) == Reread(o) \/ ReleaseAcked(o) \/ Reset(o) \/ Release(o) \/ SetRescan(o)

Step(p) == (p \in Instances /\ Poll(p)) \/ (p \in Operators /\ Retry(p))

Next ==
    \/ Emit
    \/ \E p \in Procs : Step(p) \/ Crash(p)
    \/ \E o \in Operators, e \in Events : RetryDeadEvent(o, e)
    \/ \E e \in Events : Elapse(e)

Spec == Init /\ [][Next]_vars

\* The poll loop calls poll() again and again, handlers and store requests
\* settle, a backoff runs out; nobody has to emit, to release or to crash.
FairSpec ==
    /\ Spec
    /\ \A p \in Procs : WF_vars(Step(p))
    /\ \A e \in Events : WF_vars(Elapse(e))
-----------------------------------------------------------------------------
(* Properties *)

Attempts == [n : Nat, gen : Nat \X Nat, by : Procs \cup {"none"}]
DeadRecord == [releases : Nat, releasedAt : Nat, by : Procs \cup {"none"}]

\* The store's records and the calls in progress have their types, and the
\* cursor stays inside the log.
TypeOK ==
    /\ count \in 0 .. MaxEvents /\ cursor \in 0 .. count
    /\ acked \subseteq 1 .. count /\ waiting \subseteq 1 .. count
    /\ \A e \in Events : att[e] \in Attempts /\ dead[e] \in DeadRecord
    /\ rescan \in BOOLEAN
    /\ \A p \in Procs : loc[p].event \in {0} \cup Events /\ loc[p].tries \in 0 .. ReleaseTries

\* Nothing is lost silently: every event the persisted cursor has passed was
\* acked, or has a dead-letter record an operator can see, whatever the
\* instances that share the cursor do (the `frozen` flag of poll()).
PassedIsVisible ==
    \A e \in 1 .. cursor : e \in acked \/ dead[e] # NoDead

One == Cardinality(Instances) = 1

\* "Never early": the attempt counter claims no failure that did not happen
\* since it was last reset, so a release gets its whole budget.
NeverEarly ==
    One => \A e \in Events : att[e].n <= failed[e] \/ failed[e] = MaxAttempts

\* releases says how many times the event was handed back: an operator's
\* double click is two releases or one, never one that counts for two.
ReleasesCounted == One => \A e \in Events : dead[e].releases = took[e]

\* The quarantine of a released event comes from an attempt that began on
\* that very release.
OnThisRelease(e) ==
    \E c \in Instances : pc[c] = "bury" /\ Event(c) = e /\ loc[c].dead = dead[e]

\* The same where only one instance polls under the consumer's name.
ReleaseStandsAlone ==
    [][ One => \A e \in Events : HandedBack(dead[e]) /\ Quarantined(dead'[e]) => OnThisRelease(e) ]_vars

\* What listDeadEvents shows of an event
Status(e) ==
    CASE e \in acked -> "delivered"
      [] e \notin acked /\ dead[e] = NoDead -> "pending"
      [] e \notin acked /\ HandedBack(dead[e]) -> "released"
      [] OTHER -> "quarantined"

\* The consumer implements Delivery: a delivery is final, a dead-letter record
\* never disappears, and nothing is released that was not quarantined.
Abstract == INSTANCE Delivery WITH status <- [e \in Events |-> Status(e)]

ImplementsDelivery == Abstract!Spec

\* At least once: every emitted event is delivered or quarantined in the end,
\* through crashes and lost races of two instances.
EventuallySettled == \A e \in Events : e <= count ~> e \in acked \/ dead[e] # NoDead

\* A release takes: where one instance polls, the first event an operator
\* releases is delivered or quarantined anew, although the instance may crash
\* in the middle of the rescan - unless the operator died before the flag, or
\* somebody released again, which may lose the flag (both documented).
ReleaseTakes ==
    \A e \in Events :
       One /\ HandedBack(dead[e])
          ~> e \in acked \/ Quarantined(dead[e]) \/ calls > 1 \/ unflagged

\* The journal's accounts are right: the types, attempts and releases.
Accounts == TypeOK /\ NeverEarly /\ ReleasesCounted

\* What must happen to an event does: it is settled, and a release takes.
EventsSettle == EventuallySettled /\ ReleaseTakes
-----------------------------------------------------------------------------
(* Said in the code's comments and not true of it (README, Disagreements)  *)

\* index.ts:547-549, "nothing to race with": with two instances, one that read no
\* dead-letter record quarantines an event again that was released since.
ReleaseStands ==
    [][ \A e \in Events : HandedBack(dead[e]) /\ Quarantined(dead'[e]) => OnThisRelease(e) ]_vars
=============================================================================
