------------------------ MODULE EventConsumerProofs ------------------------
(***************************************************************************)
(* Proofs about the event consumer, for every set of instances and         *)
(* operators, every page size, every number of attempts, events, releases  *)
(* and crashes.                                                            *)
(***************************************************************************)
EXTENDS EventConsumer, FiniteSetTheorems, TLAPS

Settled(e) == e \in acked \/ dead[e] # NoDead

\* The places of poll() at which an event is at hand, and those from which the
\* attempt counter of this event was read.
AtEvent == {"dead?", "att?", "handle", "ack", "fresh", "acked?", "count", "bury"}
Failed == {"fresh", "acked?", "count"}
Rechecked == {"acked?", "count", "bury"}

Labels == {"idle", "rewind", "cursor", "list", "clear", "ack?", "reread", "reset", "release", "flag"} \cup AtEvent

LocalsType == [rescan : BOOLEAN, from : Nat, page : Seq(Nat), more : BOOLEAN, frozen : BOOLEAN,
               dead : DeadRecord, att : Attempts, fresh : DeadRecord,
               event : {0} \cup Events, at : Nat, tries : 0 .. ReleaseTries]

\* The variables have their types.
Types ==
    /\ team \in Teams /\ TypeOK
    /\ att \in [Events -> Attempts] /\ dead \in [Events -> DeadRecord]
    /\ failed \in [Events -> Nat] /\ took \in [Events -> Nat]
    /\ pc \in [Procs -> Labels] /\ loc \in [Procs -> LocalsType]
    /\ clock \in Nat

OnPage(c, e) == \E i \in 1 .. Len(loc[c].page) : loc[c].page[i] = e

\* What an instance knows of the log: as long as nothing retryable was seen,
\* every event before the local cursor is settled or still on the page.
PollInv(c) ==
    /\ pc[c] \in {"idle", "rewind"} => loc[c].from = 0
    /\ pc[c] = "list" =>
         loc[c].from <= count /\ (~loc[c].frozen => \A e \in 1 .. loc[c].from : Settled(e))
    /\ pc[c] \in AtEvent \cup {"ack?"} =>
         /\ \A i \in 1 .. Len(loc[c].page) : loc[c].page[i] \in 1 .. count
         /\ loc[c].more =>
              loc[c].from <= count /\ (~loc[c].frozen => \A e \in 1 .. loc[c].from : Settled(e) \/ OnPage(c, e))
    /\ pc[c] \in AtEvent => loc[c].page # <<>>

\* What an operator knows: the event has a dead-letter record, and the release
\* it is about to write has a time.
RetryInv(o) ==
    /\ pc[o] # "idle" => loc[o].event \in Events /\ loc[o].dead # NoDead /\ dead[loc[o].event] # NoDead
    /\ pc[o] = "release" => loc[o].at \in Nat \ {0}

\* The inductive invariant.
IInv ==
    /\ Types /\ PassedIsVisible
    /\ \A c \in Instances : PollInv(c)
    /\ \A o \in Operators : RetryInv(o)

\* What holds of the records where c alone polls under the consumer's name ...
SoloRecords(c) ==
    \A e \in Events :
       /\ dead[e] # NoDead => dead[e].by = c /\ att[e] # NoAttempts
       /\ dead[e].releases = took[e]
       /\ att[e].n <= failed[e] \/ failed[e] = MaxAttempts
       /\ att[e].gen[2] <= clock /\ failed[e] <= MaxAttempts

\* ... and of what c read of them: only a release changes the counter under it,
\* and no release has the stamp of an earlier one.
SoloReads(c) ==
    /\ loc[c].att.gen[2] <= clock
    /\ loc[c].dead # NoDead => loc[c].dead.by = c
    /\ pc[c] \in Failed \cup {"handle"} => (loc[c].att = NoAttempts => att[Event(c)] = NoAttempts)
    /\ pc[c] \in Failed =>
         (loc[c].att = att[Event(c)] =>
            att[Event(c)].n + 1 <= failed[Event(c)] \/ failed[Event(c)] = MaxAttempts)
    /\ pc[c] \in Rechecked => /\ loc[c].fresh = NoDead => dead[Event(c)] = NoDead
                              /\ releaseStamp(loc[c].fresh) = releaseStamp(loc[c].dead)
    /\ pc[c] = "bury" => att[Event(c)] # NoAttempts

SoloInv == \A c : Instances = {c} => SoloRecords(c) /\ SoloReads(c)
-----------------------------------------------------------------------------
(* Frames *)

\* A step never takes an event out of the log, an ack or a dead-letter record
\* away.
Grows ==
    /\ team' = team /\ count <= count' /\ count' \in Nat
    /\ \A e \in Events : Settled(e) => Settled(e)'
    /\ \A e \in Events : dead[e] # NoDead => dead'[e] # NoDead

\* The constants' part in the types.
LEMMA Constants ==
    /\ MaxEvents \in Nat /\ PageSize \in Nat \ {0} /\ ReleaseTries \in Nat \ {0} /\ "none" \notin Procs
    /\ Types => /\ Instances \subseteq Procs /\ Operators \subseteq Procs
                /\ Instances \cap Operators = {} /\ MaxAttempts \in Nat \ {0}
                /\ \A e \in 1 .. count : e \in Events
BY EventConsumerAssumption DEF Types, TypeOK, Instances, Operators, MaxAttempts, Events

\* The empty records are records.
LEMMA Empty ==
    /\ NoDead \in DeadRecord /\ NoAttempts \in Attempts /\ NoLocals \in LocalsType
    /\ NoLocals.page = <<>> /\ NoLocals.from = 0 /\ NoLocals.event = 0 /\ NoLocals.tries = 0
    /\ NoLocals.att = NoAttempts /\ NoLocals.dead = NoDead /\ NoAttempts.gen[2] = 0
    /\ NoAttempts.n = 0 /\ NoAttempts.by = "none" /\ NoAttempts.gen[1] = 0 /\ NoDead.by = "none"
    /\ NoDead.releases = 0 /\ NoDead.releasedAt = 0
<1>1. NoDead \in DeadRecord /\ NoAttempts \in Attempts
    BY DEF NoDead, NoAttempts, DeadRecord, Attempts, releaseStamp
<1>2. <<>> \in Seq(Nat)
    OBVIOUS
<1> QED
    BY <1>1, <1>2, Constants DEF NoLocals, LocalsType, NoAttempts, NoDead, releaseStamp

\* An instance that takes no step keeps what it knows.
LEMMA OtherPoll ==
    ASSUME Types, Grows, NEW c \in Instances, PollInv(c), pc'[c] = pc[c], loc'[c] = loc[c]
    PROVE  PollInv(c)'
<1> DEFINE l == loc[c]
<1>1. l \in LocalsType /\ count \in Nat /\ count <= MaxEvents
    BY Constants DEF Types, TypeOK
<1>2. l.from \in Nat /\ l.from <= count => \A e \in 1 .. l.from : e \in Events
    BY <1>1, Constants DEF Events
<1>3. l.from <= count => l.from <= count'
    BY <1>1 DEF Grows, LocalsType
<1>4. \A i : l.page[i] \in 1 .. count => l.page[i] \in 1 .. count'
    BY <1>1 DEF Grows
<1>5. \A e : OnPage(c, e) <=> OnPage(c, e)'
    BY DEF OnPage
<1> QED
    BY <1>1, <1>2, <1>3, <1>4, <1>5 DEF PollInv, Grows, LocalsType

\* The same for an operator.
LEMMA OtherRetry ==
    ASSUME Types, Grows, NEW o \in Operators, RetryInv(o), pc'[o] = pc[o], loc'[o] = loc[o]
    PROVE  RetryInv(o)'
BY DEF RetryInv, Grows

\* It suffices to look at the store and at the process that moves.
LEMMA Assemble ==
    ASSUME IInv, Grows, Types', PassedIsVisible', NEW p \in Procs,
           p \in Instances => PollInv(p)', p \in Operators => RetryInv(p)',
           \A q \in Procs \ {p} : pc'[q] = pc[q] /\ loc'[q] = loc[q]
    PROVE  IInv'
<1>1. Instances' = Instances /\ Operators' = Operators
    BY DEF Grows, Instances, Operators
<1>2. Types /\ Instances \subseteq Procs /\ Operators \subseteq Procs
    BY Constants DEF IInv
<1>3. \A c \in Instances : PollInv(c)'
    BY <1>2, OtherPoll DEF IInv
<1>4. \A o \in Operators : RetryInv(o)'
    BY <1>2, OtherRetry DEF IInv
<1> QED
    BY <1>1, <1>3, <1>4 DEF IInv

\* A step that leaves the acks, the dead letters and the log alone.
LEMMA StoreSame ==
    ASSUME Types, UNCHANGED <<team, count, acked, dead>>
    PROVE  Grows /\ \A e : Settled(e)' <=> Settled(e)
BY DEF Grows, Settled, Types, TypeOK

\* The rest of the page: its first event, and the events behind it.
LEMMA TailOf ==
    ASSUME NEW s \in Seq(Nat), s # <<>>
    PROVE  /\ Tail(s) \in Seq(Nat) /\ Head(s) = s[1] /\ 1 \in 1 .. Len(s)
           /\ Len(Tail(s)) = Len(s) - 1 /\ Len(s) \in Nat \ {0}
           /\ \A i \in 1 .. Len(Tail(s)) : Tail(s)[i] = s[i + 1] /\ i + 1 \in 1 .. Len(s)
           /\ \A i \in 1 .. Len(s) : i # 1 => i - 1 \in 1 .. Len(Tail(s)) /\ Tail(s)[i - 1] = s[i]
OBVIOUS

\* The event at hand is one of the log.
LEMMA AtHand ==
    ASSUME Types, NEW c \in Instances, PollInv(c), pc[c] \in AtEvent \cup {"ack?"}, loc[c].page # <<>>
    PROVE  Event(c) \in 1 .. count /\ Event(c) \in Events
<1>1. loc[c].page \in Seq(Nat)
    BY Constants DEF Types, LocalsType
<1> QED
    BY <1>1, TailOf, Constants DEF PollInv, Event
-----------------------------------------------------------------------------
(* Updates of a process's place and locals *)

\* Setting a process's place (Go) leaves the others where they are.
LEMMA PcSet ==
    ASSUME Types, NEW p \in Procs, NEW label \in Labels, Go(p, label)
    PROVE  pc' \in [Procs -> Labels] /\ pc'[p] = label /\ \A q \in Procs \ {p} : pc'[q] = pc[q]
BY DEF Go, Types

\* The end of a call clears the local variables.
LEMMA Returns ==
    ASSUME Types, NEW p \in Procs, Return(p)
    PROVE  /\ pc' \in [Procs -> Labels] /\ loc' \in [Procs -> LocalsType]
           /\ pc'[p] = "idle" /\ loc'[p] = NoLocals
           /\ \A q \in Procs \ {p} : pc'[q] = pc[q] /\ loc'[q] = loc[q]
           /\ PollInv(p)' /\ RetryInv(p)'
<1>1. /\ pc' \in [Procs -> Labels] /\ pc'[p] = "idle" /\ \A q \in Procs \ {p} : pc'[q] = pc[q]
    BY PcSet DEF Return, Labels
<1>2. loc' \in [Procs -> LocalsType] /\ loc'[p] = NoLocals /\ \A q \in Procs \ {p} : loc'[q] = loc[q]
    BY Empty DEF Return, Types
<1> QED
    BY <1>1, <1>2, Empty DEF PollInv, RetryInv, AtEvent

\* Going on to the next event of the page.
LEMMA Skips ==
    ASSUME Types, NEW c \in Instances, PollInv(c), pc[c] \in AtEvent \cup {"ack?"}, loc[c].page # <<>>,
           NEW freeze \in BOOLEAN, Skip(c, freeze), Grows, NEW at, at = Event(c), freeze \/ Settled(at)'
    PROVE  /\ pc' \in [Procs -> Labels] /\ loc' \in [Procs -> LocalsType]
           /\ pc'[c] = "ack?" /\ loc'[c].att = NoAttempts /\ loc'[c].dead = NoDead
           /\ \A q \in Procs \ {c} : pc'[q] = pc[q] /\ loc'[q] = loc[q]
           /\ PollInv(c)'
<1> DEFINE l == loc[c]
           m == loc'[c]
<1>1. c \in Procs /\ l \in LocalsType /\ l.page \in Seq(Nat) /\ l.frozen \in BOOLEAN /\ l.from \in Nat /\ count \in Nat
    <2>1. c \in Procs /\ l \in LocalsType /\ count \in Nat
        BY Constants DEF Types, TypeOK
    <2> QED
        BY <2>1 DEF LocalsType
<1>2. Tail(l.page) \in Seq(Nat)
    BY <1>1, TailOf
<1>3. pc' \in [Procs -> Labels] /\ pc'[c] = "ack?" /\ \A q \in Procs \ {c} : pc'[q] = pc[q]
    BY <1>1, PcSet DEF Skip, Labels
<1>4. m = [l EXCEPT !.page = Tail(@), !.frozen = @ \/ freeze, !.dead = NoDead, !.att = NoAttempts, !.fresh = NoDead]
    BY <1>1 DEF Skip, Types
<1>5. /\ m.page = Tail(l.page) /\ m.frozen = (l.frozen \/ freeze) /\ m.from = l.from /\ m.more = l.more
      /\ m.dead = NoDead /\ m.att = NoAttempts /\ m.fresh = NoDead
    BY <1>1, <1>4 DEF LocalsType
<1>6. m \in LocalsType
    BY <1>1, <1>2, <1>4, Empty DEF LocalsType
<1>7. loc' \in [Procs -> LocalsType] /\ \A q \in Procs \ {c} : loc'[q] = loc[q]
    BY <1>1, <1>6 DEF Skip, Types
<1>8. \A i \in 1 .. Len(m.page) : m.page[i] \in 1 .. count'
    BY <1>1, <1>5, TailOf DEF PollInv, Grows
<1>9. ASSUME m.more, ~m.frozen, NEW e \in 1 .. l.from PROVE Settled(e)' \/ OnPage(c, e)'
    <2>1. Settled(e) \/ OnPage(c, e)
        BY <1>5, <1>9 DEF PollInv
    <2>2. e \in Events
        BY <1>1, <1>5, <1>9, Constants DEF PollInv
    <2>3. CASE Settled(e)
        BY <2>2, <2>3 DEF Grows
    <2>4. CASE OnPage(c, e)
        <3>1. PICK i \in 1 .. Len(l.page) : l.page[i] = e
            BY <2>4 DEF OnPage
        <3>2. CASE i = 1
            BY <1>1, <1>5, <1>9, <3>1, <3>2, TailOf DEF Event
        <3>3. CASE i # 1
            <4> DEFINE j == i - 1
            <4>1. j \in 1 .. Len(m.page) /\ m.page[j] = e
                BY <1>1, <1>5, <3>1, <3>3, TailOf
            <4> QED
                BY <4>1 DEF OnPage
        <3> QED
            BY <3>2, <3>3
    <2> QED
        BY <2>1, <2>3, <2>4
<1>10. m.more => m.from <= count'
    BY <1>1, <1>5 DEF PollInv, Grows
<1>11. PollInv(c)'
    BY <1>3, <1>5, <1>8, <1>9, <1>10 DEF PollInv, AtEvent
<1> QED
    BY <1>3, <1>5, <1>7, <1>11

\* A request that reads the store and moves its process.
LEMMA ReadStep ==
    ASSUME IInv, NEW p \in Procs, UNCHANGED <<team, store, clock, took>>, failed' \in [Events -> Nat],
           pc' \in [Procs -> Labels], loc' \in [Procs -> LocalsType],
           p \in Instances => PollInv(p)', p \in Operators => RetryInv(p)',
           \A q \in Procs \ {p} : pc'[q] = pc[q] /\ loc'[q] = loc[q]
    PROVE  IInv'
<1>1. Grows
    BY StoreSame DEF IInv, store
<1>2. Types'
    BY DEF IInv, Types, TypeOK, LocalsType, store
<1>3. PassedIsVisible'
    BY DEF IInv, PassedIsVisible, store
<1> QED
    BY <1>1, <1>2, <1>3, Assemble

\* A request of an instance that changes one local variable, or none, and does
\* not leave the event or the page.
LEMMA StayStep ==
    ASSUME IInv, NEW c \in Instances, UNCHANGED <<team, store, clock, took>>, failed' \in [Events -> Nat],
           pc[c] \in AtEvent \cup {"ack?"}, loc[c].page # <<>>, NEW label \in AtEvent, Go(c, label),
           NEW l \in LocalsType, loc' = [loc EXCEPT ![c] = l],
           l.page = loc[c].page, l.from = loc[c].from, l.more = loc[c].more, l.frozen = loc[c].frozen
    PROVE  IInv' /\ pc'[c] = label /\ loc'[c] = l
<1>1. c \in Procs /\ Types /\ PollInv(c) /\ label \in Labels /\ c \notin Operators
    BY Constants DEF IInv, Labels
<1>2. pc' \in [Procs -> Labels] /\ pc'[c] = label /\ \A q \in Procs \ {c} : pc'[q] = pc[q]
    BY <1>1, PcSet
<1>3. loc' \in [Procs -> LocalsType] /\ loc'[c] = l /\ \A q \in Procs \ {c} : loc'[q] = loc[q]
    BY <1>1 DEF Types
<1>4. \A e : Settled(e)' <=> Settled(e)
    BY DEF Settled, store
<1>5. \A e : OnPage(c, e)' <=> OnPage(c, e)
    BY <1>3 DEF OnPage
<1>6. PollInv(c)'
    BY <1>1, <1>2, <1>3, <1>4, <1>5 DEF PollInv, AtEvent, store
<1> QED
    BY <1>1, <1>2, <1>3, <1>6, ReadStep

\* Going on to the next event after a request that only reads.
LEMMA SkipStep ==
    ASSUME IInv, NEW c \in Instances, UNCHANGED <<team, store, clock, took, failed>>,
           pc[c] \in AtEvent \cup {"ack?"}, loc[c].page # <<>>,
           NEW freeze \in BOOLEAN, Skip(c, freeze), freeze \/ Settled(Event(c))
    PROVE  IInv' /\ pc'[c] = "ack?" /\ loc'[c].att = NoAttempts /\ loc'[c].dead = NoDead
<1>e. PICK e : e = Event(c)
    OBVIOUS
<1>1. c \in Procs /\ Types /\ PollInv(c) /\ c \notin Operators
    BY Constants DEF IInv
<1>2. Grows /\ (freeze \/ Settled(e)')
    <2>1. Grows /\ (Settled(e) => Settled(e)')
        BY <1>1, StoreSame DEF store, Settled
    <2> QED
        BY <2>1, <1>e
<1>3. /\ pc' \in [Procs -> Labels] /\ loc' \in [Procs -> LocalsType]
      /\ pc'[c] = "ack?" /\ loc'[c].att = NoAttempts /\ loc'[c].dead = NoDead
      /\ \A q \in Procs \ {c} : pc'[q] = pc[q] /\ loc'[q] = loc[q]
      /\ PollInv(c)'
    BY <1>1, <1>2, <1>e, Skips
<1>4. failed' \in [Events -> Nat]
    BY <1>1 DEF Types
<1> QED
    BY <1>1, <1>3, <1>4, ReadStep
-----------------------------------------------------------------------------
(* The pass *)

\* An instance is a process, and no operator.
LEMMA Polling ==
    ASSUME IInv, NEW c \in Instances
    PROVE  /\ c \in Procs /\ c \notin Operators /\ Types /\ PollInv(c) /\ loc[c] \in LocalsType
           /\ loc[c].from \in Nat /\ loc[c].page \in Seq(Nat) /\ count \in Nat /\ cursor \in 0 .. count
           /\ loc[c].more \in BOOLEAN /\ loc[c].frozen \in BOOLEAN
<1>1. c \in Procs /\ c \notin Operators /\ Types /\ PollInv(c) /\ loc[c] \in LocalsType
    BY Constants DEF IInv, Types
<1>2. count \in Nat /\ cursor \in 0 .. count
    BY <1>1, Constants DEF Types, TypeOK
<1> QED
    BY <1>1, <1>2 DEF LocalsType

\* poll() reads the flag.
LEMMA PollStartStep ==
    ASSUME IInv, NEW c \in Instances, PollStart(c)
    PROVE  IInv'
<1>1. rescan \in BOOLEAN
    BY Polling DEF Types, TypeOK
<1>2. /\ loc' \in [Procs -> LocalsType] /\ loc'[c].from = loc[c].from
      /\ \A q \in Procs \ {c} : loc'[q] = loc[q]
    BY <1>1, Polling, ZenonT(60) DEF PollStart, Types, LocalsType
<1>3. PICK label \in {"rewind", "cursor"} : Go(c, label)
    BY DEF PollStart
<1>4. pc' \in [Procs -> Labels] /\ pc'[c] = label /\ \A q \in Procs \ {c} : pc'[q] = pc[q]
    BY <1>3, Polling, PcSet DEF Labels
<1>5. PollInv(c)'
    BY <1>2, <1>3, <1>4, Polling DEF PollInv, PollStart, AtEvent
<1>6. UNCHANGED <<team, store, clock, took>> /\ failed' \in [Events -> Nat]
    BY Polling DEF PollStart, history, Types
<1> QED
    BY <1>2, <1>4, <1>5, <1>6, Polling, ReadStep

\* A pass that was asked for starts at the beginning of the log.
LEMMA RewindStep ==
    ASSUME IInv, NEW c \in Instances, Rewind(c)
    PROVE  IInv'
<1>1. pc' \in [Procs -> Labels] /\ pc'[c] = "list" /\ \A q \in Procs \ {c} : pc'[q] = pc[q]
    BY Polling, PcSet DEF Rewind, Labels
<1>2. UNCHANGED <<team, count, acked, att, waiting, dead, rescan, loc, clock, history>> /\ cursor' = 0 /\ pc[c] = "rewind"
    BY DEF Rewind
<1>3. Grows
    BY <1>2, Polling, StoreSame
<1>4. Types'
    BY <1>1, <1>2, Polling DEF Types, TypeOK, history
<1>5. PassedIsVisible'
    BY <1>2 DEF PassedIsVisible
<1>6. PollInv(c)'
    <2>1. loc'[c].from = 0 /\ count' \in Nat
        BY <1>2, Polling DEF PollInv
    <2> QED
        BY <1>1, <2>1 DEF PollInv, AtEvent
<1> QED
    BY <1>1, <1>2, <1>3, <1>4, <1>5, <1>6, Polling, Assemble

\* A normal pass starts at the cursor, behind which everything is settled.
LEMMA GetCursorStep ==
    ASSUME IInv, NEW c \in Instances, GetCursor(c)
    PROVE  IInv'
<1>1. pc' \in [Procs -> Labels] /\ pc'[c] = "list" /\ \A q \in Procs \ {c} : pc'[q] = pc[q]
    BY Polling, PcSet DEF GetCursor, Labels
<1>2. /\ loc' \in [Procs -> LocalsType] /\ loc'[c].from = cursor
      /\ \A q \in Procs \ {c} : loc'[q] = loc[q]
    <2>1. cursor \in Nat
        BY Polling
    <2> QED
        BY <2>1, Polling, ZenonT(60) DEF GetCursor, Types, LocalsType
<1>3. UNCHANGED <<team, store, clock, took>> /\ failed' \in [Events -> Nat]
    BY Polling DEF GetCursor, history, Types
<1>4. \A e \in 1 .. cursor : Settled(e)'
    BY <1>3 DEF IInv, PassedIsVisible, Settled, store
<1>5. PollInv(c)'
    BY <1>1, <1>2, <1>3, <1>4, Polling DEF PollInv, AtEvent, store
<1> QED
    BY <1>1, <1>2, <1>3, <1>5, Polling, ReadStep

\* A page holds the events that follow the local cursor.
LEMMA ListStep ==
    ASSUME IInv, NEW c \in Instances, List(c)
    PROVE  IInv'
<1> DEFINE f == loc[c].from
           next == f + PageSize
           n == IF next < count THEN PageSize ELSE count - f
           page == [i \in 1 .. n |-> f + i]
<1>1. pc' \in [Procs -> Labels] /\ pc'[c] = "ack?" /\ \A q \in Procs \ {c} : pc'[q] = pc[q]
    BY Polling, PcSet DEF List, Labels
<1>2. f \in Nat /\ f <= count /\ n \in Nat /\ next \in Nat /\ count \in Nat
    <2>1. pc[c] = "list"
        BY DEF List
    <2>2. f \in Nat /\ f <= count /\ count \in Nat
        BY <2>1, Polling DEF PollInv
    <2> QED
        BY <2>2, Constants
<1>3. page \in Seq(Nat) /\ Len(page) = n /\ \A i \in 1 .. n : page[i] = f + i
    <2> HIDE DEF n, f
    <2>1. page \in [1 .. n -> Nat] /\ \A i \in 1 .. n : page[i] = f + i
        BY <1>2
    <2>2. DOMAIN page = 1 .. n
        OBVIOUS
    <2> HIDE DEF page
    <2> QED
        BY <1>2, <2>1, <2>2
<1>4. /\ loc' \in [Procs -> LocalsType] /\ \A q \in Procs \ {c} : loc'[q] = loc[q]
      /\ loc'[c].from = next /\ loc'[c].page = page /\ loc'[c].more = (next < count)
      /\ loc'[c].frozen = loc[c].frozen
    <2>1. loc' = [loc EXCEPT ![c] = [@ EXCEPT !.page = page, !.from = next, !.more = (next < count)]]
        BY DEF List
    <2>2. (next < count) \in BOOLEAN
        OBVIOUS
    <2> HIDE DEF page, next, n
    <2> QED
        BY <1>2, <1>3, <2>1, <2>2, Polling, ZenonT(60) DEF Types, LocalsType
<1>5. UNCHANGED <<team, store, clock, took>> /\ failed' \in [Events -> Nat]
    BY Polling DEF List, history, Types
<1>6. PollInv(c)'
    <2>1. \A i \in 1 .. Len(loc'[c].page) : loc'[c].page[i] \in 1 .. count'
        BY <1>2, <1>3, <1>4, <1>5, Constants, SMTT(40) DEF store
    <2>2. ASSUME loc'[c].more, ~loc'[c].frozen, NEW e \in 1 .. next PROVE Settled(e)' \/ OnPage(c, e)'
        <3>1. CASE e \in 1 .. f
            BY <1>4, <1>5, <2>2, <3>1, Polling, ZenonT(60) DEF PollInv, List, Settled, store
        <3>2. CASE e \notin 1 .. f
            <4>1. e - f \in 1 .. n
                <5>1. next < count
                    BY <1>4, <2>2, Zenon
                <5> QED
                    BY <1>2, <2>2, <3>2, <5>1, Constants
            <4>2. loc'[c].page[e - f] = e
                BY <1>2, <1>3, <1>4, <4>1
            <4> QED
                BY <1>3, <1>4, <4>1, <4>2 DEF OnPage
        <3> QED
            BY <3>1, <3>2
    <2>3. loc'[c].more => loc'[c].from <= count'
        <3> SUFFICES ASSUME loc'[c].more PROVE next <= count'
            BY <1>4
        <3>1. next < count
            BY <1>4, Zenon
        <3> QED
            BY <1>2, <1>5, <3>1 DEF store
    <2> QED
        BY <1>1, <1>4, <2>1, <2>2, <2>3 DEF PollInv, AtEvent
<1> QED
    BY <1>1, <1>4, <1>5, <1>6, Polling, ReadStep

\* The cursor moves only over settled events.
LEMMA PageEndStep ==
    ASSUME IInv, NEW c \in Instances, PageEnd(c)
    PROVE  IInv'
<1>1. /\ UNCHANGED <<team, count, acked, att, waiting, dead, rescan, clock, failed, took>>
      /\ loc[c].page = <<>> /\ pc[c] = "ack?"
    BY DEF PageEnd, history
<1>2. Grows /\ \A e : Settled(e)' <=> Settled(e)
    BY <1>1, Polling, StoreSame
<1>3. CASE Return(c) /\ UNCHANGED cursor
    <2>1. UNCHANGED <<team, store, clock, took>> /\ failed' \in [Events -> Nat]
        BY <1>1, <1>3, Polling DEF store, Types
    <2> QED
        BY <1>3, <2>1, Polling, Returns, ReadStep
<1>4. CASE Go(c, "clear") /\ UNCHANGED <<loc, cursor>>
    <2>1. UNCHANGED <<team, store, clock, took>> /\ failed' \in [Events -> Nat]
        BY <1>1, <1>4, Polling DEF store, Types
    <2>2. pc' \in [Procs -> Labels] /\ pc'[c] = "clear" /\ \A q \in Procs \ {c} : pc'[q] = pc[q]
        BY <1>4, Polling, PcSet DEF Labels
    <2>3. PollInv(c)'
        BY <2>2 DEF PollInv, AtEvent
    <2>4. loc' \in [Procs -> LocalsType]
        BY <1>4, Polling DEF Types
    <2> QED
        BY <1>4, <2>1, <2>2, <2>3, <2>4, Polling, ReadStep
<1>5. CASE loc[c].more /\ cursor' = (IF loc[c].frozen THEN cursor ELSE loc[c].from) /\ Go(c, "list") /\ UNCHANGED loc
    <2>1. pc' \in [Procs -> Labels] /\ pc'[c] = "list" /\ \A q \in Procs \ {c} : pc'[q] = pc[q]
        BY <1>5, Polling, PcSet DEF Labels
    <2>2. loc[c].from <= count /\ (~loc[c].frozen => \A e \in 1 .. loc[c].from : Settled(e))
        BY <1>1, <1>5, Polling DEF PollInv, OnPage
    <2>3. cursor' \in 0 .. count'
        BY <1>1, <1>5, <2>2, Polling
    <2>4. Types'
        BY <1>1, <1>5, <2>1, <2>3, Polling DEF Types, TypeOK
    <2>5. PassedIsVisible'
        <3>1. CASE loc[c].frozen
            BY <1>1, <1>5, <3>1 DEF IInv, PassedIsVisible
        <3>2. CASE ~loc[c].frozen
            BY <1>1, <1>5, <2>2, <3>2 DEF PassedIsVisible, Settled
        <3> QED
            BY <3>1, <3>2
    <2>6. PollInv(c)'
        BY <1>1, <1>2, <1>5, <2>1, <2>2 DEF PollInv, AtEvent
    <2> QED
        BY <1>2, <1>5, <2>1, <2>4, <2>5, <2>6, Polling, Assemble
<1> QED
    BY <1>3, <1>4, <1>5 DEF PageEnd

\* The flag is cleared.
LEMMA ClearRescanStep ==
    ASSUME IInv, NEW c \in Instances, ClearRescan(c)
    PROVE  IInv'
<1>1. UNCHANGED <<team, count, acked, att, waiting, dead, cursor, clock, failed, took>> /\ rescan' = FALSE
    BY DEF ClearRescan, history
<1>2. /\ pc' \in [Procs -> Labels] /\ loc' \in [Procs -> LocalsType] /\ PollInv(c)'
      /\ \A q \in Procs \ {c} : pc'[q] = pc[q] /\ loc'[q] = loc[q]
    BY Polling, Returns DEF ClearRescan
<1>3. Grows
    BY <1>1, Polling, StoreSame
<1>4. Types'
    BY <1>1, <1>2, Polling DEF Types, TypeOK, LocalsType
<1>5. PassedIsVisible'
    BY <1>1 DEF IInv, PassedIsVisible
<1> QED
    BY <1>2, <1>3, <1>4, <1>5, Polling, Assemble
-----------------------------------------------------------------------------
(* One event *)

\* The same with the local variables as they are.
LEMMA MoveStep ==
    ASSUME IInv, NEW c \in Instances, UNCHANGED <<team, store, clock, took, loc>>, failed' \in [Events -> Nat],
           pc[c] \in AtEvent \cup {"ack?"}, loc[c].page # <<>>, NEW label \in AtEvent, Go(c, label)
    PROVE  IInv' /\ pc'[c] = label
<1>1. loc' = [loc EXCEPT ![c] = loc[c]]
    BY Polling DEF Types
<1> QED
    BY <1>1, Polling, StayStep

\* get evtack
LEMMA GetAckStep ==
    ASSUME IInv, NEW c \in Instances, GetAck(c)
    PROVE  IInv'
<1>1. /\ UNCHANGED <<team, store, clock, took, failed>> /\ pc[c] \in AtEvent \cup {"ack?"} /\ loc[c].page # <<>>
      /\ failed' \in [Events -> Nat]
    BY Polling DEF GetAck, history, Types
<1>2. CASE Event(c) \in acked /\ Skip(c, FALSE)
    BY <1>1, <1>2, SkipStep DEF Settled
<1>3. CASE Go(c, "dead?") /\ UNCHANGED loc
    BY <1>1, <1>3, MoveStep DEF AtEvent
<1> QED
    BY <1>2, <1>3 DEF GetAck

\* get evtdead
LEMMA GetDeadStep ==
    ASSUME IInv, NEW c \in Instances, GetDead(c)
    PROVE  IInv'
<1>1. pc[c] = "dead?" /\ UNCHANGED <<team, store, clock, took, failed>> /\ failed' \in [Events -> Nat]
    BY Polling DEF GetDead, history, Types
<1>2. pc[c] \in AtEvent \cup {"ack?"} /\ loc[c].page # <<>>
    BY <1>1, Polling DEF AtEvent, PollInv
<1>3. Event(c) \in Events /\ dead[Event(c)] \in DeadRecord
    BY <1>2, AtHand, Polling DEF Types
<1>4. CASE Quarantined(dead[Event(c)]) /\ Skip(c, FALSE)
    BY <1>1, <1>2, <1>4, SkipStep DEF Settled, Quarantined
<1>5. CASE loc' = [loc EXCEPT ![c].dead = dead[Event(c)]] /\ Go(c, "att?")
    <2> DEFINE l == [loc[c] EXCEPT !.dead = dead[Event(c)]]
    <2>1. loc' = [loc EXCEPT ![c] = l]
        BY <1>5
    <2>2. /\ l \in LocalsType /\ l.page = loc[c].page /\ l.from = loc[c].from /\ l.more = loc[c].more
          /\ l.frozen = loc[c].frozen
        BY <1>3, Polling DEF LocalsType
    <2> HIDE DEF l
    <2> QED
        BY <1>1, <1>2, <1>5, <2>1, <2>2, StayStep DEF AtEvent
<1> QED
    BY <1>4, <1>5 DEF GetDead

\* get evtatt
LEMMA GetAttemptsStep ==
    ASSUME IInv, NEW c \in Instances, GetAttempts(c)
    PROVE  IInv'
<1>1. pc[c] = "att?" /\ UNCHANGED <<team, store, clock, took, failed>> /\ failed' \in [Events -> Nat]
    BY Polling DEF GetAttempts, history, Types
<1>2. pc[c] \in AtEvent \cup {"ack?"} /\ loc[c].page # <<>>
    BY <1>1, Polling DEF AtEvent, PollInv
<1>3. Event(c) \in Events /\ att[Event(c)] \in Attempts
    BY <1>2, AtHand, Polling DEF Types
<1>4. CASE Skip(c, TRUE)
    BY <1>1, <1>2, <1>4, SkipStep
<1>5. CASE loc' = [loc EXCEPT ![c].att = att[Event(c)]] /\ Go(c, "handle")
    <2> DEFINE l == [loc[c] EXCEPT !.att = att[Event(c)]]
    <2>1. loc' = [loc EXCEPT ![c] = l]
        BY <1>5
    <2>2. /\ l \in LocalsType /\ l.page = loc[c].page /\ l.from = loc[c].from /\ l.more = loc[c].more
          /\ l.frozen = loc[c].frozen
        BY <1>3, Polling DEF LocalsType
    <2> HIDE DEF l
    <2> QED
        BY <1>1, <1>2, <1>5, <2>1, <2>2, StayStep DEF AtEvent
<1> QED
    BY <1>4, <1>5 DEF GetAttempts

\* The handler resolves, or throws and has failed once more.
LEMMA HandleStep ==
    ASSUME IInv, NEW c \in Instances, Handle(c)
    PROVE  IInv' /\ UNCHANGED loc /\ Event(c) \in Events
<1>1. pc[c] = "handle" /\ UNCHANGED <<team, store, clock, took, loc>>
    BY DEF Handle
<1>2. pc[c] \in AtEvent \cup {"ack?"} /\ loc[c].page # <<>>
    BY <1>1, Polling DEF AtEvent, PollInv
<1>3. failed' \in [Events -> Nat]
    BY Polling DEF Handle, Types
<1>4. PICK label \in {"ack", "fresh"} : Go(c, label)
    BY DEF Handle
<1> QED
    BY <1>1, <1>2, <1>3, <1>4, MoveStep, AtHand, Polling DEF AtEvent

\* get evtdead again
LEMMA GetFreshStep ==
    ASSUME IInv, NEW c \in Instances, GetFresh(c)
    PROVE  IInv'
<1>1. pc[c] = "fresh" /\ UNCHANGED <<team, store, clock, took, failed>> /\ failed' \in [Events -> Nat]
    BY Polling DEF GetFresh, history, Types
<1>2. pc[c] \in AtEvent \cup {"ack?"} /\ loc[c].page # <<>>
    BY <1>1, Polling DEF AtEvent, PollInv
<1>3. Event(c) \in Events /\ dead[Event(c)] \in DeadRecord
    BY <1>2, AtHand, Polling DEF Types
<1>4. CASE Skip(c, TRUE)
    BY <1>1, <1>2, <1>4, SkipStep
<1>5. CASE loc' = [loc EXCEPT ![c].fresh = dead[Event(c)]] /\ Go(c, IF Last(c) THEN "acked?" ELSE "count")
    <2> DEFINE l == [loc[c] EXCEPT !.fresh = dead[Event(c)]]
    <2>1. loc' = [loc EXCEPT ![c] = l]
        BY <1>5
    <2>2. /\ l \in LocalsType /\ l.page = loc[c].page /\ l.from = loc[c].from /\ l.more = loc[c].more
          /\ l.frozen = loc[c].frozen
        BY <1>3, Polling DEF LocalsType
    <2> HIDE DEF l
    <2>3. PICK label \in AtEvent : Go(c, label)
        BY <1>5 DEF AtEvent
    <2> QED
        BY <1>1, <1>2, <1>5, <2>1, <2>2, <2>3, StayStep
<1> QED
    BY <1>4, <1>5 DEF GetFresh

\* get evtack again
LEMMA RecheckStep ==
    ASSUME IInv, NEW c \in Instances, Recheck(c)
    PROVE  IInv'
<1>1. pc[c] = "acked?" /\ UNCHANGED <<team, store, clock, took, failed>> /\ failed' \in [Events -> Nat]
    BY Polling DEF Recheck, history, Types
<1>2. pc[c] \in AtEvent \cup {"ack?"} /\ loc[c].page # <<>>
    BY <1>1, Polling DEF AtEvent, PollInv
<1>3. CASE Event(c) \in acked /\ Skip(c, FALSE)
    BY <1>1, <1>2, <1>3, SkipStep DEF Settled
<1>4. CASE Go(c, "count") /\ UNCHANGED loc
    BY <1>1, <1>2, <1>4, MoveStep DEF AtEvent
<1> QED
    BY <1>3, <1>4 DEF Recheck

\* A write about the event at hand, after which the instance goes on to the
\* next one.
LEMMA WriteStep ==
    ASSUME IInv, NEW c \in Instances, pc[c] \in AtEvent, NEW freeze \in BOOLEAN, Skip(c, freeze),
           UNCHANGED <<team, count, cursor, rescan, clock, failed, took>>,
           acked' \subseteq 1 .. count, acked \subseteq acked', waiting' \subseteq 1 .. count,
           att' \in [Events -> Attempts], dead' \in [Events -> DeadRecord],
           \A e \in Events : dead[e] # NoDead => dead'[e] # NoDead,
           NEW at, at = Event(c), freeze \/ Settled(at)'
    PROVE  IInv' /\ pc'[c] = "ack?" /\ loc'[c].att = NoAttempts /\ loc'[c].dead = NoDead
<1>1. loc[c].page # <<>>
    BY Polling DEF PollInv
<1>2. Grows
    <2>1. \A e \in Events : Settled(e) => Settled(e)'
        BY DEF Settled
    <2>2. count <= count' /\ count' \in Nat
        BY Polling
    <2> QED
        BY <2>1, <2>2 DEF Grows
<1>3. /\ pc' \in [Procs -> Labels] /\ loc' \in [Procs -> LocalsType]
      /\ pc'[c] = "ack?" /\ loc'[c].att = NoAttempts /\ loc'[c].dead = NoDead
      /\ \A q \in Procs \ {c} : pc'[q] = pc[q] /\ loc'[q] = loc[q]
      /\ PollInv(c)'
    BY <1>1, <1>2, Polling, Skips
<1>4. Types'
    BY <1>3, Polling DEF Types, TypeOK, LocalsType
<1>5. PassedIsVisible'
    BY Polling, Constants DEF IInv, PassedIsVisible
<1> QED
    BY <1>2, <1>3, <1>4, <1>5, Polling, Assemble

\* ackOnce
LEMMA AckStep ==
    ASSUME IInv, NEW c \in Instances, Ack(c)
    PROVE  IInv' /\ Event(c) \in Events
<1>1. PICK at : at = Event(c)
    OBVIOUS
<1>2. /\ pc[c] \in AtEvent /\ Skip(c, FALSE) /\ acked' = acked \cup {at}
      /\ UNCHANGED <<team, count, att, waiting, dead, cursor, rescan, clock, failed, took>>
    BY <1>1 DEF Ack, AtEvent, history
<1>3. at \in 1 .. count /\ at \in Events
    BY <1>1, <1>2, AtHand, Polling DEF PollInv
<1>4. Settled(at)'
    BY <1>2 DEF Settled
<1>5. acked' \subseteq 1 .. count /\ waiting' \subseteq 1 .. count /\ att' \in [Events -> Attempts] /\ dead' \in [Events -> DeadRecord]
    BY <1>2, <1>3, Polling DEF Types, TypeOK
<1> QED
    BY <1>1, <1>2, <1>3, <1>4, <1>5, WriteStep

\* put or putIfMatch evtatt
LEMMA CountStep ==
    ASSUME IInv, NEW c \in Instances, Count(c)
    PROVE  IInv'
<1>1. PICK at : at = Event(c)
    OBVIOUS
<1>2. /\ pc[c] \in AtEvent
      /\ UNCHANGED <<team, count, acked, dead, cursor, rescan, clock, failed, took>>
    BY DEF Count, AtEvent, history
<1>3. at \in 1 .. count /\ at \in Events
    BY <1>1, <1>2, AtHand, Polling DEF PollInv
<1>4. acked' \subseteq 1 .. count /\ dead' \in [Events -> DeadRecord]
    BY <1>2, Polling DEF Types, TypeOK
<1>5. att' \in [Events -> Attempts] /\ waiting' \subseteq 1 .. count
    <2>1. CASE UNCHANGED <<att, waiting>>
        BY <2>1, Polling DEF Types, TypeOK
    <2>2. CASE Attempted(c)
        <3>1. loc[c].att \in Attempts
            BY Polling DEF LocalsType
        <3>2. [n |-> loc[c].att.n + 1, gen |-> loc[c].att.gen, by |-> c] \in Attempts
            BY <3>1, Polling DEF Attempts
        <3> QED
            BY <1>1, <1>3, <2>2, <3>2, Polling DEF Attempted, Types, TypeOK
    <2> QED
        BY <2>1, <2>2 DEF Count
<1>6. CASE Skip(c, TRUE)
    BY <1>1, <1>2, <1>4, <1>5, <1>6, WriteStep
<1>7. CASE Go(c, "bury") /\ UNCHANGED loc
    <2>1. pc' \in [Procs -> Labels] /\ pc'[c] = "bury" /\ \A q \in Procs \ {c} : pc'[q] = pc[q]
        BY <1>7, Polling, PcSet DEF Labels, AtEvent
    <2>2. Grows /\ \A e : Settled(e)' <=> Settled(e)
        BY <1>2, Polling, StoreSame
    <2>3. Types'
        BY <1>2, <1>4, <1>5, <1>7, <2>1, Polling DEF Types, TypeOK
    <2>4. PassedIsVisible'
        BY <1>2 DEF IInv, PassedIsVisible
    <2>5. \A e : OnPage(c, e)' <=> OnPage(c, e)
        BY <1>7 DEF OnPage
    <2>6. PollInv(c)'
        BY <1>2, <1>7, <2>1, <2>2, <2>5, Polling DEF PollInv, AtEvent
    <2> QED
        BY <1>7, <2>1, <2>2, <2>3, <2>4, <2>6, Polling, Assemble
<1> QED
    BY <1>6, <1>7 DEF Count, Attempted

\* put or putIfMatch evtdead
LEMMA BuryStep ==
    ASSUME IInv, NEW c \in Instances, Bury(c)
    PROVE  IInv' /\ Event(c) \in Events
<1>1. PICK at : at = Event(c)
    OBVIOUS
<1>2. /\ pc[c] \in AtEvent
      /\ UNCHANGED <<team, count, acked, att, waiting, cursor, rescan, clock, failed, took>>
    BY DEF Bury, AtEvent, history
<1>3. at \in 1 .. count /\ at \in Events
    BY <1>1, <1>2, AtHand, Polling DEF PollInv
<1>4. acked' \subseteq 1 .. count /\ att' \in [Events -> Attempts] /\ waiting' \subseteq 1 .. count
    BY <1>2, Polling DEF Types, TypeOK
<1>5. CASE Skip(c, TRUE) /\ UNCHANGED dead
    BY <1>1, <1>2, <1>3, <1>4, <1>5, WriteStep, Polling DEF Types
<1>6. CASE /\ Skip(c, FALSE)
           /\ dead' = [dead EXCEPT ![Event(c)] = [releases |-> loc[c].fresh.releases, releasedAt |-> 0, by |-> c]]
    <2> DEFINE d == [releases |-> loc[c].fresh.releases, releasedAt |-> 0, by |-> c]
    <2>1. loc[c].fresh \in DeadRecord
        BY Polling DEF LocalsType
    <2>2. d \in DeadRecord /\ d.by = c
        BY <2>1, Polling DEF DeadRecord
    <2>3. d # NoDead
        BY <2>2, Polling, Empty, Constants
    <2> HIDE DEF d
    <2>4. dead' = [dead EXCEPT ![at] = d]
        BY <1>1, <1>6 DEF d
    <2>5. /\ dead' \in [Events -> DeadRecord] /\ dead'[at] # NoDead
          /\ \A e \in Events : dead[e] # NoDead => dead'[e] # NoDead
        BY <1>3, <2>2, <2>3, <2>4, Polling DEF Types
    <2>6. Settled(at)'
        BY <2>5 DEF Settled
    <2> QED
        BY <1>1, <1>2, <1>3, <1>4, <1>6, <2>5, <2>6, WriteStep
<1> QED
    BY <1>5, <1>6 DEF Bury
-----------------------------------------------------------------------------
(* The operators and the environment *)

\* An operator is a process, and no instance.
LEMMA Retrying ==
    ASSUME IInv, NEW o \in Operators
    PROVE  /\ o \in Procs /\ o \notin Instances /\ Types /\ RetryInv(o) /\ loc[o] \in LocalsType
           /\ loc[o].dead \in DeadRecord /\ loc[o].at \in Nat /\ loc[o].tries \in 0 .. ReleaseTries
<1>1. o \in Procs /\ o \notin Instances /\ Types /\ RetryInv(o) /\ loc[o] \in LocalsType
    BY Constants DEF IInv, Types
<1> QED
    BY <1>1 DEF LocalsType

\* retryDeadEvent begins with a record.
LEMMA RetryDeadEventStep ==
    ASSUME IInv, NEW o \in Operators, NEW e \in Events, RetryDeadEvent(o, e)
    PROVE  IInv'
<1>1. UNCHANGED <<team, store, clock, took>> /\ failed' \in [Events -> Nat] /\ dead' = dead /\ dead[e] # NoDead
    BY Retrying DEF RetryDeadEvent, history, store, Types
<1>2. pc' \in [Procs -> Labels] /\ pc'[o] = "acked?" /\ \A q \in Procs \ {o} : pc'[q] = pc[q]
    BY Retrying, PcSet DEF RetryDeadEvent, Labels, AtEvent
<1>3. /\ loc' \in [Procs -> LocalsType] /\ loc'[o].event = e /\ loc'[o].dead = dead[e]
      /\ \A q \in Procs \ {o} : loc'[q] = loc[q]
    <2>1. loc' = [loc EXCEPT ![o] = [@ EXCEPT !.event = e, !.dead = dead[e]]] /\ dead[e] \in DeadRecord
        BY Retrying DEF RetryDeadEvent, Types
    <2> QED
        BY <2>1, Retrying DEF Types, LocalsType
<1>4. RetryInv(o)'
    BY <1>1, <1>2, <1>3 DEF RetryInv
<1> QED
    BY <1>1, <1>2, <1>3, <1>4, Retrying, ReadStep

\* A lost compare-and-set is tried again on the record as it is now.
LEMMA RereadStep ==
    ASSUME IInv, NEW o \in Operators, Reread(o)
    PROVE  IInv'
<1>1. UNCHANGED <<team, store, clock, took>> /\ failed' \in [Events -> Nat] /\ dead' = dead /\ pc[o] = "reread"
    BY Retrying DEF Reread, history, store, Types
<1>2. loc[o].event \in Events /\ dead[loc[o].event] # NoDead /\ dead[loc[o].event] \in DeadRecord
    BY <1>1, Retrying DEF RetryInv, Types
<1>3. pc' \in [Procs -> Labels] /\ pc'[o] = "acked?" /\ \A q \in Procs \ {o} : pc'[q] = pc[q]
    BY Retrying, PcSet DEF Reread, Labels, AtEvent
<1>4. /\ loc' \in [Procs -> LocalsType] /\ loc'[o].event = loc[o].event /\ loc'[o].dead = dead[loc[o].event]
      /\ \A q \in Procs \ {o} : loc'[q] = loc[q]
    BY <1>2, Retrying, ZenonT(60) DEF Reread, Types, LocalsType
<1>5. RetryInv(o)'
    BY <1>1, <1>2, <1>3, <1>4 DEF RetryInv
<1> QED
    BY <1>1, <1>3, <1>4, <1>5, Retrying, ReadStep

\* A delivered event is not released.
LEMMA ReleaseAckedStep ==
    ASSUME IInv, NEW o \in Operators, ReleaseAcked(o)
    PROVE  IInv'
<1>1. UNCHANGED <<team, store, clock, took>> /\ failed' \in [Events -> Nat] /\ dead' = dead /\ pc[o] = "acked?"
    BY Retrying DEF ReleaseAcked, history, store, Types
<1>2. CASE Return(o)
    BY <1>1, <1>2, Returns, Retrying, ReadStep
<1>3. CASE Go(o, "reset") /\ UNCHANGED loc
    <2>1. pc' \in [Procs -> Labels] /\ pc'[o] = "reset" /\ \A q \in Procs \ {o} : pc'[q] = pc[q]
        BY <1>3, Retrying, PcSet DEF Labels
    <2>2. loc' \in [Procs -> LocalsType]
        BY <1>3, Retrying DEF Types
    <2>3. RetryInv(o)'
        BY <1>1, <1>3, <2>1, Retrying DEF RetryInv
    <2> QED
        BY <1>1, <1>3, <2>1, <2>2, <2>3, Retrying, ReadStep
<1> QED
    BY <1>2, <1>3 DEF ReleaseAcked

\* The counter starts again, under a stamp no other release has.
LEMMA ResetStep ==
    ASSUME IInv, NEW o \in Operators, Reset(o)
    PROVE  /\ IInv' /\ loc[o].event \in Events /\ dead[loc[o].event] # NoDead
           /\ att' = [att EXCEPT ![loc[o].event] =
                         [n |-> 0, gen |-> <<loc[o].dead.releases + 1, clock + 1>>, by |-> "none"]]
<1> DEFINE e == loc[o].event
           d == loc[o].dead
           a == [n |-> 0, gen |-> <<d.releases + 1, clock + 1>>, by |-> "none"]
<1>1. /\ UNCHANGED <<team, count, acked, dead, cursor, rescan, took>> /\ pc[o] = "reset"
      /\ clock' = clock + 1 /\ waiting' = waiting \ {e} /\ failed' = [failed EXCEPT ![e] = 0]
      /\ loc' = [loc EXCEPT ![o].at = clock']
    BY DEF Reset
<1>2. e \in Events /\ dead[e] # NoDead /\ d # NoDead /\ d \in DeadRecord /\ clock \in Nat
    BY <1>1, Retrying DEF RetryInv, Types
<1>3. a \in Attempts /\ att' = [att EXCEPT ![e] = a]
    <2>1. releaseStamp(ReleasedRecord(o, clock')) = <<d.releases + 1, clock + 1>>
        BY <1>1, <1>2 DEF releaseStamp, ReleasedRecord, DeadRecord
    <2>2. d.releases \in Nat
        BY <1>2 DEF DeadRecord
    <2>3. a \in Attempts
        BY <1>2, <2>2 DEF Attempts
    <2> QED
        BY <2>1, <2>3 DEF Reset
<1>4. /\ loc' \in [Procs -> LocalsType] /\ \A q \in Procs \ {o} : loc'[q] = loc[q]
      /\ loc'[o].at = clock + 1 /\ loc'[o].event = e /\ loc'[o].dead = d
    <2> DEFINE l == [loc[o] EXCEPT !.at = clock + 1]
    <2>1. loc' = [loc EXCEPT ![o] = l]
        BY <1>1
    <2>2. l \in LocalsType /\ l.at = clock + 1 /\ l.event = e /\ l.dead = d
        <3>1. loc[o] \in LocalsType /\ clock + 1 \in Nat
            BY <1>2, Retrying
        <3> QED
            BY <3>1 DEF LocalsType
    <2> HIDE DEF l
    <2> QED
        BY <2>1, <2>2, Retrying DEF Types
<1>5. pc' \in [Procs -> Labels] /\ pc'[o] = "release" /\ \A q \in Procs \ {o} : pc'[q] = pc[q]
    BY Retrying, PcSet DEF Reset, Labels
<1>6. Grows
    BY <1>1, Retrying, StoreSame
<1> HIDE DEF a
<1>7. Types'
    BY <1>1, <1>2, <1>3, <1>4, <1>5, Retrying DEF Types, TypeOK, LocalsType
<1>8. PassedIsVisible'
    BY <1>1 DEF IInv, PassedIsVisible
<1>9. RetryInv(o)'
    BY <1>1, <1>2, <1>4, <1>5 DEF RetryInv
<1>10. IInv'
    BY <1>4, <1>5, <1>6, <1>7, <1>8, <1>9, Retrying, Assemble
<1> QED
    BY <1>2, <1>3, <1>10 DEF a

\* A dead letter that was handed back at that time.
Revived(d, at) == [releases |-> d.releases + 1, releasedAt |-> at, by |-> d.by]

\* The record says that the event was handed back, or it stays as it is.
LEMMA ReleaseStep ==
    ASSUME IInv, NEW o \in Operators, Release(o)
    PROVE  /\ IInv' /\ loc[o].event \in Events
           /\ \/ UNCHANGED <<dead, took>>
              \/ /\ dead[loc[o].event] # NoDead
                 /\ took' = [took EXCEPT ![loc[o].event] = @ + 1]
                 /\ \E at \in Nat \ {0} :
                       dead' = [dead EXCEPT ![loc[o].event] = Revived(dead[loc[o].event], at)]
<1>e. PICK e : e = loc[o].event
    OBVIOUS
<1>1. UNCHANGED <<team, count, acked, att, waiting, cursor, rescan, clock, failed>> /\ pc[o] = "release"
    BY DEF Release
<1>2. e \in Events /\ dead[e] # NoDead /\ loc[o].dead # NoDead /\ loc[o].at \in Nat \ {0} /\ dead[e] \in DeadRecord
    BY <1>1, <1>e, Retrying DEF RetryInv, Types
<1>3. CASE dead[e] = loc[o].dead /\ Released(o)
    <2> DEFINE d == Revived(dead[e], loc[o].at)
    <2>1. d \in DeadRecord /\ d.releasedAt # 0
        BY <1>2 DEF DeadRecord, Revived
    <2>2. d # NoDead
        BY <2>1, Empty
    <2>3. dead' = [dead EXCEPT ![e] = d] /\ took' = [took EXCEPT ![e] = @ + 1] /\ UNCHANGED loc
        BY <1>3, <1>e DEF Released, ReleasedRecord, Revived
    <2>4. pc' \in [Procs -> Labels] /\ pc'[o] = "flag" /\ \A q \in Procs \ {o} : pc'[q] = pc[q]
        BY <1>3, Retrying, PcSet DEF Released, Labels
    <2>5. \E at \in Nat \ {0} : dead' = [dead EXCEPT ![e] = Revived(dead[e], at)]
        BY <1>2, <2>3
    <2> HIDE DEF d
    <2>6. /\ dead' \in [Events -> DeadRecord] /\ \A q \in Events : dead[q] # NoDead => dead'[q] # NoDead
          /\ dead'[e] # NoDead
        BY <1>2, <2>1, <2>2, <2>3, Retrying DEF Types
    <2>7. Grows
        <3>1. \A q \in Events : Settled(q) => Settled(q)'
            BY <1>1, <2>6 DEF Settled
        <3> QED
            BY <1>1, <2>6, <3>1, Retrying DEF Grows, Types, TypeOK
    <2>8. Types'
        BY <1>1, <1>2, <2>3, <2>4, <2>6, Retrying DEF Types, TypeOK
    <2>9. PassedIsVisible'
        <3>1. \A q \in 1 .. cursor : q \in Events
            BY Retrying, Constants DEF Types, TypeOK, Events
        <3> QED
            BY <1>1, <2>6, <3>1 DEF IInv, PassedIsVisible
    <2>10. RetryInv(o)'
        BY <1>2, <1>e, <2>3, <2>4, <2>6 DEF RetryInv
    <2>11. IInv'
        BY <2>3, <2>4, <2>7, <2>8, <2>9, <2>10, Retrying, Assemble
    <2> QED
        BY <1>2, <1>e, <2>3, <2>5, <2>11
<1>4. CASE UNCHANGED <<dead, took>> /\ (Return(o) \/ (loc' = [loc EXCEPT ![o] = [@ EXCEPT !.tries = loc[o].tries + 1, !.at = 0]]
                                                      /\ loc[o].tries + 1 < ReleaseTries /\ Go(o, "reread")))
    <2>1. UNCHANGED <<team, store, clock, took>> /\ failed' \in [Events -> Nat]
        BY <1>1, <1>4, Retrying DEF store, Types
    <2>2. CASE Return(o)
        BY <1>2, <1>4, <1>e, <2>1, <2>2, Returns, Retrying, ReadStep
    <2>3. CASE loc' = [loc EXCEPT ![o] = [@ EXCEPT !.tries = loc[o].tries + 1, !.at = 0]] /\ loc[o].tries + 1 < ReleaseTries /\ Go(o, "reread")
        <3>1. pc' \in [Procs -> Labels] /\ pc'[o] = "reread" /\ \A q \in Procs \ {o} : pc'[q] = pc[q]
            BY <2>3, Retrying, PcSet DEF Labels
        <3>2. /\ loc' \in [Procs -> LocalsType] /\ \A q \in Procs \ {o} : loc'[q] = loc[q]
              /\ loc'[o].event = loc[o].event /\ loc'[o].dead = loc[o].dead
            <4>1. loc[o].tries + 1 \in 0 .. ReleaseTries
                BY <2>3, Retrying, Constants, SMT
            <4> DEFINE l == [loc[o] EXCEPT !.tries = loc[o].tries + 1, !.at = 0]
            <4>2. loc' = [loc EXCEPT ![o] = l]
                BY <2>3
            <4>3. l \in LocalsType /\ l.event = loc[o].event /\ l.dead = loc[o].dead
                BY <4>1, Retrying DEF LocalsType
            <4> HIDE DEF l
            <4> QED
                BY <4>2, <4>3, Retrying DEF Types
        <3>3. RetryInv(o)'
            BY <1>2, <1>4, <1>e, <3>1, <3>2 DEF RetryInv
        <3> QED
            BY <1>2, <1>4, <1>e, <2>1, <3>1, <3>2, <3>3, Retrying, ReadStep
    <2> QED
        BY <1>4, <2>2, <2>3
<1> QED
    BY <1>3, <1>4, <1>e DEF Release

\* The flag is set.
LEMMA SetRescanStep ==
    ASSUME IInv, NEW o \in Operators, SetRescan(o)
    PROVE  IInv'
<1>1. UNCHANGED <<team, count, acked, att, waiting, dead, cursor, clock, failed, took>> /\ rescan' = TRUE
    BY DEF SetRescan, history
<1>2. /\ pc' \in [Procs -> Labels] /\ loc' \in [Procs -> LocalsType] /\ RetryInv(o)'
      /\ \A q \in Procs \ {o} : pc'[q] = pc[q] /\ loc'[q] = loc[q]
    BY Retrying, Returns DEF SetRescan
<1>3. Grows
    BY <1>1, Retrying, StoreSame
<1>4. Types'
    BY <1>1, <1>2, Retrying DEF Types, TypeOK, LocalsType
<1>5. PassedIsVisible'
    BY <1>1 DEF IInv, PassedIsVisible
<1> QED
    BY <1>2, <1>3, <1>4, <1>5, Retrying, Assemble

\* A process that dies forgets its call.
LEMMA CrashStep ==
    ASSUME IInv, NEW p \in Procs, Crash(p)
    PROVE  IInv'
<1>1. UNCHANGED <<team, store, clock, took>> /\ failed' \in [Events -> Nat] /\ Types
    BY DEF IInv, Crash, Types
<1> QED
    BY <1>1, Returns, ReadStep DEF Crash

\* No process moves: an event is emitted, or a backoff runs out.
LEMMA EnvironmentStep ==
    ASSUME IInv, Emit \/ (\E e \in Events : Elapse(e)) \/ UNCHANGED vars
    PROVE  IInv'
<1>1. /\ UNCHANGED <<team, acked, att, dead, cursor, rescan, pc, loc, clock, failed, took>> /\ waiting' \subseteq waiting
      /\ count' \in Nat /\ count <= count' /\ count' <= MaxEvents /\ count \in Nat
    <2>1. count \in 0 .. MaxEvents
        BY DEF IInv, Types, TypeOK
    <2>2. CASE Emit
        BY <2>1, <2>2, Constants DEF Emit, history
    <2>3. ASSUME NEW e \in Events, Elapse(e) PROVE <1>1!:
        BY <2>1, <2>3, Constants DEF Elapse, history
    <2>4. CASE UNCHANGED vars
        BY <2>1, <2>4, Constants DEF vars, store, history
    <2> QED
        BY <2>2, <2>3, <2>4
<1>2. Grows
    BY <1>1 DEF Grows, Settled
<1>3. Types'
    BY <1>1 DEF IInv, Types, TypeOK
<1>4. PassedIsVisible'
    BY <1>1 DEF IInv, PassedIsVisible
<1>5. Instances' = Instances /\ Operators' = Operators /\ Types
    BY <1>1 DEF Instances, Operators, IInv
<1>6. \A c \in Instances : PollInv(c)'
    BY <1>1, <1>2, <1>5, OtherPoll DEF IInv
<1>7. \A o \in Operators : RetryInv(o)'
    BY <1>1, <1>2, <1>5, OtherRetry DEF IInv
<1> QED
    BY <1>3, <1>4, <1>5, <1>6, <1>7 DEF IInv
-----------------------------------------------------------------------------
(* The theorems *)

\* Every step keeps the invariant.
LEMMA Inductive ==
    ASSUME IInv, [Next]_vars
    PROVE  IInv'
<1>1. ASSUME NEW c \in Instances, Poll(c) PROVE IInv'
    BY <1>1, PollStartStep, RewindStep, GetCursorStep, ListStep, PageEndStep, ClearRescanStep,
       GetAckStep, GetDeadStep, GetAttemptsStep, HandleStep, AckStep, GetFreshStep, RecheckStep,
       CountStep, BuryStep DEF Poll
<1>2. ASSUME NEW o \in Operators, Retry(o) PROVE IInv'
    BY <1>2, RereadStep, ReleaseAckedStep, ResetStep, ReleaseStep, SetRescanStep DEF Retry
<1> QED
    BY <1>1, <1>2, CrashStep, RetryDeadEventStep, EnvironmentStep DEF Next, Step

\* A consumer whose log is empty satisfies it.
LEMMA InitIInv == Init => IInv
<1> SUFFICES ASSUME Init PROVE IInv
    OBVIOUS
<1>1. TypeOK
    <2>1. \A p \in Procs : loc[p].event \in {0} \cup Events /\ loc[p].tries \in 0 .. ReleaseTries
        BY Empty, Constants DEF Init
    <2>2. \A e \in Events : att[e] \in Attempts /\ dead[e] \in DeadRecord
        BY Empty DEF Init
    <2>3. count = 0 /\ cursor = 0 /\ acked = {} /\ waiting = {} /\ rescan = FALSE
        BY DEF Init
    <2>4. count \in 0 .. MaxEvents /\ cursor \in 0 .. count
        BY <2>3, Constants
    <2> QED
        BY <2>1, <2>2, <2>3, <2>4 DEF TypeOK
<1>2. Types
    BY <1>1, Empty DEF Init, Types, Labels
<1>3. Instances \subseteq Procs /\ Operators \subseteq Procs
    BY <1>2, Constants
<1>4. \A p \in Procs : PollInv(p) /\ RetryInv(p)
    BY Empty DEF Init, PollInv, RetryInv, AtEvent
<1>5. PassedIsVisible
    BY DEF Init, PassedIsVisible
<1> QED
    BY <1>2, <1>3, <1>4, <1>5 DEF IInv

\* The invariant holds in every behaviour.
THEOREM Invariance == Spec => []IInv
BY InitIInv, Inductive, PTL DEF Spec

\* The persisted cursor passes an event only when it was acked or has a
\* dead-letter record, for any number of instances that share the cursor.
THEOREM NothingLost == Spec => []PassedIsVisible
<1>1. IInv => PassedIsVisible
    BY DEF IInv
<1> QED
    BY <1>1, Invariance, PTL
-----------------------------------------------------------------------------
(* The refinement *)

Shown == [e \in Events |-> Status(e)]

\* A step that leaves the acks and the dead letters alone changes no status.
LEMMA ShownSame ==
    ASSUME UNCHANGED <<acked, dead>>
    PROVE  Shown' = Shown
BY DEF Shown, Status, HandedBack

\* A step about one event changes no other event's status.
LEMMA ShownOne ==
    ASSUME NEW e \in Events, NEW s, s = Status(e)',
           \A q \in Events \ {e} : (q \in acked' <=> q \in acked) /\ dead'[q] = dead[q]
    PROVE  Shown' = [Shown EXCEPT ![e] = s]
<1>1. \A q \in Events \ {e} : Status(q)' = Status(q)
    BY DEF Status, HandedBack
<1> QED
    BY <1>1 DEF Shown

\* An ack is a delivery, or the event was delivered before.
LEMMA AckDelivers ==
    ASSUME IInv, NEW c \in Instances, Ack(c)
    PROVE  [Abstract!Next]_Shown
<1>1. PICK e \in Events : e = Event(c)
    BY AckStep
<1>2. acked' = acked \cup {e} /\ dead' = dead
    BY <1>1 DEF Ack
<1>3. Status(e)' = "delivered"
    BY <1>2 DEF Status
<1>4. Shown' = [Shown EXCEPT ![e] = "delivered"]
    BY <1>2, <1>3, ShownOne
<1>5. CASE e \in acked
    <2>1. UNCHANGED <<acked, dead>>
        BY <1>2, <1>5
    <2> QED
        BY <2>1, ShownSame
<1>6. CASE e \notin acked
    <2>1. Shown[e] # "delivered"
        BY <1>6 DEF Shown, Status
    <2>2. Abstract!Deliver(e)
        BY <1>4, <2>1 DEF Abstract!Deliver, Shown
    <2> QED
        BY <2>2 DEF Abstract!Next
<1> QED
    BY <1>5, <1>6

\* A dead letter that is written quarantines, or the event was quarantined or
\* delivered before.
LEMMA BuryQuarantines ==
    ASSUME IInv, NEW c \in Instances, Bury(c)
    PROVE  [Abstract!Next]_Shown
<1>1. PICK e \in Events : e = Event(c)
    BY BuryStep
<1>2. acked' = acked
    BY DEF Bury
<1>3. CASE UNCHANGED dead
    BY <1>2, <1>3, ShownSame
<1>4. CASE dead' = [dead EXCEPT ![Event(c)] = [releases |-> loc[c].fresh.releases, releasedAt |-> 0, by |-> c]]
    <2>1. \A q \in Events \ {e} : (q \in acked' <=> q \in acked) /\ dead'[q] = dead[q]
        BY <1>1, <1>2, <1>4, Polling DEF Types
    <2>2. dead'[e].releasedAt = 0 /\ dead'[e].by = c
        BY <1>1, <1>4, Polling DEF Types
    <2>3. dead'[e] # NoDead
        BY <2>2, Polling, Empty, Constants
    <2>4. CASE e \in acked
        <3>1. Status(e)' = "delivered" /\ Status(e) = "delivered"
            BY <1>2, <2>4 DEF Status
        <3>2. Shown' = [Shown EXCEPT ![e] = "delivered"]
            BY <2>1, <3>1, ShownOne
        <3> QED
            BY <3>1, <3>2 DEF Shown
    <2>5. CASE e \notin acked
        <3>1. Status(e)' = "quarantined" /\ Status(e) \in {"pending", "released", "quarantined"}
            BY <1>2, <2>2, <2>3, <2>5 DEF Status, HandedBack
        <3>2. Shown' = [Shown EXCEPT ![e] = "quarantined"]
            BY <2>1, <3>1, ShownOne
        <3>3. CASE Status(e) = "quarantined"
            BY <3>2, <3>3 DEF Shown
        <3>4. CASE Status(e) \in {"pending", "released"}
            <4>1. Abstract!Quarantine(e)
                BY <3>2, <3>4 DEF Abstract!Quarantine, Shown
            <4> QED
                BY <4>1 DEF Abstract!Next
        <3> QED
            BY <3>1, <3>3, <3>4
    <2> QED
        BY <2>4, <2>5
<1> QED
    BY <1>3, <1>4 DEF Bury

\* An event that is handed back was quarantined, or handed back or delivered
\* before.
LEMMA ReleaseReleases ==
    ASSUME IInv, NEW o \in Operators, Release(o)
    PROVE  [Abstract!Next]_Shown
<1>1. PICK e \in Events : e = loc[o].event
    BY ReleaseStep
<1>2. acked' = acked
    BY DEF Release
<1>3. CASE UNCHANGED dead
    BY <1>2, <1>3, ShownSame
<1>4. CASE dead[e] # NoDead /\ \E at \in Nat \ {0} : dead' = [dead EXCEPT ![e] = Revived(dead[e], at)]
    <2>1. PICK at \in Nat \ {0} : dead' = [dead EXCEPT ![e] = Revived(dead[e], at)]
        BY <1>4
    <2>2. dead'[e] = Revived(dead[e], at) /\ \A q \in Events \ {e} : (q \in acked' <=> q \in acked) /\ dead'[q] = dead[q]
        BY <1>2, <2>1, Retrying DEF Types
    <2>3. HandedBack(dead'[e]) /\ dead'[e] # NoDead
        BY <2>2, Empty DEF Revived, HandedBack
    <2>4. CASE e \in acked
        <3>1. Status(e)' = "delivered" /\ Status(e) = "delivered"
            BY <1>2, <2>4 DEF Status
        <3>2. Shown' = [Shown EXCEPT ![e] = "delivered"]
            BY <2>2, <3>1, ShownOne
        <3> QED
            BY <3>1, <3>2 DEF Shown
    <2>5. CASE e \notin acked
        <3>1. Status(e)' = "released" /\ Status(e) \in {"released", "quarantined"}
            BY <1>2, <1>4, <2>3, <2>5 DEF Status
        <3>2. Shown' = [Shown EXCEPT ![e] = "released"]
            BY <2>2, <3>1, ShownOne
        <3>3. CASE Status(e) = "released"
            BY <3>2, <3>3 DEF Shown
        <3>4. CASE Status(e) = "quarantined"
            <4>1. Abstract!Release(e)
                BY <3>2, <3>4 DEF Abstract!Release, Shown
            <4> QED
                BY <4>1 DEF Abstract!Next
        <3> QED
            BY <3>1, <3>3, <3>4
    <2> QED
        BY <2>4, <2>5
<1> QED
    BY <1>1, <1>3, <1>4, ReleaseStep

\* Every other step is invisible in listDeadEvents.
LEMMA Simulation ==
    ASSUME IInv, [Next]_vars
    PROVE  [Abstract!Next]_Shown
<1>1. CASE \E c \in Instances : Ack(c)
    BY <1>1, AckDelivers
<1>2. CASE \E c \in Instances : Bury(c)
    BY <1>2, BuryQuarantines
<1>3. CASE \E o \in Operators : Release(o)
    BY <1>3, ReleaseReleases
<1>4. CASE UNCHANGED <<acked, dead>>
    BY <1>4, ShownSame
<1>5. ASSUME NEW c \in Instances, Poll(c), ~Ack(c), ~Bury(c) PROVE UNCHANGED <<acked, dead>>
    BY <1>5 DEF Poll, PollStart, Rewind, GetCursor, List, PageEnd, ClearRescan, GetAck, GetDead,
                GetAttempts, Handle, GetFresh, Recheck, Count, store
<1>6. ASSUME NEW o \in Operators, Retry(o), ~Release(o) PROVE UNCHANGED <<acked, dead>>
    BY <1>6 DEF Retry, Reread, ReleaseAcked, Reset, SetRescan, store
<1>7. ASSUME NEW p \in Procs, Crash(p) PROVE UNCHANGED <<acked, dead>>
    BY <1>7 DEF Crash, store
<1>8. ASSUME NEW o \in Operators, NEW e \in Events, RetryDeadEvent(o, e) PROVE UNCHANGED <<acked, dead>>
    BY <1>8 DEF RetryDeadEvent, store
<1>9. ASSUME Emit \/ (\E e \in Events : Elapse(e)) \/ UNCHANGED vars PROVE UNCHANGED <<acked, dead>>
    BY <1>9 DEF Emit, Elapse, vars, store
<1> QED
    BY <1>1, <1>2, <1>3, <1>4, <1>5, <1>6, <1>7, <1>8, <1>9 DEF Next, Step

\* At first every event is pending.
LEMMA InitShown ==
    ASSUME Init, NEW e \in Events
    PROVE  Status(e) = "pending"
<1>1. acked = {} /\ dead = [q \in Events |-> NoDead]
    BY DEF Init
<1>2. dead[e] = NoDead
    BY <1>1
<1> QED
    BY <1>1, <1>2, Empty DEF Status, HandedBack

\* The consumer implements Delivery: a delivery is final, a dead-letter record
\* never disappears, and nothing is released that was not quarantined, whatever
\* number of instances and operators race, and wherever they crash.
THEOREM Refinement == Spec => ImplementsDelivery
<1>1. Init => Abstract!Init
    <2> SUFFICES ASSUME Init PROVE Abstract!Init
        OBVIOUS
    <2>1. \A e \in Events : Status(e) = "pending"
        BY InitShown
    <2> QED
        BY <2>1 DEF Abstract!Init
<1>2. IInv /\ [Next]_vars => [Abstract!Next]_Shown
    BY Simulation
<1> QED
    BY <1>1, <1>2, Invariance, PTL DEF Spec, ImplementsDelivery, Abstract!Spec, Shown
-----------------------------------------------------------------------------
(* One instance *)

\* Where c polls alone, its step is a process's step, and the team stays.
LEMMA Alone ==
    ASSUME IInv, NEW c, Instances = {c}
    PROVE  /\ c \in Instances /\ c \in Procs /\ c # "none" /\ c \notin Operators /\ Types /\ PollInv(c)
           /\ loc[c] \in LocalsType /\ MaxAttempts \in Nat \ {0}
           /\ loc[c].att \in Attempts /\ loc[c].dead \in DeadRecord /\ loc[c].fresh \in DeadRecord
           /\ (pc[c] \in AtEvent => Event(c) \in Events)
<1>1. c \in Instances
    OBVIOUS
<1>2. c \in Procs /\ c \notin Operators /\ Types /\ PollInv(c) /\ loc[c] \in LocalsType
    BY <1>1, Polling
<1>3. c # "none" /\ MaxAttempts \in Nat \ {0}
    BY <1>2, Constants
<1>4. loc[c].att \in Attempts /\ loc[c].dead \in DeadRecord /\ loc[c].fresh \in DeadRecord
    BY <1>2 DEF LocalsType
<1>5. pc[c] \in AtEvent => Event(c) \in Events
    BY <1>1, <1>2, AtHand DEF PollInv
<1> QED
    BY <1>1, <1>2, <1>3, <1>4, <1>5

Records == <<team, att, dead, failed, took, clock>>

\* The numbers in a record of attempts.
LEMMA Stamped ==
    ASSUME NEW a \in Attempts
    PROVE  a.n \in Nat /\ a.gen \in Nat \X Nat /\ a.gen[1] \in Nat /\ a.gen[2] \in Nat
BY DEF Attempts

\* Nobody writes a record: what is true of them stays true.
LEMMA RecordsStay ==
    ASSUME NEW c, SoloRecords(c), UNCHANGED Records
    PROVE  SoloRecords(c)'
BY DEF SoloRecords, Records, MaxAttempts

\* A step in which c does not move and nobody writes a record.
LEMMA SoloSame ==
    ASSUME NEW c, SoloRecords(c), SoloReads(c), UNCHANGED Records, pc'[c] = pc[c], loc'[c] = loc[c]
    PROVE  SoloRecords(c)' /\ SoloReads(c)'
<1>1. Event(c)' = Event(c)
    BY DEF Event
<1> QED
    BY <1>1, RecordsStay DEF SoloReads, Records, MaxAttempts

\* A step of c that ends where nothing was read yet of an attempt.
LEMMA SoloMove ==
    ASSUME IInv, NEW c, Instances = {c}, SoloRecords(c), SoloReads(c), UNCHANGED Records,
           pc'[c] \notin Failed \cup Rechecked \cup {"handle"},
           loc'[c].att \in {loc[c].att, NoAttempts}, loc'[c].dead \in {loc[c].dead, NoDead}
    PROVE  SoloRecords(c)' /\ SoloReads(c)'
<1>1. clock \in Nat
    BY Alone DEF Types
<1> QED
    BY <1>1, RecordsStay, Empty DEF SoloReads, Records, Failed, Rechecked

\* What skipping does to the local variables.
LEMMA SkipLocals ==
    ASSUME IInv, NEW c, Instances = {c}, NEW freeze, Skip(c, freeze)
    PROVE  pc'[c] = "ack?" /\ loc'[c].att = NoAttempts /\ loc'[c].dead = NoDead
<1>1. loc'[c] = [loc[c] EXCEPT !.page = Tail(@), !.frozen = @ \/ freeze, !.dead = NoDead, !.att = NoAttempts, !.fresh = NoDead]
    BY Alone DEF Skip, Types
<1>2. pc'[c] = "ack?"
    BY Alone DEF Skip, Go, Types
<1> QED
    BY <1>1, <1>2, Alone DEF LocalsType

\* After skipping nothing is read of the next event.
LEMMA SkipReads ==
    ASSUME IInv, NEW c, Instances = {c}, NEW freeze, Skip(c, freeze), UNCHANGED clock
    PROVE  SoloReads(c)'
<1>1. pc'[c] = "ack?" /\ loc'[c].att = NoAttempts /\ loc'[c].dead = NoDead
    BY SkipLocals
<1>2. NoAttempts.gen[2] <= clock'
    BY Alone, Empty DEF Types
<1> QED
    BY <1>1, <1>2 DEF SoloReads, Failed, Rechecked

\* The same for the end of a call.
LEMMA ReturnLocals ==
    ASSUME IInv, NEW c, Instances = {c}, Return(c)
    PROVE  pc'[c] = "idle" /\ loc'[c].att = NoAttempts /\ loc'[c].dead = NoDead
BY Alone, Returns, Empty

\* The requests with which c goes through the log.
LEMMA SoloPass ==
    ASSUME IInv, NEW c, Instances = {c}, SoloRecords(c), SoloReads(c),
           PollStart(c) \/ Rewind(c) \/ GetCursor(c) \/ List(c) \/ PageEnd(c) \/ ClearRescan(c)
    PROVE  SoloRecords(c)' /\ SoloReads(c)'
<1>1. UNCHANGED Records
    BY DEF PollStart, Rewind, GetCursor, List, PageEnd, ClearRescan, Records, store, history
<1>2. pc'[c] \in {"rewind", "cursor", "list", "ack?", "clear", "idle"}
    BY Alone DEF PollStart, Rewind, GetCursor, List, PageEnd, ClearRescan, Go, Return, Types
<1>3. loc'[c].att \in {loc[c].att, NoAttempts} /\ loc'[c].dead \in {loc[c].dead, NoDead}
    <2>1. CASE UNCHANGED loc
        BY <2>1
    <2>2. CASE Return(c)
        BY <2>2, ReturnLocals
    <2>3. CASE PollStart(c) \/ GetCursor(c)
        BY <2>3, Alone DEF PollStart, GetCursor, Types, LocalsType
    <2>4. CASE List(c)
        <3>1. PICK page, from, more : loc' = [loc EXCEPT ![c].page = page, ![c].from = from, ![c].more = more]
            BY <2>4 DEF List
        <3> QED
            BY <3>1, Alone DEF Types, LocalsType
    <2> QED
        BY <2>1, <2>2, <2>3, <2>4 DEF Rewind, PageEnd, ClearRescan
<1> QED
    BY <1>1, <1>2, <1>3, SoloMove DEF Failed, Rechecked

\* c reads the event's markers before its attempt.
LEMMA SoloLook ==
    ASSUME IInv, NEW c, Instances = {c}, SoloRecords(c), SoloReads(c),
           GetAck(c) \/ GetDead(c) \/ GetAttempts(c)
    PROVE  SoloRecords(c)' /\ SoloReads(c)'
<1>1. UNCHANGED Records
    BY DEF GetAck, GetDead, GetAttempts, Records, store, history
<1>2. ASSUME NEW freeze, Skip(c, freeze) PROVE SoloRecords(c)' /\ SoloReads(c)'
    BY <1>1, <1>2, SkipLocals, SoloMove DEF Failed, Rechecked
<1>3. CASE Go(c, "dead?") /\ UNCHANGED loc
    <2>1. pc'[c] = "dead?"
        BY <1>3, Alone DEF Go, Types
    <2> QED
        BY <1>1, <1>3, <2>1, SoloMove DEF Failed, Rechecked
<1>4. CASE pc[c] = "dead?" /\ loc' = [loc EXCEPT ![c].dead = dead[Event(c)]] /\ Go(c, "att?")
    <2>1. pc'[c] = "att?" /\ loc'[c].att = loc[c].att /\ loc'[c].dead = dead[Event(c)] /\ Event(c) \in Events
        BY <1>4, Alone DEF Go, Types, LocalsType, AtEvent
    <2> QED
        BY <1>1, <2>1, RecordsStay DEF SoloReads, SoloRecords, Failed, Rechecked, Records
<1>5. CASE pc[c] = "att?" /\ loc' = [loc EXCEPT ![c].att = att[Event(c)]] /\ Go(c, "handle")
    <2>1. /\ pc'[c] = "handle" /\ loc'[c].att = att[Event(c)] /\ loc'[c].dead = loc[c].dead
          /\ loc'[c].page = loc[c].page /\ Event(c) \in Events
        BY <1>5, Alone DEF Go, Types, LocalsType, AtEvent
    <2>2. Event(c)' = Event(c)
        BY <2>1 DEF Event
    <2>3. att[Event(c)].gen[2] <= clock
        BY <2>1 DEF SoloRecords
    <2> QED
        BY <1>1, <2>1, <2>2, <2>3, RecordsStay DEF SoloReads, Failed, Rechecked, Records
<1> QED
    BY <1>2, <1>3, <1>4, <1>5 DEF GetAck, GetDead, GetAttempts

\* The handler fails: the failure is the one the attempt counter may claim.
LEMMA SoloHandle ==
    ASSUME IInv, NEW c, Instances = {c}, SoloRecords(c), SoloReads(c), Handle(c)
    PROVE  SoloRecords(c)' /\ SoloReads(c)'
<1>1. UNCHANGED <<team, att, dead, took, clock, loc>> /\ pc[c] = "handle"
    BY DEF Handle, store
<1>2. Event(c)' = Event(c) /\ Event(c) \in Events
    BY <1>1, Alone DEF Event, AtEvent
<1>3. CASE Go(c, "ack") /\ UNCHANGED failed
    <2>1. pc'[c] = "ack" /\ UNCHANGED Records
        BY <1>1, <1>3, Alone DEF Go, Types, Records
    <2> QED
        BY <1>1, <2>1, SoloMove DEF Failed, Rechecked
<1>4. CASE Go(c, "fresh") /\ failed' = [failed EXCEPT ![Event(c)] = IF @ < MaxAttempts THEN @ + 1 ELSE @]
    <2> DEFINE e == Event(c)
    <2>1. pc'[c] = "fresh"
        BY <1>4, Alone DEF Go, Types
    <2>2. /\ failed[e] \in Nat /\ att[e].n \in Nat /\ MaxAttempts \in Nat
          /\ failed'[e] = IF failed[e] < MaxAttempts THEN failed[e] + 1 ELSE failed[e]
          /\ \A q \in Events \ {e} : failed'[q] = failed[q]
        BY <1>2, <1>4, Alone, Stamped DEF Types
    <2>3. att[e].n <= failed[e] \/ failed[e] = MaxAttempts
        BY <1>2 DEF SoloRecords
    <2>4. /\ att[e].n + 1 <= failed'[e] \/ failed'[e] = MaxAttempts \/ failed[e] > MaxAttempts
          /\ att[e].n <= failed'[e] \/ failed'[e] = MaxAttempts
        BY <2>2, <2>3
    <2>5. failed[e] <= MaxAttempts
        BY <1>2 DEF SoloRecords
    <2> HIDE DEF e
    <2>6. SoloRecords(c)'
        BY <1>1, <1>2, <2>2, <2>4 DEF SoloRecords, MaxAttempts, e
    <2>7. SoloReads(c)'
        BY <1>1, <1>2, <2>1, <2>2, <2>4, <2>5 DEF SoloReads, MaxAttempts, Failed, Rechecked, e
    <2> QED
        BY <2>6, <2>7
<1> QED
    BY <1>3, <1>4 DEF Handle

\* After a failure: the dead letter and the ack are read again.
LEMMA SoloRecheck ==
    ASSUME IInv, NEW c, Instances = {c}, SoloRecords(c), SoloReads(c), GetFresh(c) \/ Recheck(c)
    PROVE  SoloRecords(c)' /\ SoloReads(c)'
<1>1. UNCHANGED Records
    BY DEF GetFresh, Recheck, Records, store, history
<1>2. ASSUME NEW freeze, Skip(c, freeze) PROVE SoloRecords(c)' /\ SoloReads(c)'
    BY <1>1, <1>2, SkipLocals, SoloMove DEF Failed, Rechecked
<1>3. CASE pc[c] = "acked?" /\ Go(c, "count") /\ UNCHANGED loc
    <2>1. pc'[c] = "count"
        BY <1>3, Alone DEF Go, Types
    <2>2. Event(c)' = Event(c)
        BY <1>3 DEF Event
    <2> QED
        BY <1>1, <1>3, <2>1, <2>2, RecordsStay DEF SoloReads, Failed, Rechecked, Records, MaxAttempts
<1>4. CASE /\ pc[c] = "fresh" /\ releaseStamp(dead[Event(c)]) = releaseStamp(loc[c].dead)
           /\ loc' = [loc EXCEPT ![c].fresh = dead[Event(c)]]
           /\ Go(c, IF Last(c) THEN "acked?" ELSE "count")
    <2>1. /\ pc'[c] \in {"acked?", "count"} /\ loc'[c].att = loc[c].att /\ loc'[c].dead = loc[c].dead
          /\ loc'[c].page = loc[c].page /\ loc'[c].fresh = dead[Event(c)]
        BY <1>4, Alone DEF Go, Types, LocalsType
    <2>2. Event(c)' = Event(c)
        BY <2>1 DEF Event
    <2> QED
        BY <1>1, <1>4, <2>1, <2>2, RecordsStay DEF SoloReads, Failed, Rechecked, Records, MaxAttempts
<1> QED
    BY <1>2, <1>3, <1>4 DEF GetFresh, Recheck

\* The ack.
LEMMA SoloAck ==
    ASSUME IInv, NEW c, Instances = {c}, SoloRecords(c), SoloReads(c), Ack(c)
    PROVE  SoloRecords(c)' /\ SoloReads(c)'
<1>1. UNCHANGED Records /\ Skip(c, FALSE)
    BY DEF Ack, Records, history
<1> QED
    BY <1>1, SkipLocals, SoloMove DEF Failed, Rechecked

\* The attempt is counted: the counter c read is the one that stands, and the
\* failure that is added to it has happened.
LEMMA SoloCount ==
    ASSUME IInv, NEW c, Instances = {c}, SoloRecords(c), SoloReads(c), Count(c)
    PROVE  SoloRecords(c)' /\ SoloReads(c)'
<1>e. PICK e : e = Event(c)
    OBVIOUS
<1>1. UNCHANGED <<team, dead, failed, took, clock>> /\ pc[c] = "count" /\ e \in Events
    BY <1>e, Alone DEF Count, history, AtEvent
<1>2. CASE Skip(c, TRUE) /\ UNCHANGED <<att, waiting>>
    BY <1>1, <1>2, SkipLocals, SoloMove DEF Failed, Rechecked, Records
<1>3. CASE loc[c].att \in {NoAttempts, att[e]} /\ Attempted(c)
    <2> DEFINE a == [n |-> loc[c].att.n + 1, gen |-> loc[c].att.gen, by |-> c]
    <2>1. loc[c].att = att[e]
        BY <1>1, <1>3, <1>e DEF SoloReads, Failed
    <2>2. att[e].n + 1 <= failed[e] \/ failed[e] = MaxAttempts
        BY <1>1, <1>e, <2>1 DEF SoloReads, Failed
    <2>3. a.n = att[e].n + 1 /\ a.gen = att[e].gen /\ a.by = c
        BY <2>1
    <2>4. a # NoAttempts
        BY <2>3, Alone, Empty
    <2> HIDE DEF a
    <2>5. att'[e] = a /\ \A q \in Events \ {e} : att'[q] = att[q]
        BY <1>1, <1>3, <1>e, Alone DEF Attempted, Types, a
    <2>6. SoloRecords(c)'
        <3>1. \A q \in Events \ {e} : SoloRecords(c)!(q)'
            BY <1>1, <2>5 DEF SoloRecords, MaxAttempts
        <3>2. SoloRecords(c)!(e)'
            BY <1>1, <2>2, <2>3, <2>4, <2>5 DEF SoloRecords, MaxAttempts
        <3> QED
            BY <3>1, <3>2 DEF SoloRecords
    <2>7. CASE Skip(c, TRUE)
        BY <1>1, <2>6, <2>7, SkipReads
    <2>8. CASE Go(c, "bury") /\ UNCHANGED loc
        <3>1. pc'[c] = "bury" /\ Event(c)' = e
            BY <1>e, <2>8, Alone DEF Go, Types, Event
        <3> QED
            BY <1>1, <1>e, <2>4, <2>5, <2>6, <2>8, <3>1 DEF SoloReads, Failed, Rechecked
    <2> QED
        BY <1>3, <2>7, <2>8 DEF Attempted
<1> QED
    BY <1>2, <1>3, <1>e DEF Count

\* The quarantine: nobody else writes a first dead letter, so the record c read
\* again is the one it replaces.
LEMMA SoloBury ==
    ASSUME IInv, NEW c, Instances = {c}, SoloRecords(c), SoloReads(c), Bury(c)
    PROVE  SoloRecords(c)' /\ SoloReads(c)'
<1>e. PICK e : e = Event(c)
    OBVIOUS
<1>1. UNCHANGED <<team, att, failed, took, clock>> /\ pc[c] = "bury" /\ e \in Events
    BY <1>e, Alone DEF Bury, history, AtEvent
<1>2. CASE Skip(c, TRUE) /\ UNCHANGED dead
    BY <1>1, <1>2, SkipLocals, SoloMove DEF Failed, Rechecked, Records
<1>3. CASE /\ loc[c].fresh \in {NoDead, dead[e]} /\ Skip(c, FALSE)
           /\ dead' = [dead EXCEPT ![e] = [releases |-> loc[c].fresh.releases, releasedAt |-> 0, by |-> c]]
    <2> DEFINE d == [releases |-> loc[c].fresh.releases, releasedAt |-> 0, by |-> c]
    <2>1. loc[c].fresh = dead[e]
        BY <1>1, <1>3, <1>e DEF SoloReads, Rechecked
    <2>2. d.releases = dead[e].releases /\ d.by = c
        BY <2>1
    <2> HIDE DEF d
    <2>3. dead'[e] = d /\ \A q \in Events \ {e} : dead'[q] = dead[q]
        BY <1>1, <1>3, Alone DEF Types, d
    <2>4. att[e] # NoAttempts
        BY <1>1, <1>e DEF SoloReads
    <2>5. SoloRecords(c)'
        <3>1. \A q \in Events \ {e} : SoloRecords(c)!(q)'
            BY <1>1, <2>3 DEF SoloRecords, MaxAttempts
        <3>2. SoloRecords(c)!(e)'
            BY <1>1, <2>2, <2>3, <2>4 DEF SoloRecords, MaxAttempts
        <3> QED
            BY <3>1, <3>2 DEF SoloRecords
    <2> QED
        BY <1>1, <1>3, <2>5, SkipReads
<1> QED
    BY <1>2, <1>3, <1>e DEF Bury

\* A release begins: the counter it resets is none that c may still replace.
LEMMA SoloReset ==
    ASSUME IInv, NEW c, Instances = {c}, SoloRecords(c), SoloReads(c), NEW o \in Operators, Reset(o)
    PROVE  SoloRecords(c)' /\ SoloReads(c)'
<1>e. PICK e : e = loc[o].event
    OBVIOUS
<1> DEFINE a == [n |-> 0, gen |-> <<loc[o].dead.releases + 1, clock + 1>>, by |-> "none"]
<1>1. /\ UNCHANGED <<team, dead, took>> /\ clock' = clock + 1 /\ failed' = [failed EXCEPT ![e] = 0]
      /\ e \in Events /\ dead[e] # NoDead /\ clock \in Nat /\ o \in Procs /\ c \in Procs /\ o # c
    BY <1>e, ResetStep, Retrying, Alone DEF Reset, Types
<1>2. a.n = 0 /\ a.gen[1] = loc[o].dead.releases + 1 /\ a.gen[2] = clock + 1 /\ loc[o].dead.releases \in Nat
    BY Retrying DEF DeadRecord
<1>3. a # NoAttempts
    BY <1>2, Empty
<1>4. att' = [att EXCEPT ![e] = a]
    BY <1>e, ResetStep
<1> HIDE DEF a
<1>5. att'[e] = a /\ \A q \in Events \ {e} : att'[q] = att[q]
    BY <1>1, <1>4, Alone DEF Types
<1>6. failed'[e] = 0 /\ \A q \in Events \ {e} : failed'[q] = failed[q]
    BY <1>1, Alone DEF Types
<1>7. pc'[c] = pc[c] /\ loc'[c] = loc[c]
    BY <1>1, Alone DEF Reset, Go, Types
<1>8. Event(c)' = Event(c)
    BY <1>7 DEF Event
<1>9. SoloRecords(c)'
    <2>1. \A q \in Events \ {e} : SoloRecords(c)!(q)'
        <3> SUFFICES ASSUME NEW q \in Events \ {e} PROVE SoloRecords(c)!(q)'
            OBVIOUS
        <3>1. att[q].gen[2] \in Nat
            BY Alone, Stamped DEF Types
        <3>2. att[q].gen[2] <= clock'
            BY <1>1, <3>1 DEF SoloRecords
        <3> QED
            BY <1>1, <1>5, <1>6, <3>2 DEF SoloRecords, MaxAttempts
    <2>2. SoloRecords(c)!(e)'
        BY <1>1, <1>2, <1>3, <1>5, <1>6, Alone DEF SoloRecords, MaxAttempts
    <2> QED
        BY <2>1, <2>2 DEF SoloRecords
<1>10. SoloReads(c)'
    <2>1. loc[c].att.gen[2] \in Nat
        BY Alone, Stamped
    <2>2. loc[c].att.gen[2] <= clock'
        BY <1>1, <2>1 DEF SoloReads
    <2>3. loc[c].att # a
        BY <1>1, <1>2, <2>1 DEF SoloReads
    <2>4. att[e] # NoAttempts
        BY <1>1 DEF SoloRecords
    <2>5. pc[c] \in AtEvent => Event(c) \in Events
        BY Alone
    <2>6. CASE Event(c) = e
        BY <1>1, <1>3, <1>5, <1>6, <1>7, <1>8, <2>2, <2>3, <2>4, <2>6 DEF SoloReads, MaxAttempts
    <2>7. CASE pc[c] \in AtEvent /\ Event(c) # e
        BY <1>1, <1>5, <1>6, <1>7, <1>8, <2>2, <2>5, <2>7 DEF SoloReads, MaxAttempts
    <2>8. CASE pc[c] \notin AtEvent
        BY <1>7, <2>2, <2>8 DEF SoloReads, AtEvent, Failed, Rechecked
    <2> QED
        BY <2>6, <2>7, <2>8
<1> QED
    BY <1>9, <1>10

\* A release lands: it is counted once, on the record it was made from.
LEMMA SoloRelease ==
    ASSUME IInv, NEW c, Instances = {c}, SoloRecords(c), SoloReads(c), NEW o \in Operators, Release(o)
    PROVE  SoloRecords(c)' /\ SoloReads(c)'
<1>e. PICK e : e = loc[o].event
    OBVIOUS
<1>1. /\ UNCHANGED <<team, att, failed, clock>> /\ e \in Events
      /\ o \in Procs /\ c \in Procs /\ o # c
    BY <1>e, ReleaseStep, Retrying, Alone DEF Release
<1>2. pc'[c] = pc[c] /\ loc'[c] = loc[c]
    BY <1>1, Alone DEF Release, Released, Return, Go, Types
<1>3. CASE UNCHANGED <<dead, took>>
    BY <1>1, <1>2, <1>3, SoloSame DEF Records
<1>4. CASE /\ dead[e] # NoDead /\ took' = [took EXCEPT ![e] = @ + 1]
           /\ \E at \in Nat \ {0} : dead' = [dead EXCEPT ![e] = Revived(dead[e], at)]
    <2>1. PICK at \in Nat \ {0} : dead' = [dead EXCEPT ![e] = Revived(dead[e], at)]
        BY <1>4
    <2>2. Revived(dead[e], at).releases = dead[e].releases + 1 /\ Revived(dead[e], at).by = dead[e].by
        BY DEF Revived
    <2>3. /\ dead'[e].releases = dead[e].releases + 1 /\ dead'[e].by = dead[e].by
          /\ \A q \in Events \ {e} : dead'[q] = dead[q]
        BY <1>1, <2>1, <2>2, Alone DEF Types
    <2>4. took'[e] = took[e] + 1 /\ \A q \in Events \ {e} : took'[q] = took[q]
        BY <1>1, <1>4, Alone DEF Types
    <2>5. SoloRecords(c)'
        <3>1. \A q \in Events \ {e} : SoloRecords(c)!(q)'
            BY <1>1, <2>3, <2>4 DEF SoloRecords, MaxAttempts
        <3>2. SoloRecords(c)!(e)'
            BY <1>1, <1>4, <2>3, <2>4 DEF SoloRecords, MaxAttempts
        <3> QED
            BY <3>1, <3>2 DEF SoloRecords
    <2>6. Event(c)' = Event(c)
        BY <1>2 DEF Event
    <2>7. pc[c] \in Rechecked => (dead[Event(c)] = NoDead => dead'[Event(c)] = NoDead)
        BY <1>4, <2>3, Alone DEF AtEvent, Rechecked
    <2>8. SoloReads(c)'
        BY <1>1, <1>2, <2>6, <2>7 DEF SoloReads, MaxAttempts
    <2> QED
        BY <2>5, <2>8
<1> QED
    BY <1>3, <1>4, <1>e, ReleaseStep, SMTT(40)

\* Every step keeps it.
LEMMA SoloInductive ==
    ASSUME IInv, SoloInv, [Next]_vars
    PROVE  SoloInv'
<1>1. Instances' = Instances
    <2>1. team' = team
        BY ZenonT(60) DEF Next, Step, Poll, Retry, PollStart, Rewind, GetCursor, List, PageEnd, ClearRescan, GetAck,
               GetDead, GetAttempts, Handle, Ack, GetFresh, Recheck, Count, Bury, Reread, ReleaseAcked, Reset,
               Release, SetRescan, Crash, RetryDeadEvent, Emit, Elapse, vars
    <2> QED
        BY <2>1, SMTT(40) DEF Instances
<1> SUFFICES ASSUME NEW c, Instances = {c} PROVE SoloRecords(c)' /\ SoloReads(c)'
    BY <1>1 DEF SoloInv
<1>2. SoloRecords(c) /\ SoloReads(c)
    BY DEF SoloInv
<1>3. CASE Poll(c)
    BY <1>2, <1>3, SoloPass, SoloLook, SoloHandle, SoloAck, SoloRecheck, SoloCount, SoloBury DEF Poll
<1>4. ASSUME NEW o \in Operators, Retry(o) PROVE SoloRecords(c)' /\ SoloReads(c)'
    <2>1. CASE Reread(o) \/ ReleaseAcked(o) \/ SetRescan(o)
        <3>1. UNCHANGED Records
            BY <2>1 DEF Reread, ReleaseAcked, SetRescan, Records, store, history
        <3>2. pc'[c] = pc[c] /\ loc'[c] = loc[c]
            <4>1. o \in Procs /\ c \in Procs /\ o # c
                BY Retrying, Alone
            <4> QED
                BY <2>1, <4>1, Alone DEF Reread, ReleaseAcked, SetRescan, Return, Go, Types
        <3> QED
            BY <1>2, <3>1, <3>2, SoloSame
    <2> QED
        BY <1>2, <1>4, <2>1, SoloReset, SoloRelease DEF Retry
<1>5. ASSUME NEW o \in Operators, NEW e \in Events, RetryDeadEvent(o, e) PROVE SoloRecords(c)' /\ SoloReads(c)'
    <2>1. UNCHANGED Records
        BY <1>5 DEF RetryDeadEvent, Records, store, history
    <2>2. o \in Procs /\ c \in Procs /\ o # c
        BY Retrying, Alone
    <2>3. pc'[c] = pc[c] /\ loc'[c] = loc[c]
        BY <1>5, <2>2, Alone DEF RetryDeadEvent, Go, Types
    <2> QED
        BY <1>2, <2>1, <2>3, SoloSame
<1>6. ASSUME NEW p \in Procs, Crash(p) PROVE SoloRecords(c)' /\ SoloReads(c)'
    <2>1. UNCHANGED Records /\ Return(p)
        BY <1>6 DEF Crash, Records, store
    <2>2. CASE p = c
        BY <1>2, <2>1, <2>2, ReturnLocals, SoloMove DEF Failed, Rechecked
    <2>3. CASE p # c
        <3>1. pc'[c] = pc[c] /\ loc'[c] = loc[c]
            BY <2>1, <2>3, Alone DEF Return, Go, Types
        <3> QED
            BY <1>2, <2>1, <3>1, SoloSame
    <2> QED
        BY <2>2, <2>3
<1>7. ASSUME Emit \/ (\E e \in Events : Elapse(e)) \/ UNCHANGED vars PROVE SoloRecords(c)' /\ SoloReads(c)'
    <2>1. UNCHANGED Records /\ pc'[c] = pc[c] /\ loc'[c] = loc[c]
        BY <1>7 DEF Emit, Elapse, vars, Records, store, history
    <2> QED
        BY <1>2, <2>1, SoloSame
<1> QED
    BY <1>3, <1>4, <1>5, <1>6, <1>7 DEF Next, Step

\* The empty store satisfies it.
LEMMA SoloInit ==
    ASSUME Init
    PROVE  SoloInv
<1> SUFFICES ASSUME NEW c, Instances = {c} PROVE SoloRecords(c) /\ SoloReads(c)
    BY DEF SoloInv
<1>1. clock = 0 /\ MaxAttempts \in Nat /\ pc[c] = "idle" /\ loc[c] = NoLocals
    <2>1. c \in Procs /\ MaxAttempts \in Nat
        BY InitIInv, Alone
    <2> QED
        BY <2>1 DEF Init
<1>2. \A e \in Events : att[e] = NoAttempts /\ dead[e] = NoDead /\ failed[e] = 0 /\ took[e] = 0
    BY DEF Init
<1> QED
    BY <1>1, <1>2, Empty DEF SoloRecords, SoloReads, Failed, Rechecked

\* The invariant of the consumer that polls alone.
THEOREM SoloInvariance == Spec => []SoloInv
BY Invariance, SoloInit, SoloInductive, PTL DEF Spec

\* One instance has a name.
LEMMA Single ==
    ASSUME IInv, One
    PROVE  \E c : Instances = {c}
<1>1. IsFiniteSet(Instances)
    BY EventConsumerAssumption DEF IInv, Types, Instances
<1> QED
    BY <1>1, FS_Singleton DEF One

\* The accounts are right: records and calls have their types, and where one
\* instance polls, the attempt counter claims no failure that did not happen
\* since it was last reset ("never early"), and `releases` counts the releases
\* that took effect, for any number of operators and wherever they crash.
THEOREM AccountsRight == Spec => []Accounts
<1>1. ASSUME IInv, SoloInv PROVE Accounts
    <2>1. ASSUME One PROVE \E c : SoloRecords(c)
        <3>1. PICK c : Instances = {c}
            BY <1>1, <2>1, Single
        <3> QED
            BY <1>1, <3>1 DEF SoloInv
    <2>2. TypeOK
        BY <1>1 DEF IInv, Types
    <2>3. NeverEarly
        BY <2>1 DEF NeverEarly, SoloRecords
    <2>4. ReleasesCounted
        BY <2>1 DEF ReleasesCounted, SoloRecords
    <2> QED
        BY <2>2, <2>3, <2>4 DEF Accounts
<1> QED
    BY <1>1, Invariance, SoloInvariance, PTL

\* A release stands: where one instance polls, an event that was handed back is
\* quarantined again only by an attempt that began on that very release.
THEOREM ReleaseHolds == Spec => ReleaseStandsAlone
<1>1. ASSUME IInv, SoloInv, [Next]_vars, One, NEW e \in Events, HandedBack(dead[e]), Quarantined(dead'[e])
      PROVE  OnThisRelease(e)
    <2>1. PICK c : Instances = {c}
        BY <1>1, Single
    <2>2. dead'[e] # dead[e] /\ ~HandedBack(dead'[e])
        BY <1>1 DEF Quarantined
    <2>3. CASE Bury(c)
        <3>1. /\ pc[c] = "bury" /\ Event(c) \in Events
              /\ loc[c].fresh \in {NoDead, dead[Event(c)]}
              /\ dead' = [dead EXCEPT ![Event(c)] = [releases |-> loc[c].fresh.releases, releasedAt |-> 0, by |-> c]]
            BY <1>1, <2>1, <2>2, <2>3, Alone DEF Bury, AtEvent
        <3>2. Event(c) = e
            BY <1>1, <2>2, <3>1 DEF IInv, Types
        <3>3. dead[e] # NoDead
            BY <1>1, Empty DEF HandedBack
        <3>4. loc[c].fresh = dead[e] /\ releaseStamp(dead[e]) = releaseStamp(loc[c].dead)
            BY <1>1, <2>1, <3>1, <3>2, <3>3 DEF SoloInv, SoloReads, Rechecked
        <3>5. /\ loc[c].dead.releases = dead[e].releases /\ loc[c].dead.releasedAt = dead[e].releasedAt
            BY <3>4 DEF releaseStamp
        <3>6. loc[c].dead # NoDead
            BY <1>1, <3>5, Empty DEF HandedBack
        <3>7. loc[c].dead.by = c /\ dead[e].by = c
            BY <1>1, <2>1, <3>3, <3>6 DEF SoloInv, SoloReads, SoloRecords
        <3>8. loc[c].dead \in DeadRecord /\ dead[e] \in DeadRecord
            BY <1>1, <2>1, Alone DEF Types
        <3>9. loc[c].dead = dead[e]
            BY <3>5, <3>7, <3>8 DEF DeadRecord
        <3> QED
            BY <2>1, <3>1, <3>2, <3>9 DEF OnThisRelease
    <2>4. ASSUME NEW o \in Operators, Release(o) PROVE FALSE
        <3>1. PICK at \in Nat \ {0} : dead' = [dead EXCEPT ![loc[o].event] = Revived(dead[loc[o].event], at)]
            BY <1>1, <2>2, <2>4, ReleaseStep
        <3>2. loc[o].event = e /\ dead'[e] = Revived(dead[e], at)
            BY <1>1, <2>2, <3>1, SMTT(40) DEF IInv, Types
        <3> QED
            BY <2>2, <3>2 DEF Revived, HandedBack
    <2>5. ASSUME Poll(c), ~Bury(c) PROVE UNCHANGED dead
        BY <2>5 DEF Poll, PollStart, Rewind, GetCursor, List, PageEnd, ClearRescan, GetAck, GetDead,
                    GetAttempts, Handle, Ack, GetFresh, Recheck, Count, store
    <2>6. ASSUME NEW o \in Operators, Retry(o), ~Release(o) PROVE UNCHANGED dead
        BY <2>6 DEF Retry, Reread, ReleaseAcked, Reset, SetRescan, store
    <2>7. ASSUME NEW p \in Procs, Crash(p) PROVE UNCHANGED dead
        BY <2>7 DEF Crash, store
    <2>8. ASSUME NEW o \in Operators, NEW q \in Events, RetryDeadEvent(o, q) PROVE UNCHANGED dead
        BY <2>8 DEF RetryDeadEvent, store
    <2>9. ASSUME Emit \/ (\E q \in Events : Elapse(q)) \/ UNCHANGED vars PROVE UNCHANGED dead
        BY <2>9 DEF Emit, Elapse, vars, store
    <2> QED
        BY <1>1, <2>1, <2>2, <2>3, <2>4, <2>5, <2>6, <2>7, <2>8, <2>9 DEF Next, Step
<1>2. IInv /\ SoloInv /\ [Next]_vars =>
        [One => \A e \in Events : HandedBack(dead[e]) /\ Quarantined(dead'[e]) => OnThisRelease(e)]_vars
    BY <1>1
<1> QED
    BY <1>2, Invariance, SoloInvariance, PTL DEF Spec, ReleaseStandsAlone
=============================================================================
