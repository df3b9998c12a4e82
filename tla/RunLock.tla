------------------------------- MODULE RunLock -------------------------------
(***************************************************************************)
(* The run-level advisory lock (packages/durable/src/run-lock.ts) over a   *)
(* journal whose putIfAbsent and putIfMatch are atomic and whose clock is  *)
(* shared, as the first-party adapters provide.                            *)
(*                                                                         *)
(* A call of acquireRunLock, renew or release is a sequence of journal     *)
(* requests; every request is one step here, so steps of other processes   *)
(* fall between any two of them.  A process that crashes leaves the record *)
(* as it is.  The callers differ in one respect that matters to the lock:  *)
(* run.ts awaits the LAST renew its heartbeat started before it releases,  *)
(* queue/src/index.ts does not wait for any (AwaitsRenew).                 *)
(***************************************************************************)
EXTENDS Naturals

CONSTANTS Procs,        \* the processes that compete for one runId
          Beats,        \* how many renew calls of a process may be in flight
          TTL,          \* ttlMs
          MaxClock,     \* bound: the clock stops here
          MaxToken,     \* bound: acquisition attempts in a behaviour
          AwaitsRenew   \* the caller awaits its last renew before release()

ASSUME RunLockAssumption ==
    /\ TTL \in Nat
    /\ MaxClock \in Nat
    /\ MaxToken \in Nat
    /\ AwaitsRenew \in BOOLEAN

VARIABLES rec,      \* the journal's LockRecord under `${runId}:lock`
          now,      \* the storage clock
          lastTok,  \* the last fencing token handed out by randomUUID()
          handle,   \* the token of the RunLock a process holds, NoToken if none
          granted,  \* the expiry of the lease as the holder was last told
          acq,      \* the acquireRunLock call of a process
          ren,      \* the renew calls of a process, by beat
          inflight, \* the beat whose promise the caller's `inflight` holds
          rel       \* the release call of a process

vars == <<rec, now, lastTok, handle, granted, acq, ren, inflight, rel>>
-----------------------------------------------------------------------------
NoToken == 0

LockRecord == [expires : Nat, token : Nat]

\* journal.get returned undefined: no live record carries NoToken.
Absent == [expires |-> 0, token |-> NoToken]

AcqIdle == [pc |-> "idle", tok |-> NoToken, at |-> 0, cur |-> Absent]
RenIdle == [pc |-> "idle", tok |-> NoToken, at |-> 0, cur |-> Absent]
RelIdle == [pc |-> "idle", tok |-> NoToken, attempt |-> 0, cur |-> Absent]

Released(t) == [expires |-> 0, token |-> t]

Init ==
    /\ rec = Absent
    /\ now = 1
    /\ lastTok = NoToken
    /\ handle = [p \in Procs |-> NoToken]
    /\ granted = [p \in Procs |-> 0]
    /\ acq = [p \in Procs |-> AcqIdle]
    /\ ren = [p \in Procs |-> [b \in Beats |-> RenIdle]]
    /\ inflight \in [Procs -> Beats]
    /\ rel = [p \in Procs |-> RelIdle]
-----------------------------------------------------------------------------
(* acquireRunLock *)

\* const token = randomUUID(); const at = now ?? journal.now()
AcqSample(p) ==
    /\ handle[p] = NoToken
    /\ acq[p].pc = "idle"
    /\ rel[p].pc = "idle"
    /\ lastTok < MaxToken
    /\ lastTok' = lastTok + 1
    /\ acq' = [acq EXCEPT ![p] = [pc |-> "claim", tok |-> lastTok + 1,
                                  at |-> now, cur |-> Absent]]
    /\ UNCHANGED <<rec, now, handle, granted, ren, inflight, rel>>

\* mkLock: the caller holds a RunLock with the token of this acquisition.
Granted(p) ==
    /\ rec' = [expires |-> acq[p].at + TTL, token |-> acq[p].tok]
    /\ handle' = [handle EXCEPT ![p] = acq[p].tok]
    /\ granted' = [granted EXCEPT ![p] = acq[p].at + TTL]
    /\ acq' = [acq EXCEPT ![p] = AcqIdle]

\* acquireRunLock returns null
NotGranted(p) ==
    /\ acq' = [acq EXCEPT ![p] = AcqIdle]
    /\ UNCHANGED <<rec, handle, granted>>

\* claim(journal, key, rec): putIfAbsent
AcqClaim(p) ==
    /\ acq[p].pc = "claim"
    /\ \/ rec = Absent /\ Granted(p)
       \/ /\ rec # Absent
          /\ acq' = [acq EXCEPT ![p].pc = "get"]
          /\ UNCHANGED <<rec, handle, granted>>
    /\ UNCHANGED <<now, lastTok, ren, inflight, rel>>

\* mutant: a lease that runs out at this very millisecond counts as expired
AcqGetOffByOne(p) ==
    /\ acq[p].pc = "get"
    /\ \/ rec # Absent /\ rec.expires > acq[p].at /\ NotGranted(p)
       \/ /\ rec # Absent /\ rec.expires <= acq[p].at
          /\ acq' = [acq EXCEPT ![p].pc = "takeover", ![p].cur = rec]
          /\ UNCHANGED <<rec, handle, granted>>
    /\ UNCHANGED <<now, lastTok, ren, inflight, rel>>

\* journal.get(key) and the three-way decision on what it returned
AcqGet(p) ==
    /\ acq[p].pc = "get"
    /\ \/ rec # Absent /\ rec.expires >= acq[p].at /\ NotGranted(p)
       \/ /\ rec = Absent
          /\ acq' = [acq EXCEPT ![p].pc = "reclaim"]
          /\ UNCHANGED <<rec, handle, granted>>
       \/ /\ rec # Absent /\ rec.expires < acq[p].at
          /\ acq' = [acq EXCEPT ![p].pc = "takeover", ![p].cur = rec]
          /\ UNCHANGED <<rec, handle, granted>>
    /\ UNCHANGED <<now, lastTok, ren, inflight, rel>>

\* the record vanished after the claim was lost: claim once more
AcqReclaim(p) ==
    /\ acq[p].pc = "reclaim"
    /\ IF rec = Absent THEN Granted(p) ELSE NotGranted(p)
    /\ UNCHANGED <<now, lastTok, ren, inflight, rel>>

\* mutant: the takeover is a plain put
AcqTakeoverBlind(p) ==
    /\ acq[p].pc = "takeover"
    /\ Granted(p)
    /\ UNCHANGED <<now, lastTok, ren, inflight, rel>>

\* putIfMatch(key, cur, rec)
AcqTakeover(p) ==
    /\ acq[p].pc = "takeover"
    /\ IF rec = acq[p].cur THEN Granted(p) ELSE NotGranted(p)
    /\ UNCHANGED <<now, lastTok, ren, inflight, rel>>
-----------------------------------------------------------------------------
(* renew: called by a heartbeat timer, which is cleared before release() *)

\* The timer fires; the call's first request is journal.get(key).
RenBeat(p, b) ==
    /\ handle[p] # NoToken
    /\ rel[p].pc = "idle"
    /\ ren[p][b].pc = "idle"
    /\ ren' = [ren EXCEPT ![p][b] = [RenIdle EXCEPT !.pc = "get", !.tok = handle[p]]]
    /\ inflight' = [inflight EXCEPT ![p] = b]
    /\ UNCHANGED <<rec, now, lastTok, handle, granted, acq, rel>>

\* if (!cur || cur.token !== token) return false
RenGet(p, b) ==
    /\ ren[p][b].pc = "get"
    /\ ren' = [ren EXCEPT ![p][b] =
                 IF rec # Absent /\ rec.token = @.tok
                 THEN [@ EXCEPT !.pc = "clock", !.cur = rec]
                 ELSE RenIdle]
    /\ UNCHANGED <<rec, now, lastTok, handle, granted, acq, inflight, rel>>

\* const at = journal.now()
RenClock(p, b) ==
    /\ ren[p][b].pc = "clock"
    /\ ren' = [ren EXCEPT ![p][b].pc = "cas", ![p][b].at = now]
    /\ UNCHANGED <<rec, now, lastTok, handle, granted, acq, inflight, rel>>

\* return putIfMatch(key, cur, next)
RenCas(p, b) ==
    /\ ren[p][b].pc = "cas"
    /\ IF rec = ren[p][b].cur
       THEN /\ rec' = [expires |-> ren[p][b].at + TTL, token |-> ren[p][b].tok]
            /\ granted' = [granted EXCEPT ![p] =
                 IF handle[p] = ren[p][b].tok THEN ren[p][b].at + TTL ELSE @]
       ELSE UNCHANGED <<rec, granted>>
    /\ ren' = [ren EXCEPT ![p][b] = RenIdle]
    /\ UNCHANGED <<now, lastTok, handle, acq, inflight, rel>>

\* A journal request of the renewal rejects; the heartbeat swallows it.
RenFails(p, b) ==
    /\ ren[p][b].pc # "idle"
    /\ ren' = [ren EXCEPT ![p][b] = RenIdle]
    /\ UNCHANGED <<rec, now, lastTok, handle, granted, acq, inflight, rel>>
-----------------------------------------------------------------------------
(* release: at most three rounds of get -> token check -> CAS *)

\* mutant: release() does not wait for the renewal in flight
RelStartAtOnce(p) ==
    /\ handle[p] # NoToken
    /\ rel[p].pc = "idle"
    /\ rel' = [rel EXCEPT ![p] = [RelIdle EXCEPT !.pc = "get", !.tok = handle[p]]]
    /\ UNCHANGED <<rec, now, lastTok, handle, granted, acq, ren, inflight>>

\* clearInterval(heartbeat); await inflight (run.ts only); handle.release()
RelStart(p) ==
    /\ handle[p] # NoToken
    /\ rel[p].pc = "idle"
    /\ AwaitsRenew => ren[p][inflight[p]].pc = "idle"
    /\ rel' = [rel EXCEPT ![p] = [RelIdle EXCEPT !.pc = "get", !.tok = handle[p]]]
    /\ UNCHANGED <<rec, now, lastTok, handle, granted, acq, ren, inflight>>

\* release() returned: the caller drops the handle.
RelDone(p) ==
    /\ rel' = [rel EXCEPT ![p] = RelIdle]
    /\ handle' = [handle EXCEPT ![p] = NoToken]
    /\ granted' = [granted EXCEPT ![p] = 0]

\* if (!cur || cur.token !== token) return
RelGet(p) ==
    /\ rel[p].pc = "get"
    /\ IF rec # Absent /\ rec.token = rel[p].tok
       THEN /\ rel' = [rel EXCEPT ![p].pc = "cas", ![p].cur = rec]
            /\ UNCHANGED <<handle, granted>>
       ELSE RelDone(p)
    /\ UNCHANGED <<rec, now, lastTok, acq, ren, inflight>>

\* mutant: the plain-put release of old, a takeover in between is erased
RelCasBlind(p) ==
    /\ rel[p].pc = "cas"
    /\ rec' = Released(rel[p].tok) /\ RelDone(p)
    /\ UNCHANGED <<now, lastTok, acq, ren, inflight>>

\* if (await putIfMatch(key, cur, dead)) return, else the next attempt
RelCas(p) ==
    /\ rel[p].pc = "cas"
    /\ \/ rec = rel[p].cur /\ rec' = Released(rel[p].tok) /\ RelDone(p)
       \/ rec # rel[p].cur /\ rel[p].attempt = 2 /\ RelDone(p) /\ UNCHANGED rec
       \/ /\ rec # rel[p].cur /\ rel[p].attempt < 2
          /\ rel' = [rel EXCEPT ![p] = [pc |-> "get", tok |-> @.tok,
                                     attempt |-> @.attempt + 1, cur |-> Absent]]
          /\ UNCHANGED <<rec, handle, granted>>
    /\ UNCHANGED <<now, lastTok, acq, ren, inflight>>

\* A journal request of release() rejects: caught, the record stays until TTL.
RelFails(p) ==
    /\ rel[p].pc # "idle"
    /\ RelDone(p)
    /\ UNCHANGED <<rec, now, lastTok, acq, ren, inflight>>
-----------------------------------------------------------------------------
(* The environment *)

Tick ==
    /\ now < MaxClock
    /\ now' = now + 1
    /\ UNCHANGED <<rec, lastTok, handle, granted, acq, ren, inflight, rel>>

\* The process dies between two of its requests, or an acquisition rejects.
Crash(p) ==
    /\ \/ handle[p] # NoToken
       \/ acq[p].pc # "idle"
       \/ \E b \in Beats : ren[p][b].pc # "idle"
    /\ handle' = [handle EXCEPT ![p] = NoToken]
    /\ granted' = [granted EXCEPT ![p] = 0]
    /\ acq' = [acq EXCEPT ![p] = AcqIdle]
    /\ ren' = [ren EXCEPT ![p] = [b \in Beats |-> RenIdle]]
    /\ rel' = [rel EXCEPT ![p] = RelIdle]
    /\ UNCHANGED <<rec, now, lastTok, inflight>>

\* Retention deletes the run's keys, the lock's included, without asking the
\* lock: it withdraws whatever lease is held.
Purge ==
    /\ rec # Absent
    /\ rec' = Absent
    /\ granted' = [p \in Procs |-> 0]
    /\ UNCHANGED <<now, lastTok, handle, acq, ren, inflight, rel>>

ProcNext(p) ==
    \/ AcqSample(p) \/ AcqClaim(p) \/ AcqGet(p) \/ AcqReclaim(p) \/ AcqTakeover(p)
    \/ \E b \in Beats : \/ RenBeat(p, b) \/ RenGet(p, b) \/ RenClock(p, b)
                        \/ RenCas(p, b) \/ RenFails(p, b)
    \/ RelStart(p) \/ RelGet(p) \/ RelCas(p) \/ RelFails(p)
    \/ Crash(p)

Next == Tick \/ Purge \/ \E p \in Procs : ProcNext(p)

Spec == Init /\ [][Next]_vars
-----------------------------------------------------------------------------
(* Properties *)

AcqState == [pc : {"idle", "claim", "get", "reclaim", "takeover"}, tok : Nat,
             at : Nat, cur : LockRecord]
RenState == [pc : {"idle", "get", "clock", "cas"}, tok : Nat, at : Nat, cur : LockRecord]
RelState == [pc : {"idle", "get", "cas"}, tok : Nat, attempt : 0..2, cur : LockRecord]

\* Type invariant of run-lock.ts's record and of the calls in progress.
TypeOK ==
    /\ rec \in LockRecord
    /\ now \in Nat
    /\ lastTok \in Nat
    /\ handle \in [Procs -> Nat]
    /\ granted \in [Procs -> Nat]
    /\ acq \in [Procs -> AcqState]
    /\ ren \in [Procs -> [Beats -> RenState]]
    /\ inflight \in [Procs -> Beats]
    /\ rel \in [Procs -> RelState]

Live(p) == handle[p] # NoToken /\ granted[p] >= now

\* No split-brain (acquireRunLock, H1): two processes never both hold an
\* acquisition whose lease, as they were told by acquire or renew, still runs.
LeaseExclusive ==
    \A p, q \in Procs : Live(p) /\ Live(q) => p = q

\* A holder whose lease still runs finds its own token and expiry in the
\* journal: whatever takeovers, late renewals and stale releases did.
LiveHolderOwnsRecord ==
    \A p \in Procs : Live(p) => rec = [expires |-> granted[p], token |-> handle[p]]

\* Fencing (4.2): the record passes from one acquisition to another only when
\* the lease it carries has run out or was released (expires 0).
TakeoverOnlyOfExpired ==
    [][ rec # Absent /\ rec' # Absent /\ rec'.token # rec.token => rec.expires < now ]_vars

\* A renewal never shortens the lease of its own acquisition: only release(),
\* which writes 0, moves expires backwards.
RenewNeverShortens ==
    rec'.token = rec.token /\ rec'.expires # 0 => rec'.expires >= rec.expires

\* The renewal that release() waits for never brings the released lock back to
\* life: only a heartbeat before the last one, still in flight, can do that.
AwaitedNeverRevives ==
    rec # Absent /\ rec.expires = 0 /\ rec' # rec /\ rec'.token = rec.token =>
          \E p \in Procs, b \in Beats : ren[p][b].tok = rec.token /\ ren[p][b] # ren'[p][b] /\ b # inflight[p]

\* The record and the holder agree: everything has its type, and a holder whose
\* lease runs owns the record (LiveHolderOwnsRecord).
HolderInv == TypeOK /\ LiveHolderOwnsRecord

\* What a heartbeat that comes late may do: it never shortens the lease, and the
\* one that release() waits for does not revive the lock.
LateRenewals == [][RenewNeverShortens /\ AwaitedNeverRevives]_vars
-----------------------------------------------------------------------------
(* Said in the code's comments and not true of it (README, Disagreements)  *)

\* run-lock.ts:25-27: "a lost/released lock is NEVER renewed".
ReleasedNeverRenewed ==
    [][ rec # Absent /\ rec.expires = 0 => rec' = rec \/ rec'.token # rec.token ]_vars
=============================================================================
