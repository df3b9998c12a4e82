-------------------------- MODULE StandaloneProofs --------------------------
(***************************************************************************)
(* TLAPS proofs about four components that call no other one: RunLock, for *)
(* any set of processes, any number of renewals in flight, any TTL and any *)
(* bounds; DupMarker, for any calls and any TTL; PollLoop, for any timer   *)
(* handles and any intervals; Network, for any hosts and agents and any    *)
(* number of iterations and calls.  The four share neither constants nor   *)
(* variables.                                                              *)
(***************************************************************************)
EXTENDS RunLock, DupMarker, PollLoop, Network, TLAPS

-----------------------------------------------------------------------------
(* RunLock: the inductive invariant *)

\* Tokens are drawn from a counter: none is ahead of it, and a token that is
\* still being claimed is in nobody else's hands.
TokensFresh ==
    /\ rec.token <= lastTok
    /\ \A p \in Procs :
         /\ handle[p] <= lastTok
         /\ acq[p].tok <= lastTok
         /\ rel[p].tok <= lastTok
         /\ \A b \in Beats : ren[p][b].tok <= lastTok
         /\ acq[p].pc # "idle" =>
              /\ acq[p].tok # NoToken
              /\ rec.token # acq[p].tok
              /\ \A q \in Procs :
                   /\ handle[q] # acq[p].tok
                   /\ rel[q].tok # acq[p].tok
                   /\ \A b \in Beats : ren[q][b].tok # acq[p].tok
                   /\ acq[q].tok = acq[p].tok => q = p

\* A token belongs to the process that acquired with it.
TokensOwned ==
    \A p, q \in Procs :
      /\ handle[p] # NoToken /\ handle[q] = handle[p] => q = p
      /\ \A b \in Beats : ren[p][b].pc # "idle" /\ handle[q] = ren[p][b].tok => q = p

\* What the calls in progress know: a takeover read an expired record, a
\* renewal and a release read one that carries their own token.
CallsInformed ==
    \A p \in Procs :
      /\ acq[p].at <= now
      /\ acq[p].pc = "takeover" => acq[p].cur.expires < acq[p].at
      /\ acq[p].pc # "idle" => handle[p] = NoToken /\ rel[p].pc = "idle"
      /\ rel[p].pc # "idle" => rel[p].tok = handle[p] /\ handle[p] # NoToken
      /\ rel[p].pc = "cas" => rel[p].cur.token = rel[p].tok
      /\ \A b \in Beats :
           /\ ren[p][b].pc # "idle" => ren[p][b].tok # NoToken
           /\ ren[p][b].pc \in {"clock", "cas"} => ren[p][b].cur.token = ren[p][b].tok

ClockStarted == now > 0

IInv == TypeOK /\ ClockStarted /\ TokensFresh /\ TokensOwned /\ CallsInformed /\ LiveHolderOwnsRecord
-----------------------------------------------------------------------------
(* Type correctness *)

\* The representations of idle calls and of the absent record are well typed.
LEMMA IdleTypes ==
    /\ Absent \in LockRecord
    /\ AcqIdle \in AcqState
    /\ RenIdle \in RenState
    /\ RelIdle \in RelState
  BY DEF Absent, AcqIdle, RenIdle, RelIdle, LockRecord, AcqState, RenState, RelState, NoToken

\* What mkLock hands to the caller and leaves in the journal is well typed.
LEMMA GrantedTypes ==
  ASSUME TypeOK, NEW p \in Procs, Granted(p)
  PROVE  /\ rec' \in LockRecord
         /\ handle' \in [Procs -> Nat]
         /\ granted' \in [Procs -> Nat]
         /\ acq' \in [Procs -> AcqState]
<1>1. acq[p].tok \in Nat /\ acq[p].at + TTL \in Nat
  BY RunLockAssumption DEF TypeOK, AcqState
<1>2. QED
  BY <1>1, IdleTypes DEF TypeOK, Granted, LockRecord

\* Every step of run-lock.ts's calls and of the environment keeps the types.
LEMMA TypeStep ==
    TypeOK /\ [Next]_vars => TypeOK'
<1> SUFFICES ASSUME TypeOK, [Next]_vars PROVE TypeOK'
  OBVIOUS
<1> USE RunLockAssumption, IdleTypes DEF TypeOK, NoToken
<1>1. ASSUME NEW p \in Procs, AcqSample(p) PROVE TypeOK'
  BY <1>1 DEF AcqSample, AcqState, LockRecord, Absent
<1>2. ASSUME NEW p \in Procs, AcqClaim(p) PROVE TypeOK'
  <2>1. [acq[p] EXCEPT !.pc = "get"] \in AcqState
    BY DEF AcqState
  <2>2. CASE Granted(p)
    BY <1>2, <2>2, GrantedTypes DEF AcqClaim
  <2>3. CASE acq' = [acq EXCEPT ![p].pc = "get"] /\ UNCHANGED <<rec, handle, granted>>
    BY <1>2, <2>1, <2>3 DEF AcqClaim
  <2>4. QED
    BY <1>2, <2>2, <2>3 DEF AcqClaim
<1>3. ASSUME NEW p \in Procs, AcqGet(p) PROVE TypeOK'
  <2>1. /\ acq[p] \in AcqState
        /\ [acq[p] EXCEPT !.pc = "reclaim"] \in AcqState
        /\ [acq[p] EXCEPT !.pc = "takeover", !.cur = rec] \in AcqState
    BY DEF AcqState
  <2>2. acq' \in [Procs -> AcqState]
    BY <1>3, <2>1 DEF AcqGet, NotGranted
  <2>3. QED
    BY <1>3, <2>2 DEF AcqGet, NotGranted
<1>4. ASSUME NEW p \in Procs, AcqReclaim(p) PROVE TypeOK'
  BY <1>4, GrantedTypes DEF AcqReclaim, NotGranted
<1>5. ASSUME NEW p \in Procs, AcqTakeover(p) PROVE TypeOK'
  BY <1>5, GrantedTypes DEF AcqTakeover, NotGranted
<1>6. ASSUME NEW p \in Procs, NEW b \in Beats, RenBeat(p, b) PROVE TypeOK'
  BY <1>6 DEF RenBeat, RenState, LockRecord, RenIdle, Absent
<1>7. ASSUME NEW p \in Procs, NEW b \in Beats, RenGet(p, b) PROVE TypeOK'
  <2>1. ren[p][b] \in RenState
    OBVIOUS
  <2>2. [ren[p][b] EXCEPT !.pc = "clock", !.cur = rec] \in RenState
    BY <2>1 DEF RenState
  <2>3. ren' \in [Procs -> [Beats -> RenState]]
    BY <1>7, <2>2 DEF RenGet
  <2>4. QED
    BY <1>7, <2>3 DEF RenGet
<1>8. ASSUME NEW p \in Procs, NEW b \in Beats, RenClock(p, b) PROVE TypeOK'
  <2>1. ren[p][b] \in RenState
    OBVIOUS
  <2>2. [ren[p][b] EXCEPT !.pc = "cas", !.at = now] \in RenState
    BY <2>1 DEF RenState
  <2>3. ren' \in [Procs -> [Beats -> RenState]]
    BY <1>8, <2>2 DEF RenClock
  <2>4. QED
    BY <1>8, <2>3 DEF RenClock
<1>9. ASSUME NEW p \in Procs, NEW b \in Beats, RenCas(p, b) PROVE TypeOK'
  BY <1>9 DEF RenCas, RenState, LockRecord
<1>10. ASSUME NEW p \in Procs, NEW b \in Beats, RenFails(p, b) PROVE TypeOK'
  BY <1>10 DEF RenFails, RenState, LockRecord
<1>11. ASSUME NEW p \in Procs, RelStart(p) PROVE TypeOK'
  BY <1>11 DEF RelStart, RelState, LockRecord, RelIdle, Absent
<1>12. ASSUME NEW p \in Procs, RelGet(p) PROVE TypeOK'
  <2>1. rel[p] \in RelState
    OBVIOUS
  <2>2. [rel[p] EXCEPT !.pc = "cas", !.cur = rec] \in RelState
    BY <2>1 DEF RelState
  <2>3. CASE RelDone(p)
    BY <1>12, <2>3 DEF RelGet, RelDone
  <2>4. CASE /\ rel' = [rel EXCEPT ![p].pc = "cas", ![p].cur = rec]
             /\ UNCHANGED <<handle, granted>>
    BY <1>12, <2>2, <2>4 DEF RelGet
  <2>5. QED
    BY <1>12, <2>3, <2>4 DEF RelGet
<1>13. ASSUME NEW p \in Procs, RelCas(p) PROVE TypeOK'
  <2>1. Released(rel[p].tok) \in LockRecord
    BY DEF Released, LockRecord, RelState
  <2>2. rel[p].attempt < 2 =>
          [pc |-> "get", tok |-> rel[p].tok, attempt |-> rel[p].attempt + 1,
           cur |-> Absent] \in RelState
    BY DEF RelState
  <2>3. CASE RelDone(p)
    BY <1>13, <2>1, <2>3 DEF RelCas, RelDone
  <2>4. CASE ~RelDone(p)
    BY <1>13, <2>2, <2>4 DEF RelCas
  <2>5. QED
    BY <2>3, <2>4
<1>14. ASSUME NEW p \in Procs, RelFails(p) PROVE TypeOK'
  BY <1>14 DEF RelFails, RelDone, RelState, LockRecord
<1>15. ASSUME NEW p \in Procs, Crash(p) PROVE TypeOK'
  BY <1>15 DEF Crash, LockRecord
<1>16. CASE Tick
  BY <1>16 DEF Tick
<1>17. CASE Purge
  BY <1>17 DEF Purge
<1>18. CASE UNCHANGED vars
  BY <1>18 DEF vars
<1>19. QED
  BY <1>1, <1>2, <1>3, <1>4, <1>5, <1>6, <1>7, <1>8, <1>9, <1>10, <1>11, <1>12, <1>13, <1>14, <1>15, <1>16, <1>17, <1>18 DEF Next, ProcNext

\* The lock record, the handles and the calls in progress keep their types in
\* every behaviour, for any TTL and any number of processes and renewals.
THEOREM TypeCorrect == Spec => []TypeOK
<1>1. Init => TypeOK
  BY RunLockAssumption, IdleTypes DEF Init, TypeOK, NoToken
<1>2. QED
  BY <1>1, TypeStep, PTL DEF Spec
-----------------------------------------------------------------------------
(* Safety *)

\* The clock only moves forward, so it never returns to the 0 that release()
\* writes as the expiry of a dead record.
LEMMA ClockStep ==
    TypeOK /\ ClockStarted /\ [Next]_vars => ClockStarted'
<1>1. TypeOK /\ Tick => now' = now + 1 /\ now \in Nat
  BY DEF Tick, TypeOK
<1>2. ASSUME NEW p \in Procs, ProcNext(p) PROVE now' = now
  BY <1>2
  DEF ProcNext, Crash, AcqSample, AcqClaim, AcqGet, AcqReclaim, AcqTakeover, RenBeat,
      RenGet, RenClock, RenCas, RenFails, RelStart, RelGet, RelCas, RelFails
<1>3. Purge \/ UNCHANGED vars => now' = now
  BY DEF Purge, vars
<1>4. QED
  BY <1>1, <1>2, <1>3 DEF Next, ClockStarted

\* A successful claim or takeover keeps the invariant, provided no lease runs
\* at that moment: the new token is in nobody else's hands.
LEMMA GrantedStep ==
  ASSUME IInv, TypeOK', ClockStarted', NEW p \in Procs, acq[p].pc # "idle", Granted(p),
         \A q \in Procs : ~Live(q),
         UNCHANGED <<now, lastTok, ren, inflight, rel>>
  PROVE  IInv'
<1> USE RunLockAssumption DEF IInv, NoToken
<1>1. /\ rec'.token = acq[p].tok /\ rec'.expires = acq[p].at + TTL
      /\ handle' = [handle EXCEPT ![p] = acq[p].tok]
      /\ granted' = [granted EXCEPT ![p] = acq[p].at + TTL]
      /\ acq' = [acq EXCEPT ![p] = AcqIdle]
  BY DEF Granted
<1>2. TokensFresh'
  BY <1>1 DEF TokensFresh, CallsInformed, TypeOK, AcqIdle
<1>3. TokensOwned'
  BY <1>1 DEF TokensOwned, TokensFresh, TypeOK
<1>4. CallsInformed'
  BY <1>1 DEF CallsInformed, TypeOK, AcqIdle
<1>5. LiveHolderOwnsRecord'
  <2> SUFFICES ASSUME NEW q \in Procs, Live(q)'
               PROVE  rec' = [expires |-> granted'[q], token |-> handle'[q]]
    BY DEF LiveHolderOwnsRecord
  <2>1. q = p
    BY <1>1 DEF Live, TypeOK
  <2>2. QED
    BY <2>1 DEF Granted, TypeOK
<1>6. QED
  BY <1>2, <1>3, <1>4, <1>5

\* An acquisition that returns null changes only its own call.
LEMMA NotGrantedStep ==
  ASSUME IInv, TypeOK', ClockStarted', NEW p \in Procs, NotGranted(p),
         UNCHANGED <<now, lastTok, ren, inflight, rel>>
  PROVE  IInv'
<1> USE DEF IInv, NoToken, NotGranted, TypeOK
<1>1. TokensFresh'
  BY DEF TokensFresh, AcqIdle
<1>2. TokensOwned' /\ LiveHolderOwnsRecord'
  BY DEF TokensOwned, LiveHolderOwnsRecord, Live
<1>3. CallsInformed'
  BY DEF CallsInformed, AcqIdle
<1>4. QED
  BY <1>1, <1>2, <1>3

\* release() returning: the record is untouched or the process's own dead one.
LEMMA RelDoneStep ==
  ASSUME IInv, TypeOK', ClockStarted', NEW p \in Procs, rel[p].pc # "idle", RelDone(p),
         \/ rec' = rec
         \/ rec.token = rel[p].tok /\ rec' = Released(rel[p].tok),
         UNCHANGED <<now, lastTok, acq, ren, inflight>>
  PROVE  IInv'
<1> USE DEF IInv, NoToken, RelDone, TypeOK
<1>1. rec'.token = rec.token
  <2>1. CASE rec' = rec
    BY <2>1
  <2>2. CASE rec.token = rel[p].tok /\ rec' = Released(rel[p].tok)
    BY <2>2 DEF Released
  <2>3. QED
    BY <2>1, <2>2
<1>2. TokensFresh'
  BY <1>1 DEF TokensFresh, RelIdle
<1>3. TokensOwned'
  BY DEF TokensOwned, CallsInformed
<1>4. CallsInformed'
  BY DEF CallsInformed, RelIdle
<1>5. LiveHolderOwnsRecord'
  BY DEF LiveHolderOwnsRecord, Live, TokensOwned, CallsInformed
<1>6. QED
  BY <1>2, <1>3, <1>4, <1>5

\* Every step keeps the invariant.
LEMMA Step ==
    IInv /\ [Next]_vars => IInv'
<1> SUFFICES ASSUME IInv, [Next]_vars PROVE IInv'
  OBVIOUS
<1>0. TypeOK' /\ ClockStarted'
  BY TypeStep, ClockStep DEF IInv
<1> USE <1>0, RunLockAssumption DEF IInv, TypeOK, LockRecord, AcqState, RenState, RelState,
    NoToken, Absent
<1>1. ASSUME NEW p \in Procs, AcqSample(p) PROVE IInv'
  <2>1. /\ acq'[p].pc = "claim" /\ acq'[p].tok = lastTok + 1 /\ acq'[p].at = now
        /\ \A q \in Procs \ {p} : acq'[q] = acq[q]
        /\ lastTok' = lastTok + 1
    BY <1>1 DEF AcqSample
  <2>2. TokensFresh'
    BY <1>1, <2>1 DEF AcqSample, TokensFresh
  <2>3. TokensOwned' /\ LiveHolderOwnsRecord'
    BY <1>1 DEF AcqSample, TokensOwned, LiveHolderOwnsRecord, Live
  <2>4. CallsInformed'
    BY <1>1, <2>1 DEF AcqSample, CallsInformed
  <2>5. QED
    BY <2>2, <2>3, <2>4
<1>2. ASSUME NEW p \in Procs, AcqClaim(p) PROVE IInv'
  <2>1. CASE rec = Absent /\ Granted(p)
    <3>1. \A q \in Procs : ~Live(q)
      BY <2>1 DEF LiveHolderOwnsRecord, Live
    <3>2. QED
      BY <1>2, <2>1, <3>1, GrantedStep DEF AcqClaim
  <2>2. CASE /\ acq' = [acq EXCEPT ![p].pc = "get"]
             /\ UNCHANGED <<rec, handle, granted>>
    <3>1. acq'[p].pc = "get" /\ acq'[p].tok = acq[p].tok /\ acq'[p].at = acq[p].at
          /\ \A q \in Procs \ {p} : acq'[q] = acq[q]
      BY <2>2
    <3>2. TokensFresh'
      BY <1>2, <2>2, <3>1 DEF AcqClaim, TokensFresh
    <3>3. TokensOwned' /\ LiveHolderOwnsRecord'
      BY <1>2, <2>2 DEF AcqClaim, TokensOwned, LiveHolderOwnsRecord, Live
    <3>4. CallsInformed'
      BY <1>2, <2>2, <3>1 DEF AcqClaim, CallsInformed
    <3>5. QED
      BY <3>2, <3>3, <3>4
  <2>3. QED
    BY <1>2, <2>1, <2>2 DEF AcqClaim
<1>3. ASSUME NEW p \in Procs, AcqGet(p) PROVE IInv'
  <2>1. CASE NotGranted(p)
    BY <1>3, <2>1, NotGrantedStep DEF AcqGet
  <2>2. CASE ~NotGranted(p)
    <3>1. /\ acq'[p].pc \in {"reclaim", "takeover"}
          /\ acq'[p].tok = acq[p].tok /\ acq'[p].at = acq[p].at
          /\ acq'[p].pc = "takeover" => acq'[p].cur.expires < acq'[p].at
          /\ \A q \in Procs \ {p} : acq'[q] = acq[q]
          /\ acq[p].pc = "get"
          /\ UNCHANGED <<rec, handle, granted, now, lastTok, ren, inflight, rel>>
      BY <1>3, <2>2 DEF AcqGet
    <3>2. \A q \in Procs :
            /\ acq'[q].tok = acq[q].tok /\ acq'[q].at = acq[q].at
            /\ acq'[q].pc # "idle" => acq[q].pc # "idle"
            /\ acq'[q].pc = "takeover" => acq'[q].cur.expires < acq'[q].at
      <4> SUFFICES ASSUME NEW q \in Procs
                   PROVE  /\ acq'[q].tok = acq[q].tok /\ acq'[q].at = acq[q].at
                          /\ acq'[q].pc # "idle" => acq[q].pc # "idle"
                          /\ acq'[q].pc = "takeover" => acq'[q].cur.expires < acq'[q].at
        OBVIOUS
      <4>1. CASE q = p
        BY <3>1, <4>1
      <4>2. CASE q # p
        BY <3>1, <4>2 DEF CallsInformed
      <4>3. QED
        BY <4>1, <4>2
    <3>3. TokensFresh'
      BY <3>1, <3>2 DEF TokensFresh
    <3>4. TokensOwned' /\ LiveHolderOwnsRecord'
      BY <3>1 DEF TokensOwned, LiveHolderOwnsRecord, Live
    <3>5. CallsInformed'
      BY <3>1, <3>2 DEF CallsInformed
    <3>6. QED
      BY <3>3, <3>4, <3>5
  <2>3. QED
    BY <2>1, <2>2
<1>4. ASSUME NEW p \in Procs, AcqReclaim(p) PROVE IInv'
  <2>1. CASE rec = Absent
    <3>1. \A q \in Procs : ~Live(q)
      BY <2>1 DEF LiveHolderOwnsRecord, Live
    <3>2. QED
      BY <1>4, <2>1, <3>1, GrantedStep DEF AcqReclaim
  <2>2. CASE rec # Absent
    BY <1>4, <2>2, NotGrantedStep DEF AcqReclaim
  <2>3. QED
    BY <2>1, <2>2
<1>5. ASSUME NEW p \in Procs, AcqTakeover(p) PROVE IInv'
  <2>1. CASE rec = acq[p].cur
    <3>1. rec.expires < now
      BY <1>5, <2>1 DEF AcqTakeover, CallsInformed
    <3>2. \A q \in Procs : ~Live(q)
      BY <3>1 DEF LiveHolderOwnsRecord, Live
    <3>3. QED
      BY <1>5, <2>1, <3>2, GrantedStep DEF AcqTakeover
  <2>2. CASE rec # acq[p].cur
    BY <1>5, <2>2, NotGrantedStep DEF AcqTakeover
  <2>3. QED
    BY <2>1, <2>2
<1>6. ASSUME NEW p \in Procs, NEW b \in Beats, RenBeat(p, b) PROVE IInv'
  <2>1. TokensFresh'
    BY <1>6 DEF RenBeat, RenIdle, TokensFresh, CallsInformed
  <2>2. TokensOwned'
    BY <1>6 DEF RenBeat, RenIdle, TokensOwned, TokensFresh, CallsInformed
  <2>3. CallsInformed'
    BY <1>6 DEF RenBeat, RenIdle, CallsInformed, TokensFresh
  <2>4. LiveHolderOwnsRecord'
    BY <1>6 DEF RenBeat, RenIdle, LiveHolderOwnsRecord, TokensFresh, TokensOwned, CallsInformed, Live
  <2>5. QED
    BY <2>1, <2>2, <2>3, <2>4
<1>7. ASSUME NEW p \in Procs, NEW b \in Beats, RenGet(p, b) PROVE IInv'
  <2>1. TokensFresh'
    BY <1>7 DEF RenGet, RenIdle, TokensFresh, CallsInformed
  <2>2. TokensOwned'
    BY <1>7 DEF RenGet, RenIdle, TokensOwned, TokensFresh, CallsInformed
  <2>3. CallsInformed'
    BY <1>7 DEF RenGet, RenIdle, CallsInformed, TokensFresh
  <2>4. LiveHolderOwnsRecord'
    BY <1>7 DEF RenGet, RenIdle, LiveHolderOwnsRecord, TokensFresh, TokensOwned, CallsInformed, Live
  <2>5. QED
    BY <2>1, <2>2, <2>3, <2>4
<1>8. ASSUME NEW p \in Procs, NEW b \in Beats, RenClock(p, b) PROVE IInv'
  <2>1. TokensFresh'
    BY <1>8 DEF RenClock, TokensFresh, CallsInformed
  <2>2. TokensOwned'
    BY <1>8 DEF RenClock, TokensOwned, TokensFresh, CallsInformed
  <2>3. CallsInformed'
    BY <1>8 DEF RenClock, CallsInformed, TokensFresh
  <2>4. LiveHolderOwnsRecord'
    BY <1>8 DEF RenClock, LiveHolderOwnsRecord, TokensFresh, TokensOwned, CallsInformed, Live
  <2>5. QED
    BY <2>1, <2>2, <2>3, <2>4
<1>9. ASSUME NEW p \in Procs, NEW b \in Beats, RenCas(p, b) PROVE IInv'
  <2>1. TokensFresh'
    BY <1>9 DEF RenCas, RenIdle, TokensFresh, CallsInformed
  <2>2. TokensOwned'
    BY <1>9 DEF RenCas, RenIdle, TokensOwned, TokensFresh, CallsInformed
  <2>3. CallsInformed'
    BY <1>9 DEF RenCas, RenIdle, CallsInformed, TokensFresh
  <2>4. LiveHolderOwnsRecord'
    <3>1. CASE rec = ren[p][b].cur
      <4> SUFFICES ASSUME NEW q \in Procs, Live(q)'
                   PROVE  rec' = [expires |-> granted'[q], token |-> handle'[q]]
        BY DEF LiveHolderOwnsRecord
      <4>1. rec.token = ren[p][b].tok
        BY <1>9, <3>1 DEF RenCas, CallsInformed
      <4>2. Live(q) => handle[q] = ren[p][b].tok /\ q = p
        <5>1. Live(q) => rec.token = handle[q]
          BY DEF LiveHolderOwnsRecord
        <5>2. QED
          BY <1>9, <4>1, <5>1 DEF RenCas, TokensOwned
      <4>3. handle[p] # ren[p][b].tok \/ q # p => Live(q)
        BY <1>9, <3>1 DEF RenCas, Live
      <4>4. q = p /\ handle[p] = ren[p][b].tok
        BY <4>2, <4>3
      <4>5. QED
        BY <1>9, <3>1, <4>4 DEF RenCas
    <3>2. CASE rec # ren[p][b].cur
      BY <1>9, <3>2 DEF RenCas, LiveHolderOwnsRecord, Live
    <3>3. QED
      BY <3>1, <3>2
  <2>5. QED
    BY <2>1, <2>2, <2>3, <2>4
<1>10. ASSUME NEW p \in Procs, NEW b \in Beats, RenFails(p, b) PROVE IInv'
  <2>1. TokensFresh'
    BY <1>10 DEF RenFails, RenIdle, TokensFresh, CallsInformed
  <2>2. TokensOwned'
    BY <1>10 DEF RenFails, RenIdle, TokensOwned, TokensFresh, CallsInformed
  <2>3. CallsInformed'
    BY <1>10 DEF RenFails, RenIdle, CallsInformed, TokensFresh
  <2>4. LiveHolderOwnsRecord'
    BY <1>10 DEF RenFails, RenIdle, LiveHolderOwnsRecord, TokensFresh, TokensOwned, CallsInformed, Live
  <2>5. QED
    BY <2>1, <2>2, <2>3, <2>4
<1>11. ASSUME NEW p \in Procs, RelStart(p) PROVE IInv'
  <2>1. TokensFresh'
    BY <1>11 DEF RelStart, RelIdle, TokensFresh, CallsInformed
  <2>2. TokensOwned'
    BY <1>11 DEF RelStart, RelIdle, TokensOwned, TokensFresh, CallsInformed
  <2>3. CallsInformed'
    BY <1>11 DEF RelStart, RelIdle, CallsInformed, TokensFresh
  <2>4. LiveHolderOwnsRecord'
    BY <1>11 DEF RelStart, RelIdle, LiveHolderOwnsRecord, TokensFresh, TokensOwned, CallsInformed, Live
  <2>5. QED
    BY <2>1, <2>2, <2>3, <2>4
<1>12. ASSUME NEW p \in Procs, RelGet(p) PROVE IInv'
  <2>1. CASE RelDone(p)
    BY <1>12, <2>1, RelDoneStep DEF RelGet
  <2>2. CASE ~RelDone(p)
    <3>1. /\ rel'[p].pc = "cas" /\ rel'[p].tok = rel[p].tok
          /\ rel'[p].cur.token = rel[p].tok
          /\ \A q \in Procs \ {p} : rel'[q] = rel[q]
          /\ rel[p].pc # "idle"
          /\ UNCHANGED <<rec, handle, granted, now, lastTok, acq, ren, inflight>>
      BY <1>12, <2>2 DEF RelGet
    <3>2. \A q \in Procs :
            /\ rel'[q].tok = rel[q].tok
            /\ rel'[q].pc = "idle" <=> rel[q].pc = "idle"
            /\ rel'[q].pc = "cas" => rel'[q].cur.token = rel'[q].tok
      BY <3>1 DEF CallsInformed
    <3>3. TokensFresh'
      BY <3>1, <3>2 DEF TokensFresh
    <3>4. TokensOwned' /\ LiveHolderOwnsRecord'
      BY <3>1 DEF TokensOwned, LiveHolderOwnsRecord, Live
    <3>5. CallsInformed'
      BY <3>1, <3>2 DEF CallsInformed
    <3>6. QED
      BY <3>3, <3>4, <3>5
  <2>3. QED
    BY <2>1, <2>2
<1>13. ASSUME NEW p \in Procs, RelCas(p) PROVE IInv'
  <2>1. CASE RelDone(p)
    <3>1. rec' = rec \/ (rec.token = rel[p].tok /\ rec' = Released(rel[p].tok))
      BY <1>13 DEF RelCas, CallsInformed
    <3>2. QED
      BY <1>13, <2>1, <3>1, RelDoneStep DEF RelCas
  <2>2. CASE ~RelDone(p)
    <3>1. /\ rel'[p].pc = "get" /\ rel'[p].tok = rel[p].tok
          /\ \A q \in Procs \ {p} : rel'[q] = rel[q]
          /\ rel[p].pc # "idle"
          /\ UNCHANGED <<rec, handle, granted, now, lastTok, acq, ren, inflight>>
      BY <1>13, <2>2 DEF RelCas
    <3>2. \A q \in Procs :
            /\ rel'[q].tok = rel[q].tok
            /\ rel'[q].pc = "idle" <=> rel[q].pc = "idle"
            /\ rel'[q].pc = "cas" => rel'[q].cur.token = rel'[q].tok
      BY <3>1 DEF CallsInformed
    <3>3. TokensFresh'
      BY <3>1, <3>2 DEF TokensFresh
    <3>4. TokensOwned' /\ LiveHolderOwnsRecord'
      BY <3>1 DEF TokensOwned, LiveHolderOwnsRecord, Live
    <3>5. CallsInformed'
      BY <3>1, <3>2 DEF CallsInformed
    <3>6. QED
      BY <3>3, <3>4, <3>5
  <2>3. QED
    BY <2>1, <2>2
<1>14. ASSUME NEW p \in Procs, RelFails(p) PROVE IInv'
  BY <1>14, RelDoneStep DEF RelFails
<1>15. ASSUME NEW p \in Procs, Crash(p) PROVE IInv'
  <2>1. TokensFresh'
    BY <1>15 DEF Crash, AcqIdle, RenIdle, RelIdle, TokensFresh, CallsInformed
  <2>2. TokensOwned'
    BY <1>15 DEF Crash, AcqIdle, RenIdle, RelIdle, TokensOwned, TokensFresh, CallsInformed
  <2>3. CallsInformed'
    BY <1>15 DEF Crash, AcqIdle, RenIdle, RelIdle, CallsInformed, TokensFresh
  <2>4. LiveHolderOwnsRecord'
    BY <1>15 DEF Crash, AcqIdle, RenIdle, RelIdle, LiveHolderOwnsRecord, TokensFresh, TokensOwned, CallsInformed, Live
  <2>5. QED
    BY <2>1, <2>2, <2>3, <2>4
<1>16. CASE Tick
  <2>1. TokensFresh' /\ TokensOwned'
    BY <1>16 DEF Tick, TokensFresh, TokensOwned
  <2>2. CallsInformed'
    BY <1>16 DEF Tick, CallsInformed
  <2>3. LiveHolderOwnsRecord'
    BY <1>16 DEF Tick, LiveHolderOwnsRecord, Live
  <2>4. QED
    BY <2>1, <2>2, <2>3
<1>17. CASE Purge
  <2>1. TokensFresh' /\ TokensOwned'
    BY <1>17 DEF Purge, TokensFresh, TokensOwned
  <2>2. CallsInformed'
    BY <1>17 DEF Purge, CallsInformed
  <2>3. LiveHolderOwnsRecord'
    BY <1>17 DEF Purge, LiveHolderOwnsRecord, Live, ClockStarted
  <2>4. QED
    BY <2>1, <2>2, <2>3
<1>18. CASE UNCHANGED vars
  BY <1>18 DEF vars, TokensFresh, TokensOwned, CallsInformed, LiveHolderOwnsRecord, Live
<1>19. QED
  BY <1>1, <1>2, <1>3, <1>4, <1>5, <1>6, <1>7, <1>8, <1>9, <1>10, <1>11, <1>12, <1>13, <1>14, <1>15, <1>16, <1>17, <1>18 DEF Next, ProcNext

\* The initial state satisfies the invariant.
LEMMA Start == Init => IInv
  BY RunLockAssumption, IdleTypes
  DEF Init, IInv, TypeOK, ClockStarted, TokensFresh, TokensOwned, CallsInformed,
      LiveHolderOwnsRecord, Live, NoToken, Absent, AcqIdle, RenIdle, RelIdle, LockRecord

\* The invariant holds in every reachable state.
LEMMA Invariance == Spec => []IInv
  BY Start, Step, PTL DEF Spec

\* A holder whose lease still runs finds its own token and expiry in the
\* journal, whatever takeovers, late renewals and stale releases did.
THEOREM HolderOwnsRecord == Spec => []HolderInv
<1>1. IInv => HolderInv
  BY DEF IInv, HolderInv
<1>2. QED
  BY <1>1, Invariance, PTL

\* No split-brain: two processes never both hold a lease that still runs.
THEOREM Exclusion == Spec => []LeaseExclusive
<1>1. IInv => LeaseExclusive
  BY DEF IInv, LeaseExclusive, LiveHolderOwnsRecord, Live, TokensOwned
<1>2. QED
  BY <1>1, Invariance, PTL

\* Fencing: the record passes from one acquisition to another only when the
\* lease it carries has run out or was released.
THEOREM Fencing == Spec => TakeoverOnlyOfExpired
<1> DEFINE Fenced == rec # Absent /\ rec' # Absent /\ rec'.token # rec.token
                       => rec.expires < now
<1>1. IInv /\ [Next]_vars => [Fenced]_vars
  <2> SUFFICES ASSUME IInv, Next, rec # Absent, rec' # Absent, rec'.token # rec.token
               PROVE  rec.expires < now
    BY DEF vars
  <2> USE DEF IInv, TypeOK
  <2>1. CASE Tick \/ Purge
    BY <2>1 DEF Tick, Purge
  <2>2. ASSUME NEW p \in Procs, ProcNext(p) PROVE rec.expires < now
    <3>1. CASE AcqTakeover(p)
      BY <3>1 DEF AcqTakeover, NotGranted, CallsInformed, AcqState, LockRecord
    <3>2. ASSUME NEW b \in Beats, RenCas(p, b) PROVE FALSE
      BY <3>2 DEF RenCas, CallsInformed
    <3>3. CASE RelCas(p)
      BY <3>3 DEF RelCas, CallsInformed, Released
    <3>4. QED
      BY <2>2, <3>1, <3>2, <3>3
      DEF ProcNext, AcqSample, AcqClaim, AcqGet, AcqReclaim, NotGranted, RenBeat, RenGet,
          RenClock, RenFails, RelStart, RelGet, RelFails, Crash
  <2>3. QED
    BY <2>1, <2>2 DEF Next
<1>2. QED
  BY <1>1, Invariance, PTL DEF Spec, TakeoverOnlyOfExpired

-----------------------------------------------------------------------------
(* Renewals that land late *)

\* What a renewal in flight knows: no lease reaches further than a TTL from now, and the
\* one it read no further than a TTL from its own reading of the clock.
RenewInv(p, b) ==
    /\ ren[p][b].pc \in {"clock", "cas"} => ren[p][b].cur.expires <= now + TTL
    /\ ren[p][b].pc = "cas" => ren[p][b].cur.expires <= ren[p][b].at + TTL /\ ren[p][b].at \in 1 .. now

\* A lock that was released is nobody's, and the renewal a caller awaits is not about it.
ReleasedInv ==
    /\ rec # Absent /\ rec.expires = 0 => \A p \in Procs : handle[p] # rec.token
    /\ AwaitsRenew =>
         \A p \in Procs : /\ rel[p].pc # "idle" => ren[p][inflight[p]].pc = "idle"
                          /\ rec # Absent /\ rec.expires = 0 /\ ren[p][inflight[p]].pc # "idle"
                               => ren[p][inflight[p]].tok # rec.token

LateInv ==
    /\ rec.expires <= now + TTL
    /\ \A p \in Procs : \A b \in Beats : RenewInv(p, b)
    /\ ReleasedInv

\* A renewal that does not move keeps what it knows.
LEMMA RenewStays ==
  ASSUME TypeOK, TypeOK', NEW p \in Procs, NEW b \in Beats, RenewInv(p, b), ren'[p][b] = ren[p][b], now <= now'
  PROVE  RenewInv(p, b)'
<1>1. /\ now \in Nat /\ now' \in Nat /\ TTL \in Nat /\ ren[p][b].cur.expires \in Nat
  BY RunLockAssumption DEF TypeOK, RenState, LockRecord
<1>2. QED
  BY <1>1 DEF RenewInv

\* Nor does one that has ended know anything.
LEMMA RenewIdle ==
  ASSUME NEW p \in Procs, NEW b \in Beats, ren'[p][b] = RenIdle
  PROVE  RenewInv(p, b)'
  BY DEF RenewInv, RenIdle

\* A step that leaves the record and the renewals alone, and takes no lock.
LEMMA LateFrame ==
  ASSUME TypeOK, TypeOK', LateInv, UNCHANGED <<rec, ren, inflight>>, now <= now',
         \A p \in Procs : handle'[p] \in {handle[p], NoToken},
         AwaitsRenew => \A p \in Procs : rel'[p].pc # "idle" => ren[p][inflight[p]].pc = "idle"
  PROVE  LateInv'
<1>1. \A p \in Procs : \A b \in Beats : RenewInv(p, b)'
  BY RenewStays DEF LateInv
<1>2. rec'.expires <= now' + TTL
  <2>1. now \in Nat /\ now' \in Nat /\ TTL \in Nat /\ rec.expires \in Nat
    BY RunLockAssumption DEF TypeOK, LockRecord
  <2>2. QED
    BY <2>1 DEF LateInv
<1>3. rec # Absent /\ rec.expires = 0 => rec.token # NoToken
  BY DEF Absent, TypeOK, LockRecord
<1>4. ReleasedInv'
  BY <1>3 DEF LateInv, ReleasedInv
<1>5. QED
  BY <1>1, <1>2, <1>4 DEF LateInv

\* A lock is taken: the lease is in the future, so the record is not a released one.
LEMMA LateGranted ==
  ASSUME IInv, TypeOK', LateInv, NEW p \in Procs, acq[p].at > 0, Granted(p), UNCHANGED <<now, lastTok, ren, inflight, rel>>
  PROVE  LateInv'
<1>1. /\ rec'.expires = acq[p].at + TTL /\ acq[p].at \in Nat /\ now \in Nat /\ TTL \in Nat /\ acq[p].at <= now /\ TypeOK
  BY RunLockAssumption DEF Granted, IInv, TypeOK, AcqState, CallsInformed
<1>2. \A q \in Procs : \A b \in Beats : RenewInv(q, b)'
  BY <1>1, RenewStays DEF LateInv
<1>3. rec'.expires <= now' + TTL /\ rec'.expires # 0
  BY <1>1
<1>4. ReleasedInv'
  BY <1>3 DEF LateInv, ReleasedInv
<1>5. QED
  BY <1>2, <1>3, <1>4 DEF LateInv

\* A renewal moves and leaves the record alone; if it starts, it is its holder's.
LEMMA LateMoves ==
  ASSUME TypeOK, TypeOK', LateInv, NEW p \in Procs, NEW b \in Beats, NEW r,
         ren' = [ren EXCEPT ![p][b] = r], UNCHANGED <<rec, now, handle, rel>>, RenewInv(p, b)',
         \/ UNCHANGED inflight /\ (r.pc # "idle" => r.tok = ren[p][b].tok /\ ren[p][b].pc # "idle")
         \/ inflight' = [inflight EXCEPT ![p] = b] /\ r.tok = handle[p] /\ rel[p].pc = "idle"
  PROVE  LateInv'
<1>1. /\ ren'[p][b] = r /\ \A q \in Procs : \A c \in Beats : (q # p \/ c # b) => ren'[q][c] = ren[q][c]
  BY DEF TypeOK
<1>2. ASSUME NEW q \in Procs, NEW c \in Beats PROVE RenewInv(q, c)'
  <2>1. CASE q = p /\ c = b
    BY <2>1
  <2>2. CASE q # p \/ c # b
    <3>1. ren'[q][c] = ren[q][c] /\ RenewInv(q, c) /\ now <= now'
      BY <1>1, <2>2 DEF LateInv, TypeOK
    <3>2. QED
      BY <3>1, RenewStays
  <2>3. QED
    BY <2>1, <2>2
<1>3. ReleasedInv'
  <2>1. rec' # Absent /\ rec'.expires = 0 => \A q \in Procs : handle'[q] # rec'.token
    BY DEF LateInv, ReleasedInv
  <2>2. ASSUME AwaitsRenew, NEW q \in Procs
        PROVE  /\ rel'[q].pc # "idle" => ren'[q][inflight'[q]].pc = "idle"
               /\ rec' # Absent /\ rec'.expires = 0 /\ ren'[q][inflight'[q]].pc # "idle" => ren'[q][inflight'[q]].tok # rec'.token
    <3>1. /\ inflight[q] \in Beats /\ inflight'[q] \in Beats
          /\ rel[q].pc # "idle" => ren[q][inflight[q]].pc = "idle"
          /\ rec # Absent /\ rec.expires = 0 /\ ren[q][inflight[q]].pc # "idle" => ren[q][inflight[q]].tok # rec.token
          /\ rec # Absent /\ rec.expires = 0 => handle[q] # rec.token
      BY <2>2 DEF TypeOK, LateInv, ReleasedInv
    <3>2. CASE UNCHANGED inflight /\ (r.pc # "idle" => r.tok = ren[p][b].tok /\ ren[p][b].pc # "idle")
      <4>1. CASE q = p /\ inflight[q] = b
        BY <1>1, <3>1, <3>2, <4>1
      <4>2. CASE q # p \/ inflight[q] # b
        <5>1. ren'[q][inflight'[q]] = ren[q][inflight[q]]
          BY <1>1, <3>1, <3>2, <4>2
        <5>2. QED
          BY <3>1, <5>1
      <4>3. QED
        BY <4>1, <4>2
    <3>3. CASE inflight' = [inflight EXCEPT ![p] = b] /\ r.tok = handle[p] /\ rel[p].pc = "idle"
      <4>1. CASE q = p
        <5>1. ren'[q][inflight'[q]] = r
          BY <1>1, <3>3, <4>1 DEF TypeOK
        <5>2. QED
          BY <3>1, <3>3, <4>1, <5>1
      <4>2. CASE q # p
        <5>1. ren'[q][inflight'[q]] = ren[q][inflight[q]]
          BY <1>1, <3>1, <3>3, <4>2 DEF TypeOK
        <5>2. QED
          BY <3>1, <5>1
      <4>3. QED
        BY <4>1, <4>2
    <3>4. QED
      BY <3>2, <3>3
  <2>3. QED
    BY <2>1, <2>2 DEF ReleasedInv
<1>4. rec'.expires <= now' + TTL
  BY DEF LateInv
<1>5. QED
  BY <1>2, <1>3, <1>4 DEF LateInv

\* An acquisition has read a clock that had started.
Sampled == \A p \in Procs : acq[p].pc # "idle" => acq[p].at > 0

\* Every step keeps that.
LEMMA SampledStep ==
    IInv /\ Sampled /\ [Next]_vars => Sampled'
<1> SUFFICES ASSUME IInv, Sampled, [Next]_vars PROVE Sampled'
  OBVIOUS
<1> USE DEF IInv, TypeOK, Sampled, AcqState
<1>1. ASSUME NEW p \in Procs, AcqSample(p) PROVE Sampled'
  BY <1>1 DEF AcqSample, ClockStarted
<1>2. ASSUME NEW p \in Procs, AcqClaim(p) \/ AcqGet(p) \/ AcqReclaim(p) \/ AcqTakeover(p) PROVE Sampled'
  <2>1. CASE acq' = [acq EXCEPT ![p] = AcqIdle]
    BY <2>1 DEF AcqIdle
  <2>2. CASE acq[p].pc # "idle" /\ acq' = [acq EXCEPT ![p].pc = "get"]
    BY <2>2
  <2>3. CASE acq[p].pc # "idle" /\ acq' = [acq EXCEPT ![p].pc = "reclaim"]
    BY <2>3
  <2>4. CASE acq[p].pc # "idle" /\ acq' = [acq EXCEPT ![p].pc = "takeover", ![p].cur = rec]
    BY <2>4
  <2>5. QED
    BY <1>2, <2>1, <2>2, <2>3, <2>4 DEF AcqClaim, AcqGet, AcqReclaim, AcqTakeover, Granted, NotGranted
<1>3. ASSUME NEW p \in Procs, Crash(p) PROVE Sampled'
  BY <1>3 DEF Crash, AcqIdle
<1>4. CASE Tick \/ Purge \/ UNCHANGED vars
  BY <1>4 DEF Tick, Purge, vars
<1>5. ASSUME NEW p \in Procs, RelStart(p) \/ RelGet(p) \/ RelCas(p) \/ RelFails(p) PROVE Sampled'
  BY <1>5 DEF RelStart, RelGet, RelCas, RelFails
<1>6. ASSUME NEW p \in Procs, NEW b \in Beats, RenBeat(p, b) \/ RenGet(p, b) \/ RenClock(p, b) \/ RenCas(p, b) \/ RenFails(p, b)
      PROVE  Sampled'
  BY <1>6 DEF RenBeat, RenGet, RenClock, RenCas, RenFails
<1>7. QED
  BY <1>1, <1>2, <1>3, <1>4, <1>5, <1>6 DEF Next, ProcNext

\* The steps of an acquisition.
LEMMA LateAcq ==
  ASSUME IInv, TypeOK', Sampled, LateInv, NEW p \in Procs,
         AcqSample(p) \/ AcqClaim(p) \/ AcqGet(p) \/ AcqReclaim(p) \/ AcqTakeover(p)
  PROVE  LateInv'
<1>1. TypeOK /\ now \in Nat
  BY DEF IInv, TypeOK
<1>2. UNCHANGED <<now, ren, inflight, rel>>
  BY DEF AcqSample, AcqClaim, AcqGet, AcqReclaim, AcqTakeover
<1>3. CASE Granted(p) /\ acq[p].pc # "idle" /\ UNCHANGED lastTok
  <2>1. acq[p].at > 0
    BY <1>3 DEF Sampled
  <2>2. QED
    BY <1>2, <1>3, <2>1, LateGranted
<1>4. CASE UNCHANGED <<rec, handle>>
  <2>1. /\ \A q \in Procs : handle'[q] \in {handle[q], NoToken}
        /\ AwaitsRenew => \A q \in Procs : rel'[q].pc # "idle" => ren[q][inflight[q]].pc = "idle"
        /\ now <= now'
    BY <1>1, <1>2, <1>4 DEF LateInv, ReleasedInv
  <2>2. QED
    BY <1>1, <1>2, <1>4, <2>1, LateFrame
<1>5. QED
  BY <1>3, <1>4 DEF AcqSample, AcqClaim, AcqGet, AcqReclaim, AcqTakeover, NotGranted

\* The steps of a renewal.
LEMMA LateRen ==
  ASSUME IInv, TypeOK', LateInv, NEW p \in Procs, NEW b \in Beats,
         RenBeat(p, b) \/ RenGet(p, b) \/ RenClock(p, b) \/ RenCas(p, b) \/ RenFails(p, b)
  PROVE  LateInv'
<1>1. /\ TypeOK /\ now \in Nat /\ now > 0 /\ TTL \in Nat /\ ren[p][b] \in RenState /\ ren \in [Procs -> [Beats -> RenState]]
      /\ RenewInv(p, b) /\ rec.expires <= now + TTL /\ rec \in LockRecord /\ rec.expires \in Nat
  BY RunLockAssumption DEF IInv, TypeOK, ClockStarted, LateInv, LockRecord
<1>2. /\ ren[p][b].at \in Nat /\ ren[p][b].cur.expires \in Nat /\ RenIdle.pc = "idle"
  BY <1>1 DEF RenState, LockRecord, RenIdle
<1>3. ASSUME NEW r, ren' = [ren EXCEPT ![p][b] = r] PROVE ren'[p][b] = r
  BY <1>1, <1>3
<1>4. CASE RenBeat(p, b)
  <2> DEFINE r == [RenIdle EXCEPT !.pc = "get", !.tok = handle[p]]
  <2>1. /\ ren' = [ren EXCEPT ![p][b] = r] /\ UNCHANGED <<rec, now, handle, rel>>
        /\ inflight' = [inflight EXCEPT ![p] = b] /\ rel[p].pc = "idle" /\ r.tok = handle[p] /\ r.pc = "get"
    BY <1>4 DEF RenBeat, RenIdle
  <2> HIDE DEF r
  <2>2. RenewInv(p, b)'
    BY <1>3, <2>1 DEF RenewInv
  <2>3. QED
    BY <1>1, <2>1, <2>2, LateMoves
<1>5. CASE RenGet(p, b)
  <2>1. UNCHANGED <<rec, now, handle, rel, inflight>> /\ ren[p][b].pc = "get"
    BY <1>5 DEF RenGet
  <2>2. CASE ren' = [ren EXCEPT ![p][b] = RenIdle]
    BY <1>1, <1>2, <1>3, <2>1, <2>2, RenewIdle, LateMoves
  <2>3. CASE ren' = [ren EXCEPT ![p][b] = [ren[p][b] EXCEPT !.pc = "clock", !.cur = rec]]
    <3> DEFINE r == [ren[p][b] EXCEPT !.pc = "clock", !.cur = rec]
    <3>1. ren' = [ren EXCEPT ![p][b] = r] /\ r.pc = "clock" /\ r.cur = rec /\ r.tok = ren[p][b].tok
      BY <1>1, <2>3 DEF RenState
    <3> HIDE DEF r
    <3>2. RenewInv(p, b)'
      BY <1>1, <1>3, <2>1, <3>1 DEF RenewInv
    <3>3. QED
      BY <1>1, <2>1, <3>1, <3>2, LateMoves
  <2>4. QED
    BY <1>1, <1>5, <2>2, <2>3 DEF RenGet
<1>6. CASE RenClock(p, b)
  <2> DEFINE r == [ren[p][b] EXCEPT !.pc = "cas", !.at = now]
  <2>1. /\ UNCHANGED <<rec, now, handle, rel, inflight>> /\ ren[p][b].pc = "clock"
        /\ ren' = [ren EXCEPT ![p][b] = r]
    BY <1>1, <1>6 DEF RenClock
  <2>2. r.pc = "cas" /\ r.at = now /\ r.cur = ren[p][b].cur /\ r.tok = ren[p][b].tok
    BY <1>1 DEF RenState
  <2> HIDE DEF r
  <2>3. RenewInv(p, b)'
    BY <1>1, <1>2, <1>3, <2>1, <2>2 DEF RenewInv
  <2>4. QED
    BY <1>1, <2>1, <2>2, <2>3, LateMoves
<1>7. CASE RenFails(p, b)
  <2>1. UNCHANGED <<rec, now, handle, rel, inflight>> /\ ren' = [ren EXCEPT ![p][b] = RenIdle]
    BY <1>7 DEF RenFails
  <2>2. QED
    BY <1>1, <1>2, <1>3, <2>1, RenewIdle, LateMoves
<1>8. CASE RenCas(p, b)
  <2>1. UNCHANGED <<now, handle, rel, inflight>> /\ ren' = [ren EXCEPT ![p][b] = RenIdle] /\ ren[p][b].pc = "cas"
    BY <1>8 DEF RenCas
  <2>2. CASE UNCHANGED rec
    BY <1>1, <1>2, <1>3, <2>1, <2>2, RenewIdle, LateMoves
  <2>3. CASE rec' = [expires |-> ren[p][b].at + TTL, token |-> ren[p][b].tok]
    <3>1. rec'.expires <= now' + TTL /\ rec'.expires # 0
      BY <1>1, <1>2, <2>1, <2>3 DEF RenewInv
    <3>2. ASSUME NEW q \in Procs, NEW c \in Beats PROVE RenewInv(q, c)' /\ (ren[q][c].pc = "idle" => ren'[q][c].pc = "idle")
      <4>1. CASE q = p /\ c = b
        BY <1>2, <1>3, <2>1, <4>1, RenewIdle
      <4>2. CASE q # p \/ c # b
        <5>1. ren'[q][c] = ren[q][c] /\ RenewInv(q, c) /\ now <= now'
          BY <1>1, <2>1, <4>2 DEF LateInv
        <5>2. QED
          BY <1>1, <5>1, RenewStays
      <4>3. QED
        BY <4>1, <4>2
    <3>3. \A q \in Procs : inflight[q] \in Beats
      BY <1>1 DEF TypeOK
    <3>4. ReleasedInv'
      BY <2>1, <3>1, <3>2, <3>3 DEF ReleasedInv, LateInv
    <3>5. QED
      BY <3>1, <3>2, <3>4 DEF LateInv
  <2>4. QED
    BY <1>8, <2>2, <2>3 DEF RenCas
<1>9. QED
  BY <1>4, <1>5, <1>6, <1>7, <1>8

\* The steps of a release: the renewal its caller waits for has returned, and the token is
\* in nobody else's hands.
LEMMA LateRel ==
  ASSUME IInv, TypeOK', LateInv, NEW p \in Procs, RelStart(p) \/ RelGet(p) \/ RelCas(p) \/ RelFails(p)
  PROVE  LateInv'
<1>1. TypeOK /\ now \in Nat /\ TTL \in Nat /\ UNCHANGED <<now, ren, inflight>> /\ now <= now'
  BY RunLockAssumption DEF IInv, TypeOK, RelStart, RelGet, RelCas, RelFails
<1>2. \A q \in Procs : handle'[q] \in {handle[q], NoToken}
  BY DEF IInv, TypeOK, RelStart, RelGet, RelCas, RelFails, RelDone
<1>3. AwaitsRenew => \A q \in Procs : rel'[q].pc # "idle" => ren[q][inflight[q]].pc = "idle"
  <2> SUFFICES ASSUME AwaitsRenew, NEW q \in Procs, rel'[q].pc # "idle" PROVE ren[q][inflight[q]].pc = "idle"
    OBVIOUS
  <2>1. rel[q].pc # "idle" \/ (q = p /\ RelStart(p))
    BY <1>1 DEF TypeOK, RelStart, RelGet, RelCas, RelFails, RelDone, RelIdle
  <2>2. QED
    BY <2>1 DEF LateInv, ReleasedInv, RelStart
<1>4. CASE UNCHANGED rec
  BY <1>1, <1>2, <1>3, <1>4, LateFrame
<1>5. CASE RelCas(p) /\ rec = rel[p].cur /\ rec' = Released(rel[p].tok) /\ RelDone(p)
  <2>1. /\ rel[p].tok = handle[p] /\ handle[p] # NoToken /\ handle'[p] = NoToken /\ rec'.token = handle[p] /\ rec'.expires = 0
        /\ \A q \in Procs : q # p => handle'[q] = handle[q]
    BY <1>1, <1>5 DEF RelCas, RelDone, Released, IInv, CallsInformed, TypeOK
  <2>2. \A q \in Procs : handle'[q] # rec'.token
    BY <2>1 DEF IInv, TokensOwned
  <2>3. ASSUME AwaitsRenew, NEW q \in Procs, ren'[q][inflight'[q]].pc # "idle" PROVE ren'[q][inflight'[q]].tok # rec'.token
    <3>1. inflight[q] \in Beats /\ ren[p][inflight[p]].pc = "idle" /\ ren[q][inflight[q]].pc # "idle"
      BY <1>1, <1>5, <2>3 DEF TypeOK, LateInv, ReleasedInv, RelCas
    <3>2. QED
      BY <1>1, <2>1, <3>1 DEF IInv, TokensOwned
  <2>4. ReleasedInv'
    BY <1>1, <1>3, <2>2, <2>3 DEF ReleasedInv
  <2>5. \A q \in Procs : \A b \in Beats : RenewInv(q, b)'
    BY <1>1, RenewStays DEF LateInv
  <2>6. rec'.expires <= now' + TTL
    BY <1>1, <2>1
  <2>7. QED
    BY <2>4, <2>5, <2>6 DEF LateInv
<1>6. QED
  BY <1>4, <1>5 DEF RelStart, RelGet, RelCas, RelFails

\* A crash ends the renewals with the process.
LEMMA LateCrash ==
  ASSUME IInv, TypeOK', LateInv, NEW p \in Procs, Crash(p)
  PROVE  LateInv'
<1>1. /\ TypeOK /\ now \in Nat /\ UNCHANGED <<rec, now, inflight>> /\ now <= now' /\ \A q \in Procs : inflight[q] \in Beats
  BY DEF IInv, TypeOK, Crash
<1>2. /\ \A b \in Beats : ren'[p][b] = RenIdle /\ RenIdle.pc = "idle"
      /\ \A q \in Procs : q # p => ren'[q] = ren[q] /\ handle'[q] = handle[q] /\ rel'[q] = rel[q]
      /\ rel'[p].pc = "idle" /\ handle'[p] = NoToken
  BY <1>1 DEF TypeOK, Crash, RenIdle, RelIdle
<1>3. ASSUME NEW q \in Procs, NEW b \in Beats PROVE RenewInv(q, b)'
  <2>1. CASE q = p
    BY <1>2, <2>1, RenewIdle
  <2>2. CASE q # p
    BY <1>1, <1>2, <2>2, RenewStays DEF LateInv
  <2>3. QED
    BY <2>1, <2>2
<1>4. rec # Absent /\ rec.expires = 0 => rec.token # NoToken
  BY <1>1 DEF Absent, TypeOK, LockRecord
<1>5. ReleasedInv'
  BY <1>1, <1>2, <1>4 DEF LateInv, ReleasedInv
<1>6. QED
  BY <1>1, <1>3, <1>5 DEF LateInv

\* The clock and the purge; a record that is gone was not released.
LEMMA LateEnvironment ==
  ASSUME IInv, TypeOK', LateInv, Tick \/ Purge \/ UNCHANGED vars
  PROVE  LateInv'
<1>1. TypeOK /\ now \in Nat /\ TTL \in Nat /\ UNCHANGED <<handle, ren, inflight, rel>> /\ now <= now' /\ now' \in Nat
  BY RunLockAssumption DEF IInv, TypeOK, Tick, Purge, vars
<1>2. CASE UNCHANGED rec
  BY <1>1, <1>2, LateFrame DEF LateInv, ReleasedInv
<1>3. CASE Purge
  <2>1. rec' = Absent /\ rec'.expires = 0
    BY <1>3 DEF Purge, Absent
  <2>2. \A q \in Procs : \A b \in Beats : RenewInv(q, b)'
    BY <1>1, RenewStays DEF LateInv
  <2>3. ReleasedInv'
    BY <1>1, <2>1 DEF LateInv, ReleasedInv, Absent
  <2>4. rec'.expires <= now' + TTL
    <3>1. now' = now
      BY <1>3 DEF Purge
    <3>2. QED
      BY <1>1, <2>1, <3>1
  <2>5. QED
    BY <2>2, <2>3, <2>4 DEF LateInv
<1>4. QED
  BY <1>2, <1>3 DEF Tick, vars

\* The invariant of renewals in flight.
LEMMA LateInvariance == Spec => [](Sampled /\ LateInv)
<1>1. Init => Sampled /\ LateInv
  <2> SUFFICES ASSUME Init PROVE Sampled /\ LateInv
    OBVIOUS
  <2>1. rec.expires = 0 /\ rec = Absent /\ now = 1 /\ TTL \in Nat /\ \A p \in Procs : acq[p].pc = "idle" /\ rel[p].pc = "idle"
    BY RunLockAssumption DEF Init, Absent, AcqIdle, RelIdle
  <2>2. \A p \in Procs : \A b \in Beats : RenewInv(p, b)
    BY DEF Init, RenewInv, RenIdle
  <2>3. QED
    BY <2>1, <2>2 DEF Sampled, LateInv, ReleasedInv
<1>2. IInv /\ IInv' /\ Sampled /\ LateInv /\ [Next]_vars => (Sampled /\ LateInv)'
  <2> SUFFICES ASSUME IInv, IInv', Sampled, LateInv, [Next]_vars PROVE LateInv'
    BY SampledStep
  <2>1. TypeOK'
    BY DEF IInv
  <2>2. ASSUME NEW p \in Procs, ProcNext(p) PROVE LateInv'
    BY <2>1, <2>2, LateAcq, LateRen, LateRel, LateCrash DEF ProcNext
  <2>3. QED
    BY <2>1, <2>2, LateEnvironment DEF Next
<1>3. QED
  BY <1>1, <1>2, Invariance, PTL DEF Spec

\* Renewals that land late: none ever shortens its lease, and, where release() waits for the
\* last renewal as run.ts does, that one never brings the released lock back to life.
THEOREM LateHolds == ASSUME AwaitsRenew PROVE Spec => LateRenewals
<1>1. IInv /\ LateInv /\ [Next]_vars => [RenewNeverShortens /\ AwaitedNeverRevives]_vars
  <2> SUFFICES ASSUME IInv, LateInv, Next PROVE RenewNeverShortens /\ AwaitedNeverRevives
    OBVIOUS
  <2> USE DEF IInv, TypeOK, LockRecord
  <2>1. ASSUME UNCHANGED rec PROVE RenewNeverShortens /\ AwaitedNeverRevives
    BY <2>1 DEF RenewNeverShortens, AwaitedNeverRevives
  <2>2. ASSUME NEW p \in Procs, acq[p].pc # "idle", Granted(p) PROVE RenewNeverShortens /\ AwaitedNeverRevives
    BY <2>2 DEF RenewNeverShortens, AwaitedNeverRevives, Granted, TokensFresh
  <2>3. ASSUME NEW p \in Procs, NEW b \in Beats, RenCas(p, b), rec = ren[p][b].cur PROVE RenewNeverShortens /\ AwaitedNeverRevives
    <3>1. /\ ren[p][b].pc = "cas" /\ RenewInv(p, b) /\ ren[p][b].cur.token = ren[p][b].tok
          /\ rec' = [expires |-> ren[p][b].at + TTL, token |-> ren[p][b].tok] /\ ren'[p][b] = RenIdle
      BY <2>3 DEF RenCas, LateInv, CallsInformed
    <3>2. ren'[p][b] # ren[p][b] /\ ren[p][b].tok = rec.token
      BY <2>3, <3>1 DEF RenIdle
    <3>3. RenewNeverShortens
      BY <2>3, <3>1 DEF RenewNeverShortens, RenewInv
    <3>4. rec # Absent /\ rec.expires = 0 => b # inflight[p]
      BY <3>1, <3>2 DEF LateInv, ReleasedInv
    <3>5. AwaitedNeverRevives
      BY <3>2, <3>4 DEF AwaitedNeverRevives
    <3>6. QED
      BY <3>3, <3>5
  <2>4. ASSUME NEW p \in Procs, RelCas(p), rec = rel[p].cur, rec' = Released(rel[p].tok) PROVE RenewNeverShortens /\ AwaitedNeverRevives
    <3>1. rec.token = rel[p].tok /\ rec'.token = rec.token /\ rec'.expires = 0
      BY <2>4 DEF RelCas, CallsInformed, Released
    <3>2. rec.expires = 0 => rec' = rec
      BY <2>4, <3>1 DEF Released
    <3>3. QED
      BY <3>1, <3>2 DEF RenewNeverShortens, AwaitedNeverRevives
  <2>5. ASSUME Purge PROVE RenewNeverShortens /\ AwaitedNeverRevives
    <3>1. rec' = Absent /\ Absent.expires = 0 /\ Absent.token = NoToken /\ rec # Absent
      BY <2>5 DEF Purge, Absent
    <3>2. rec.expires = 0 => rec.token # NoToken
      BY <3>1 DEF Absent
    <3>3. QED
      BY <3>1, <3>2 DEF RenewNeverShortens, AwaitedNeverRevives
  <2>6. ASSUME NEW p \in Procs, ProcNext(p) PROVE RenewNeverShortens /\ AwaitedNeverRevives
    <3>1. CASE AcqClaim(p) \/ AcqReclaim(p) \/ AcqTakeover(p)
      BY <2>1, <2>2, <3>1 DEF AcqClaim, AcqReclaim, AcqTakeover, NotGranted
    <3>2. ASSUME NEW b \in Beats, RenCas(p, b) PROVE RenewNeverShortens /\ AwaitedNeverRevives
      BY <2>1, <2>3, <3>2 DEF RenCas
    <3>3. CASE RelCas(p)
      BY <2>1, <2>4, <3>3 DEF RelCas
    <3>4. CASE AcqSample(p) \/ AcqGet(p) \/ RelStart(p) \/ RelGet(p) \/ RelFails(p) \/ Crash(p)
      BY <2>1, <3>4 DEF AcqSample, AcqGet, NotGranted, RelStart, RelGet, RelFails, Crash
    <3>5. ASSUME NEW b \in Beats, RenBeat(p, b) \/ RenGet(p, b) \/ RenClock(p, b) \/ RenFails(p, b)
          PROVE  RenewNeverShortens /\ AwaitedNeverRevives
      BY <2>1, <3>5 DEF RenBeat, RenGet, RenClock, RenFails
    <3>6. QED
      BY <2>6, <3>1, <3>2, <3>3, <3>4, <3>5 DEF ProcNext
  <2>7. QED
    BY <2>1, <2>5, <2>6 DEF Next, Tick
<1>2. QED
  BY <1>1, Invariance, LateInvariance, PTL DEF Spec, LateRenewals
-----------------------------------------------------------------------------
(* DupMarker *)

Places == {"gate", "claim", "claim-get", "claim-cas", "exec", "ran", "threw",
           "finalize", "finalize-cas", "blocked", "done", "failed", "crashed"}
Rows(t) == [st : {"completed"}, by : Calls, at : 0 .. t]
             \cup [st : {"in-flight", "released"}, by : Calls \ Approved, at : 0 .. t] \cup {None}

MarkerTypes ==
    /\ clock \in Nat /\ marker \in Rows(clock) /\ pc \in [Calls -> Places]
    /\ at \in [Calls -> 0 .. clock] /\ raw \in [Calls -> Rows(clock)]

\* A call by its place: an approved one never claims; a claim is young; who holds
\* the marker finds its own claim in it, and has read it when it is about to complete.
PlaceInv(c) ==
    /\ pc[c] \in {"claim", "claim-get", "claim-cas", "blocked"} => c \notin Approved
    /\ Executing(c) \/ pc[c] \in {"claim-get", "claim-cas"} => clock - at[c] <= StaleTtl
    /\ Executing(c) => marker = InFlight(c)
    /\ Executing(c) /\ pc[c] = "finalize-cas" => raw[c] = marker
    /\ c \notin Approved /\ pc[c] = "done" => marker.st = "completed"

PlacesInv == MarkerTypes /\ \A c \in Calls : PlaceInv(c)

\* The TTL is a number.
LEMMA TTLNumber == StaleTtl \in Nat
BY DupMarkerAssumption

\* A call that moves leaves the others where they are, unless it takes what they hold.
LEMMA PlaceFrame ==
    ASSUME PlacesInv, NEW c \in Calls, NEW l \in Places, pc' = [pc EXCEPT ![c] = l], UNCHANGED clock,
           marker' = marker \/ ((\A d \in Calls : Executing(d) => d = c) /\ marker.st # "completed"),
           \A d \in Calls \ {c} : at'[d] = at[d] /\ raw'[d] = raw[d],
           MarkerTypes', PlaceInv(c)'
    PROVE  PlacesInv'
<1> SUFFICES ASSUME NEW d \in Calls, d # c PROVE PlaceInv(d)'
    BY DEF PlacesInv
<1>1. pc'[d] = pc[d] /\ at'[d] = at[d] /\ raw'[d] = raw[d] /\ clock' = clock /\ PlaceInv(d)
    BY DEF PlacesInv, MarkerTypes
<1>2. Executing(d)' = Executing(d)
    BY <1>1 DEF Executing
<1>3. Executing(d) => marker' = marker
    OBVIOUS
<1>4. marker.st = "completed" => marker' = marker
    OBVIOUS
<1>5. InFlight(d)' = InFlight(d)
    BY <1>1 DEF InFlight
<1> QED
    BY <1>1, <1>2, <1>3, <1>4, <1>5 DEF PlaceInv

\* All calls begin at the gate.
LEMMA PlacesBegin == ASSUME MarkerInit PROVE PlacesInv
<1>1. MarkerTypes
    BY DEF MarkerInit, MarkerTypes, Places, Rows
<1>2. \A c \in Calls : pc[c] = "gate"
    BY DEF MarkerInit
<1> QED
    BY <1>1, <1>2 DEF PlacesInv, PlaceInv, Executing

\* Who holds the marker finds its own young claim in it, ...
LEMMA HolderFinds ==
    ASSUME PlacesInv, NEW c \in Calls, Executing(c)
    PROVE  marker.st = "in-flight" /\ marker.by = c /\ marker.at = at[c] /\ clock - at[c] <= StaleTtl
<1>1. marker = InFlight(c) /\ clock - at[c] <= StaleTtl
    BY DEF PlacesInv, PlaceInv
<1> QED
    BY <1>1 DEF InFlight

\* ... so that nobody else holds it.
LEMMA OneHolds == ASSUME PlacesInv, NEW c \in Calls, Executing(c) PROVE \A d \in Calls : Executing(d) => d = c
<1>1. ASSUME NEW d \in Calls, Executing(d) PROVE d = c
    BY <1>1, HolderFinds
<1> QED
    BY <1>1

\* What a call may write is a row.
LEMMA RowWritten ==
    ASSUME MarkerTypes, NEW c \in Calls
    PROVE  /\ Complete(c) \in Rows(clock)
           /\ c \notin Approved => InFlight(c) \in Rows(clock) /\ Free(c) \in Rows(clock)
<1>1. clock \in 0 .. clock /\ at[c] \in 0 .. clock
    BY DEF MarkerTypes
<1> QED
    BY <1>1 DEF Rows, Complete, InFlight, Free

\* Every step of a call keeps the places.
LEMMA CallStep == ASSUME PlacesInv, NEW c \in Calls,
          Gate(c) \/ Stamp(c) \/ ClaimGet(c) \/ ClaimCas(c) \/ Execute(c) \/ Record(c)
          \/ Finalize(c) \/ FinalizeCas(c) \/ Release(c) \/ Die(c) 
          PROVE PlacesInv' /\ (marker.st = "completed" => marker' = marker)
<1> USE DEF Go
<1>0. MarkerTypes /\ PlaceInv(c) /\ pc[c] \in Places
    BY DEF PlacesInv, MarkerTypes
<1>1. CASE Gate(c)
    <2>1. MarkerTypes' /\ PlaceInv(c)'
        BY <1>0, <1>1 DEF Gate, PlaceInv, MarkerTypes, Places, Executing, InFlight
    <2> QED
        BY <1>1, <2>1, PlaceFrame DEF Gate, Places
<1>2. CASE Stamp(c)
    <2>1. MarkerTypes' /\ PlaceInv(c)'
        <3>1. MarkerTypes' /\ clock' = clock /\ clock \in Nat /\ at'[c] = clock /\ pc'[c] = "claim-get" /\ c \notin Approved
            <4>1. clock \in Nat /\ clock \in 0 .. clock
                BY <1>0 DEF MarkerTypes
            <4> QED
                BY <1>0, <1>2, <4>1 DEF Stamp, PlaceInv, MarkerTypes, Places
        <3>2. clock' - at'[c] = 0
            <4>1. clock' = clock /\ clock \in Nat /\ at'[c] = clock
                BY <3>1
            <4> QED
                BY <4>1
        <3>3. clock' - at'[c] <= StaleTtl
            BY <3>2, TTLNumber
        <3> QED
            BY <3>1, <3>3 DEF PlaceInv, Executing
    <2>2. \A d \in Calls \ {c} : at'[d] = at[d] /\ raw'[d] = raw[d]
        BY <1>0, <1>2 DEF Stamp, MarkerTypes
    <2> QED
        BY <1>2, <2>1, <2>2, PlaceFrame DEF Stamp, Places
<1>3. CASE ClaimGet(c)
    <2>1. MarkerTypes' /\ PlaceInv(c)'
        BY <1>0, <1>3 DEF ClaimGet, Read, PlaceInv, MarkerTypes, Places, Executing, InFlight
    <2>2. \A d \in Calls \ {c} : at'[d] = at[d] /\ raw'[d] = raw[d]
        BY <1>0, <1>3 DEF ClaimGet, Read, MarkerTypes
    <2> QED
        BY <1>3, <2>1, <2>2, PlaceFrame DEF ClaimGet, Places
<1>4. CASE ClaimCas(c)
    <2>1. CASE marker' = InFlight(c) /\ Takeable(raw[c]) /\ marker = raw[c] /\ pc' = [pc EXCEPT ![c] = "exec"]
        <3>1. marker.st # "completed" /\ \A d \in Calls : ~Executing(d)
            <4>1. ASSUME NEW d \in Calls, Executing(d) PROVE FALSE
                <5>1. marker.st = "in-flight" /\ marker.at = at[d] /\ clock - at[d] <= StaleTtl /\ at[d] \in 0 .. clock /\ clock \in Nat
                    BY <1>0, <4>1, HolderFinds DEF MarkerTypes
                <5>2. ~(clock - marker.at > StaleTtl)
                    <6>1. StaleTtl \in Nat
                        BY TTLNumber
                    <6>2. ~(clock - at[d] > StaleTtl)
                        BY <5>1, <6>1
                    <6> QED
                        BY <5>1, <6>2
                <5> QED
                    BY <2>1, <5>1, <5>2 DEF Takeable
            <4> QED
                BY <2>1, <4>1 DEF Takeable
        <3>2. MarkerTypes'
            BY <1>0, <1>4, <2>1 DEF ClaimCas, MarkerTypes, Places, Rows, InFlight, PlaceInv
        <3>3. PlaceInv(c)'
            BY <1>0, <1>4, <2>1 DEF ClaimCas, MarkerTypes, Executing, InFlight, PlaceInv
        <3> QED
            BY <1>4, <2>1, <3>1, <3>2, <3>3, PlaceFrame DEF ClaimCas, Places
    <2>2. CASE marker' = marker /\ pc' = [pc EXCEPT ![c] = "blocked"]
        <3>1. MarkerTypes' /\ PlaceInv(c)'
            BY <1>0, <1>4, <2>2 DEF ClaimCas, MarkerTypes, Places, Executing, InFlight, PlaceInv
        <3> QED
            BY <1>4, <2>2, <3>1, PlaceFrame DEF ClaimCas, Places
    <2> QED
        BY <1>4, <2>1, <2>2 DEF ClaimCas
<1>5. CASE Execute(c)
    <2>1. MarkerTypes' /\ PlaceInv(c)'
        BY <1>0, <1>5 DEF Execute, PlaceInv, MarkerTypes, Places, Executing, InFlight
    <2> QED
        BY <1>5, <2>1, PlaceFrame DEF Execute, Places
<1>6. CASE Record(c)
    <2>1. MarkerTypes' /\ PlaceInv(c)'
        BY <1>0, <1>6 DEF Record, PlaceInv, MarkerTypes, Places, Executing, InFlight
    <2> QED
        BY <1>6, <2>1, PlaceFrame DEF Record, Places
<1>7. CASE Finalize(c)
    <2>1. CASE marker = None /\ marker' = Complete(c) /\ pc' = [pc EXCEPT ![c] = "done"] /\ UNCHANGED raw
        <3>1. \A d \in Calls : ~Executing(d)
            BY <2>1 DEF PlacesInv, PlaceInv, InFlight, None
        <3>2. MarkerTypes'
            <4>1. Complete(c) \in Rows(clock)
                BY <1>0, RowWritten DEF MarkerTypes
            <4> QED
                BY <1>0, <1>7, <2>1, <4>1 DEF Finalize, MarkerTypes, Places
        <3>3. PlaceInv(c)'
            BY <1>0, <1>7, <2>1 DEF Finalize, PlaceInv, MarkerTypes, Executing, Complete
        <3> QED
            BY <1>7, <2>1, <3>1, <3>2, <3>3, PlaceFrame DEF Finalize, Places, None
    <2>2. CASE UNCHANGED marker /\ Read(c) /\ pc' = [pc EXCEPT ![c] = "finalize-cas"]
        <3>1. MarkerTypes' /\ PlaceInv(c)'
            BY <1>0, <1>7, <2>2 DEF Finalize, Read, PlaceInv, MarkerTypes, Places, Executing, InFlight
        <3>2. \A d \in Calls \ {c} : at'[d] = at[d] /\ raw'[d] = raw[d]
            BY <1>0, <1>7, <2>2 DEF Finalize, Read, MarkerTypes
        <3> QED
            BY <1>7, <2>2, <3>1, <3>2, PlaceFrame DEF Finalize, Places
    <2> QED
        BY <1>7, <2>1, <2>2 DEF Finalize
<1>8. CASE FinalizeCas(c)
    <2>1. CASE Ours(c, raw[c]) /\ marker = raw[c]
        <3>1. marker.st # "completed" /\ \A d \in Calls : Executing(d) => d = c
            BY <2>1, HolderFinds DEF Ours
        <3>2. MarkerTypes'
            <4>1. Complete(c) \in Rows(clock)
                BY <1>0, RowWritten DEF MarkerTypes
            <4> QED
                BY <1>0, <1>8, <2>1, <4>1 DEF FinalizeCas, MarkerTypes, Places
        <3>3. PlaceInv(c)'
            BY <1>0, <1>8, <2>1 DEF FinalizeCas, PlaceInv, MarkerTypes, Executing, Complete
        <3> QED
            BY <1>8, <3>1, <3>2, <3>3, PlaceFrame DEF FinalizeCas, Places
    <2>2. CASE ~(Ours(c, raw[c]) /\ marker = raw[c])
        <3>1. c \in Approved
            <4>1. ASSUME c \notin Approved PROVE FALSE
                <5>1. Executing(c) /\ raw[c] = marker
                    BY <1>0, <1>8, <4>1 DEF FinalizeCas, PlaceInv, Executing
                <5> QED
                    BY <2>2, <5>1, HolderFinds DEF Ours
            <4> QED
                BY <4>1
        <3>2. MarkerTypes' /\ PlaceInv(c)'
            BY <1>0, <1>8, <2>2, <3>1 DEF FinalizeCas, PlaceInv, MarkerTypes, Places, Executing
        <3> QED
            BY <1>8, <2>2, <3>2, PlaceFrame DEF FinalizeCas, Places
    <2> QED
        BY <2>1, <2>2
<1>9. CASE Release(c)
    <2>1. CASE c \in Approved
        <3>1. MarkerTypes' /\ PlaceInv(c)'
            BY <1>0, <1>9, <2>1 DEF Release, PlaceInv, MarkerTypes, Places, Executing
        <3> QED
            BY <1>9, <2>1, <3>1, PlaceFrame DEF Release, Places
    <2>2. CASE c \notin Approved
        <3>1. Executing(c) /\ marker = InFlight(c)
            BY <1>0, <1>9, <2>2 DEF Release, PlaceInv, Executing
        <3>2. marker.st # "completed" /\ \A d \in Calls : Executing(d) => d = c
            BY <3>1, OneHolds DEF InFlight
        <3>3. MarkerTypes'
            <4>1. Free(c) \in Rows(clock)
                BY <1>0, <2>2, RowWritten DEF MarkerTypes
            <4> QED
                BY <1>0, <1>9, <2>2, <4>1 DEF Release, MarkerTypes, Places
        <3>4. PlaceInv(c)'
            BY <1>0, <1>9, <2>2 DEF Release, PlaceInv, MarkerTypes, Executing
        <3> QED
            BY <1>9, <3>2, <3>3, <3>4, PlaceFrame DEF Release, Places
    <2> QED
        BY <2>1, <2>2
<1>10. CASE Die(c)
    <2>1. MarkerTypes' /\ PlaceInv(c)'
        BY <1>0, <1>10 DEF Die, PlaceInv, MarkerTypes, Places, Executing
    <2> QED
        BY <1>10, <2>1, PlaceFrame DEF Die, Places
<1> QED
    BY <1>1, <1>2, <1>3, <1>4, <1>5, <1>6, <1>7, <1>8, <1>9, <1>10

\* Time passes only while nobody has outlasted its claim (~Stalls): claims stay young.
LEMMA TickPlaces == ASSUME ~Stalls, PlacesInv, Elapse PROVE PlacesInv'
<1>1. MarkerTypes'
    <2>1. clock \in Nat /\ clock' = clock + 1
        BY DEF Elapse, PlacesInv, MarkerTypes
    <2>2. 0 .. clock \subseteq 0 .. clock' /\ clock' \in Nat
        BY <2>1
    <2>3. Rows(clock) \subseteq Rows(clock')
        BY <2>2 DEF Rows
    <2> QED
        BY <2>2, <2>3 DEF Elapse, PlacesInv, MarkerTypes
<1>2. ASSUME NEW c \in Calls PROVE PlaceInv(c)'
    <2>1. PlaceInv(c) /\ at[c] \in 0 .. clock /\ clock \in Nat
        BY DEF PlacesInv, MarkerTypes
    <2>2. ~Stalled(c) /\ clock' = clock + 1 /\ UNCHANGED <<marker, pc, at, raw>>
        BY DEF Elapse
    <2>3. Executing(c)' = Executing(c) /\ InFlight(c)' = InFlight(c)
        BY <2>2 DEF Executing, InFlight
    <2>4. Executing(c) \/ pc[c] \in {"claim-get", "claim-cas"} => clock' - at[c] <= StaleTtl
        <3>1. ASSUME ~(clock - at[c] >= StaleTtl) PROVE clock' - at[c] <= StaleTtl
            BY <2>1, <2>2, <3>1, TTLNumber
        <3> QED
            BY <2>2, <3>1 DEF Stalled
    <2> QED
        BY <2>1, <2>2, <2>3, <2>4 DEF PlaceInv
<1> QED
    BY <1>1, <1>2 DEF PlacesInv

\* Every step keeps the places, and a completed marker stays completed.
LEMMA PlacesStep == ASSUME ~Stalls, PlacesInv, [MarkerNext]_markerVars
               PROVE PlacesInv' /\ (marker.st = "completed" => marker' = marker)
<1>1. CASE Elapse
    BY <1>1, TickPlaces DEF Elapse
<1>2. CASE UNCHANGED markerVars
    BY <1>2 DEF markerVars, PlacesInv, MarkerTypes, PlaceInv, Executing, InFlight
<1> QED
    BY <1>1, <1>2, CallStep DEF MarkerNext

\* The places hold in every reachable state.
LEMMA PlacesHold == ASSUME ~Stalls PROVE MarkerSpec => []PlacesInv
<1>1. MarkerInit => PlacesInv
    BY PlacesBegin
<1>2. PlacesInv /\ [MarkerNext]_markerVars => PlacesInv'
    BY PlacesStep
<1> QED
    BY <1>1, <1>2, PTL DEF MarkerSpec

\* withDuplicateGuard, for any calls: of those without an explicit approval one at most
\* executes at a time, whoever takes over a claim or crashes, and none executes again what
\* is recorded as done, provided that no execution outlasts the TTL of its claim.
THEOREM MarkerHolds == ASSUME ~Stalls PROVE MarkerSpec => []MarkerInv
<1>1. PlacesInv => MarkerInv
    <2> SUFFICES ASSUME PlacesInv PROVE MarkerInv
        OBVIOUS
    <2>1. OneExecutor
        BY OneHolds DEF OneExecutor
    <2>2. SuccessMarked
        BY DEF SuccessMarked, PlacesInv, PlaceInv
    <2>3. MarkerTypeOK
        BY DEF MarkerTypeOK, PlacesInv, MarkerTypes, Places, Rows
    <2> QED
        BY <2>1, <2>2, <2>3 DEF MarkerInv
<1> QED
    BY <1>1, PlacesHold, PTL

\* A success that was recorded is never lost: no later claim, release or failure overwrites it.
THEOREM SuccessHolds == ASSUME ~Stalls PROVE MarkerSpec => SuccessIsFinal
<1>1. PlacesInv /\ [MarkerNext]_markerVars => [FirstSuccessStays /\ NoEffectAfterSuccess]_markerVars
    <2> SUFFICES ASSUME PlacesInv, [MarkerNext]_markerVars PROVE FirstSuccessStays /\ NoEffectAfterSuccess
        OBVIOUS
    <2>1. NoEffectAfterSuccess
        <3> SUFFICES ASSUME NEW c \in Calls \ Approved, NEW d \in Calls \ Approved, pc[d] = "done", pc[c] = "exec" PROVE FALSE
            BY DEF NoEffectAfterSuccess
        <3>1. Executing(c) /\ marker.st = "completed"
            BY DEF Executing, PlacesInv, PlaceInv
        <3> QED
            BY <3>1, HolderFinds
    <2> QED
        BY <2>1, PlacesStep DEF FirstSuccessStays
<1> QED
    BY <1>1, PlacesHold, PTL DEF MarkerSpec, SuccessIsFinal
-----------------------------------------------------------------------------
(* PollLoop *)

\* NoOverlap is inductive only together with what the flag means.
LoopHolds == LoopTypeOK /\ FlagTells /\ NoOverlap /\ ChainAlive

\* The back-off step stays between the two intervals (Math.min(2 * delay, max)).
LEMMA GrownBounded ==
    ASSUME delay \in PollMs .. MaxPollMs
    PROVE  Grown \in PollMs .. MaxPollMs
BY PollLoopAssumption DEF Grown

\* A loop that was not started has no timer and no call in flight.
LEMMA LoopStart == ASSUME LoopInit PROVE LoopHolds
<1>1. LoopTypeOK
    <2>1. running \in Nat /\ delay \in PollMs .. MaxPollMs
        BY PollLoopAssumption DEF LoopInit
    <2>2. timer \in Handles \cup {Undefined} /\ armed \subseteq Handles /\ polling \in BOOLEAN
        BY DEF LoopInit
    <2> QED
        BY <2>1, <2>2 DEF LoopTypeOK
<1>2. running # 1 /\ ~polling
    BY DEF LoopInit
<1>3. NoOverlap /\ ChainAlive
    BY DEF LoopInit, NoOverlap, ChainAlive
<1> QED
    BY <1>1, <1>2, <1>3 DEF LoopHolds, FlagTells

\* Every callback of the loop preserves the invariant.
LEMMA LoopStep == ASSUME LoopHolds, [LoopNext]_loopVars PROVE LoopHolds'
<1> USE PollLoopAssumption
<1>1. CASE start
    BY <1>1 DEF start, Arm, LoopHolds, LoopTypeOK, FlagTells, NoOverlap, ChainAlive
<1>2. CASE stop
    BY <1>2 DEF stop, LoopHolds, LoopTypeOK, FlagTells, NoOverlap, ChainAlive
<1>3. ASSUME NEW h \in Handles, Fire(h) PROVE LoopHolds'
    <2>1. CASE polling /\ UNCHANGED <<polling, running>>
        BY <1>3, <2>1 DEF Fire, LoopHolds, LoopTypeOK, FlagTells, NoOverlap, ChainAlive
    <2>2. CASE ~polling /\ polling' = TRUE /\ running' = running + 1
        <3>1. running = 0
            BY <2>2 DEF LoopHolds, LoopTypeOK, FlagTells, NoOverlap
        <3>2. LoopTypeOK'
            BY <1>3, <2>2 DEF Fire, LoopHolds, LoopTypeOK
        <3>3. running' = 1
            BY <2>2, <3>1
        <3> QED
            BY <2>2, <3>2, <3>3 DEF LoopHolds, FlagTells, NoOverlap, ChainAlive
    <2> QED
        BY <1>3, <2>1, <2>2 DEF Fire
<1>4. ASSUME NEW progressed \in BOOLEAN, Settle(progressed) PROVE LoopHolds'
    <2>1. running = 1
        BY <1>4 DEF Settle, LoopHolds, LoopTypeOK, NoOverlap
    <2>2. running' = 0 /\ polling' = FALSE
        BY <1>4, <2>1 DEF Settle
    <2>3. delay' \in PollMs .. MaxPollMs
        <3>1. delay' = PollMs \/ delay' = Grown
            BY <1>4 DEF Settle
        <3>2. Grown \in PollMs .. MaxPollMs
            BY GrownBounded DEF LoopHolds, LoopTypeOK
        <3> QED
            BY <3>1, <3>2
    <2>4. timer' \in Handles \cup {Undefined} /\ armed' \subseteq Handles /\ ChainAlive'
        BY <1>4 DEF Settle, Arm, LoopHolds, LoopTypeOK, ChainAlive
    <2>5. running' \in Nat /\ running' # 1 /\ running' <= 1
        BY <2>2
    <2>6. polling' \in BOOLEAN /\ ~polling'
        BY <2>2
    <2> QED
        BY <2>3, <2>4, <2>5, <2>6, Zenon DEF LoopHolds, LoopTypeOK, FlagTells, NoOverlap
<1>5. CASE UNCHANGED loopVars
    BY <1>5 DEF loopVars, LoopHolds, LoopTypeOK, FlagTells, NoOverlap, ChainAlive
<1> QED
    BY <1>1, <1>2, <1>3, <1>4, <1>5 DEF LoopNext

\* The inductive invariant holds in every reachable state.
LEMMA LoopInvariance == LoopSpec => []LoopHolds
BY LoopStart, LoopStep, PTL DEF LoopSpec

\* The promises of createPollLoop, for any interleaving of start(), stop() and
\* timers: fn() never overlaps itself (the `polling` flag), "the chain NEVER
\* dies" while the loop is started, and the interval stays between its bounds.
THEOREM LoopCorrect == LoopSpec => []LoopInv
<1>1. LoopHolds => LoopInv
    BY DEF LoopHolds, LoopInv
<1> QED
    BY <1>1, LoopInvariance, PTL
-----------------------------------------------------------------------------
(* Network: what the journal and a host at its place in the call say *)

\* A decision as decideOnce gives it: an agent to delegate to, or an answer.
Valid(d) ==
    \/ d.action = "route" /\ d = RouteTo(d.agent)
    \/ d.action = "final" /\ d = Answer(d.text)

\* What is frozen as a route is a decision, and the forced final is an answer.
RoutesValid ==
    \A i \in 1 .. Final : route[i] # Undecided => Valid(route[i]) /\ (i = Final => route[i].action = "final")

Delegating == {"step", "veto", "putVeto", "run", "freezeStep"}

\* What a host knows at its place in the call.
HostInv(h) ==
    /\ place[h] = "idle" => loc[h] = NoLocals
    /\ place[h] # "idle" => loc[h].call # 0
    /\ place[h] \in Delegating => /\ loc[h].i # Final
                               /\ loc[h].decision = route[loc[h].i] /\ loc[h].decision.action = "route"
    /\ place[h] = "freeze" => Valid(loc[h].decision) /\ (loc[h].i = Final => loc[h].decision.action = "final")
    /\ place[h] = "freezeStep" => loc[h].res # 0
    /\ \A j \in 1 .. loc[h].i - 1 : step[j] # NoStep /\ loc[h].steps[j] = step[j]
    /\ loc[h].replay => Answered /\ place[h] \in {"idle", "route", "step"}
    /\ \A j \in loc[h].vetoes : veto[j] # 0
    /\ place[h] = "run" => loc[h].i \notin loc[h].vetoes

\* An answer r that was returned is the one frozen at position k, after the
\* steps that are frozen before it.
FrozenAt(r, k) ==
    /\ route[k] = Answer(r.text) /\ Len(r.steps) = k - 1
    /\ \A j \in 1 .. k - 1 : step[j] # NoStep /\ r.steps[j] = step[j]

Backed(r) == r.frozen => \E k \in 1 .. Final : FrozenAt(r, k)

ReturnedFrozen == \A r \in returned : Backed(r)

\* The inductive invariant.
NetIInv == NetTypeOK /\ RoutesValid /\ FrozenInOrder /\ ReturnedFrozen /\ \A h \in Hosts : HostInv(h)
-----------------------------------------------------------------------------
(* The journal only grows, and what depends on it stays true *)

\* A claim that was won is never replaced, and no answer is taken back.
Grows ==
    /\ \A i \in 1 .. Final : route[i] # Undecided => route'[i] = route[i]
    /\ \A i \in Positions : veto[i] # 0 => veto'[i] = veto[i]
    /\ \A i \in Positions : step[i] # NoStep => step'[i] = step[i]
    /\ returned \subseteq returned'

\* The numbers of positions.
LEMMA Numbers ==
    /\ MaxIterations \in Nat \ {0} /\ Final = MaxIterations + 1 /\ Final \in Nat
    /\ Positions = 1 .. MaxIterations /\ 1 \in 1 .. Final
    /\ \A i \in 1 .. Final : i # Final => i \in Positions /\ i + 1 \in 1 .. Final
    /\ \A i \in 1 .. Final : \A j \in 1 .. i - 1 : j \in Positions /\ j \in 1 .. Final
BY NetworkAssumption DEF Final, Positions

\* The three kinds of decision differ.
LEMMA Kinds ==
    /\ Undecided.action = "none" /\ \A a : RouteTo(a).action = "route" /\ \A t : Answer(t).action = "final"
BY DEF Undecided, RouteTo, Answer

\* A host that takes no step keeps what it knows.
LEMMA OtherHost ==
    ASSUME NetTypeOK, Grows, NEW g \in Hosts, HostInv(g), place'[g] = place[g], loc'[g] = loc[g]
    PROVE  HostInv(g)'
<1> DEFINE l == loc[g]
<1>1. l \in LocalsType
    BY DEF NetTypeOK
<1>2. l.i \in 1 .. Final /\ l.vetoes \subseteq Positions
    BY <1>1 DEF LocalsType
<1>3. Answered => Answered'
    BY DEF Grows, Answered
<1>4. \A j \in 1 .. l.i - 1 : step'[j] # NoStep /\ l.steps[j] = step'[j]
    BY <1>2, Numbers DEF HostInv, Grows
<1>5. \A j \in l.vetoes : veto'[j] # 0
    BY <1>2 DEF HostInv, Grows
<1>6. place[g] \in Delegating => l.decision = route'[l.i]
    BY <1>2, Kinds DEF HostInv, Grows
<1> QED
    BY <1>3, <1>4, <1>5, <1>6 DEF HostInv

\* An answer that was returned stays the frozen one.
LEMMA AnswerStays ==
    ASSUME NetTypeOK, Grows, NEW r, Backed(r)
    PROVE  Backed(r)'
<1> SUFFICES ASSUME r.frozen PROVE \E k \in 1 .. Final : FrozenAt(r, k)'
    BY DEF Backed
<1>1. PICK k \in 1 .. Final : FrozenAt(r, k)
    BY DEF Backed
<1>2. route'[k] = Answer(r.text)
    BY <1>1, Kinds DEF FrozenAt, Grows
<1>3. \A j \in 1 .. k - 1 : step'[j] # NoStep /\ r.steps[j] = step'[j]
    BY <1>1, Numbers DEF FrozenAt, Grows
<1> QED
    BY <1>1, <1>2, <1>3 DEF FrozenAt

\* It suffices to look at the journal, at the host that moves and at the answer
\* it returns.
LEMMA Assemble ==
    ASSUME NetIInv, Grows, NetTypeOK', RoutesValid', FrozenInOrder', NEW h \in Hosts, HostInv(h)',
           \A g \in Hosts \ {h} : place'[g] = place[g] /\ loc'[g] = loc[g],
           \A r \in returned' \ returned : Backed(r)'
    PROVE  NetIInv'
<1>1. \A g \in Hosts : HostInv(g)'
    BY OtherHost DEF NetIInv
<1>2. \A r \in returned' : Backed(r)'
    BY AnswerStays DEF NetIInv, ReturnedFrozen
<1> QED
    BY <1>1, <1>2 DEF NetIInv, ReturnedFrozen
-----------------------------------------------------------------------------
(* Updates of a host's place and locals *)

\* Setting a host's place (Goto) leaves the other hosts where they are.
LEMMA PcSet ==
    ASSUME NetTypeOK, NEW h \in Hosts, NEW label \in Labels, Goto(h, label)
    PROVE  place' \in [Hosts -> Labels] /\ place'[h] = label /\ \A g \in Hosts \ {h} : place'[g] = place[g]
BY DEF Goto, NetTypeOK

\* The same for its local variables.
LEMMA LocSet ==
    ASSUME NetTypeOK, NEW h \in Hosts, NEW l \in LocalsType, Len(l.steps) = l.i - 1,
           loc' = [loc EXCEPT ![h] = l]
    PROVE  /\ loc' \in [Hosts -> LocalsType] /\ \A g \in Hosts : Len(loc'[g].steps) = loc'[g].i - 1
           /\ loc'[h] = l /\ \A g \in Hosts \ {h} : loc'[g] = loc[g]
<1>1. loc' \in [Hosts -> LocalsType] /\ loc'[h] = l /\ \A g \in Hosts \ {h} : loc'[g] = loc[g]
    BY DEF NetTypeOK
<1>2. \A g \in Hosts : Len(loc'[g].steps) = loc'[g].i - 1
    BY <1>1 DEF NetTypeOK
<1> QED
    BY <1>1, <1>2

\* The fields that the assignment of the decision leaves alone.
LEMMA SetDecision ==
    ASSUME NEW l \in LocalsType, NEW d \in Decisions
    PROVE  LET m == [l EXCEPT !.decision = d]
           IN  /\ m \in LocalsType /\ m.decision = d
               /\ m.call = l.call /\ m.agents = l.agents /\ m.i = l.i /\ m.steps = l.steps
               /\ m.res = l.res /\ m.vetoed = l.vetoed /\ m.vetoes = l.vetoes /\ m.replay = l.replay
BY DEF LocalsType

\* The empty decision and the empty text are values of their types.
LEMMA NoneTyped == Undecided \in Decisions /\ 0 \in Texts
BY NetworkAssumption DEF Undecided, Decisions, Texts

\* A host whose call ends knows nothing.
LEMMA EndStep ==
    ASSUME NetIInv, Grows, NEW h \in Hosts, End(h), RoutesValid', FrozenInOrder',
           route' \in [1 .. Final -> Decisions], veto' \in [Positions -> Texts],
           step' \in [Positions -> Steps], calls' \in 0 .. MaxCalls,
           returned' \subseteq [text : Texts, steps : Seq(Steps), frozen : BOOLEAN],
           \A r \in returned' \ returned : Backed(r)'
    PROVE  NetIInv'
<1>1. NoLocals \in LocalsType /\ NoLocals.i = 1 /\ NoLocals.steps = <<>> /\ NoLocals.vetoes = {} /\ NoLocals.replay = FALSE
    <2>1. <<>> \in Seq(Steps) /\ {} \in SUBSET Agents /\ {} \in SUBSET Positions
        OBVIOUS
    <2> QED
        BY <2>1, NoneTyped, Numbers DEF NoLocals, Locals, LocalsType
<1>2. /\ place' \in [Hosts -> Labels] /\ place'[h] = "idle" /\ \A g \in Hosts \ {h} : place'[g] = place[g]
    BY PcSet DEF End, NetIInv, Labels
<1>3. Len(NoLocals.steps) = NoLocals.i - 1
    BY <1>1
<1>4. /\ loc' \in [Hosts -> LocalsType] /\ \A g \in Hosts : Len(loc'[g].steps) = loc'[g].i - 1
      /\ loc'[h] = NoLocals /\ \A g \in Hosts \ {h} : loc'[g] = loc[g]
    BY <1>1, <1>3, LocSet DEF End, NetIInv
<1>5. HostInv(h)'
    BY <1>1, <1>2, <1>4 DEF HostInv, Delegating
<1>6. NetTypeOK'
    BY <1>2, <1>4 DEF NetTypeOK
<1> QED
    BY <1>2, <1>4, <1>5, <1>6, Assemble
-----------------------------------------------------------------------------
(* The actions *)

\* A call that replays an answered run finds a decision and a step wherever it
\* looks.
LEMMA ReplayFinds ==
    ASSUME NetIInv, NEW h \in Hosts, loc[h].replay
    PROVE  /\ place[h] = "route" => route[loc[h].i] # Undecided
           /\ place[h] = "step" => step[loc[h].i] # NoStep
<1> DEFINE i == loc[h].i
<1>1. i \in 1 .. Final /\ HostInv(h)
    BY DEF NetIInv, NetTypeOK, LocalsType
<1>2. PICK r \in returned : r.frozen
    BY <1>1 DEF HostInv, Answered
<1>3. PICK k \in 1 .. Final : FrozenAt(r, k)
    BY <1>2 DEF NetIInv, ReturnedFrozen, Backed
<1>4. route[k].action = "final"
    BY <1>3, Kinds DEF FrozenAt
<1>5. \A j \in Positions : step[j] # NoStep => route[j].action = "route"
    BY Kinds DEF NetIInv, FrozenInOrder
<1>6. ~(k < i)
    <2> SUFFICES ASSUME k < i PROVE FALSE
        OBVIOUS
    <2>1. k \in 1 .. i - 1
        BY <1>1
    <2>2. k \in Positions /\ step[k] # NoStep
        BY <1>1, <2>1, Numbers DEF HostInv
    <2> QED
        BY <1>4, <1>5, <2>2
<1>7. CASE i = k
    BY <1>1, <1>4, <1>7, Kinds DEF HostInv, Delegating
<1>8. CASE i < k
    <2>1. i \in 1 .. k - 1
        BY <1>1, <1>8
    <2>2. i \in Positions /\ step[i] # NoStep
        BY <1>3, <2>1, Numbers DEF FrozenAt
    <2> QED
        BY <1>5, <2>2, Kinds
<1> QED
    BY <1>1, <1>6, <1>7, <1>8

\* runNetwork begins: it knows the vetoes that are journaled, and nothing else.
LEMMA NetCallStep ==
    ASSUME NetIInv, NEW h \in Hosts, Call(h)
    PROVE  NetIInv'
<1>1. PICK agents \in SUBSET Agents :
         loc' = [loc EXCEPT ![h] = Locals(calls + 1, agents, 1, <<>>, {i \in Positions : veto[i] # 0}, Answered)]
    BY DEF Call
<1> DEFINE l == Locals(calls + 1, agents, 1, <<>>, {i \in Positions : veto[i] # 0}, Answered)
<1>2. calls + 1 \in Texts /\ calls + 1 # 0 /\ calls' \in 0 .. MaxCalls
    BY NetworkAssumption DEF Call, NetIInv, NetTypeOK, Texts
<1>3. /\ l \in LocalsType /\ l.call = calls + 1 /\ l.i = 1 /\ l.steps = <<>>
      /\ l.vetoes = {i \in Positions : veto[i] # 0} /\ l.replay = Answered
    <2>1. <<>> \in Seq(Steps) /\ {i \in Positions : veto[i] # 0} \in SUBSET Positions
        OBVIOUS
    <2>2. Answered \in BOOLEAN
        BY DEF Answered
    <2> QED
        BY <1>2, <2>1, <2>2, NoneTyped, Numbers DEF Locals, LocalsType
<1>4. place' \in [Hosts -> Labels] /\ place'[h] = "route" /\ \A g \in Hosts \ {h} : place'[g] = place[g]
    BY PcSet DEF Call, NetIInv, Labels
<1>5. /\ loc' \in [Hosts -> LocalsType] /\ \A g \in Hosts : Len(loc'[g].steps) = loc'[g].i - 1
      /\ loc'[h] = l /\ \A g \in Hosts \ {h} : loc'[g] = loc[g]
    BY <1>1, <1>3, LocSet DEF NetIInv
<1>6. UNCHANGED <<route, veto, step, returned>>
    BY DEF Call, journal
<1>7. Grows
    BY <1>6 DEF Grows
<1>8. NetTypeOK'
    BY <1>2, <1>4, <1>5, <1>6 DEF NetIInv, NetTypeOK
<1>9. HostInv(h)'
    <2> HIDE DEF l
    <2>1. loc'[h].replay => Answered'
        BY <1>3, <1>5, <1>6, Zenon DEF Answered
    <2>2. /\ loc'[h].call # 0 /\ 1 .. loc'[h].i - 1 = {}
          /\ \A j \in loc'[h].vetoes : veto'[j] # 0
        BY <1>2, <1>3, <1>5, <1>6
    <2> QED
        BY <1>4, <2>1, <2>2 DEF HostInv, Delegating
<1>10. RoutesValid' /\ FrozenInOrder'
    BY <1>6 DEF NetIInv, RoutesValid, FrozenInOrder
<1> QED
    BY <1>4, <1>5, <1>6, <1>7, <1>8, <1>9, <1>10, Assemble

\* A call that ends without a return leaves the journal as it is.
LEMMA FailStep ==
    ASSUME NetIInv, NEW h \in Hosts, End(h), UNCHANGED <<route, veto, step, calls, returned>>
    PROVE  NetIInv'
<1>1. Grows
    BY DEF Grows
<1>2. RoutesValid' /\ FrozenInOrder'
    BY DEF NetIInv, RoutesValid, FrozenInOrder
<1> QED
    BY <1>1, <1>2, EndStep DEF NetIInv, NetTypeOK

\* The host goes on at another place, with the journal as it is.
LEMMA MoveStep ==
    ASSUME NetIInv, NEW h \in Hosts, NEW label \in Labels, Goto(h, label), NEW l \in LocalsType,
           Len(l.steps) = l.i - 1, loc' = [loc EXCEPT ![h] = l],
           UNCHANGED <<route, veto, step, calls, returned>>,
           loc'[h] = l /\ place'[h] = label => HostInv(h)'
    PROVE  NetIInv'
<1>1. place' \in [Hosts -> Labels] /\ place'[h] = label /\ \A g \in Hosts \ {h} : place'[g] = place[g]
    BY PcSet DEF NetIInv
<1>2. /\ loc' \in [Hosts -> LocalsType] /\ \A g \in Hosts : Len(loc'[g].steps) = loc'[g].i - 1
      /\ loc'[h] = l /\ \A g \in Hosts \ {h} : loc'[g] = loc[g]
    BY LocSet DEF NetIInv
<1>3. Grows
    BY DEF Grows
<1>4. NetTypeOK'
    BY <1>1, <1>2 DEF NetIInv, NetTypeOK
<1>5. RoutesValid' /\ FrozenInOrder'
    BY DEF NetIInv, RoutesValid, FrozenInOrder
<1> QED
    BY <1>1, <1>2, <1>3, <1>4, <1>5, Assemble

\* What the loop does with a frozen decision.
LEMMA FollowStep ==
    ASSUME NetIInv, Grows, NEW h \in Hosts, place[h] \in {"route", "freeze"},
           route' \in [1 .. Final -> Decisions], RoutesValid', FrozenInOrder',
           UNCHANGED <<veto, step, calls>>, route'[loc[h].i] # Undecided, Follow(h, route'[loc[h].i])
    PROVE  NetIInv'
<1> DEFINE i == loc[h].i
           d == route'[i]
<1>1. loc[h] \in LocalsType /\ i \in 1 .. Final /\ d \in Decisions /\ HostInv(h)
    BY DEF NetIInv, NetTypeOK, LocalsType
<1>2. Valid(d) /\ (i = Final => d.action = "final")
    BY <1>1 DEF RoutesValid
<1>3. CASE d.action = "final" /\ Return(h, d.text, TRUE)
    <2>1. PICK r \in [text : Texts, steps : Seq(Steps), frozen : BOOLEAN] :
             r = [text |-> d.text, steps |-> loc[h].steps, frozen |-> TRUE]
        BY <1>1 DEF LocalsType, Decisions
    <2>2. returned' = returned \union {r} /\ End(h)
        BY <1>3, <2>1 DEF Return
    <2>3. PICK k \in 1 .. Final : k = i
        BY <1>1
    <2>4. FrozenAt(r, k)'
        <3>1. route'[k] = Answer(r.text)
            BY <1>2, <1>3, <2>1, <2>3, Kinds DEF Valid
        <3>2. Len(r.steps) = k - 1
            BY <2>1, <2>3 DEF NetIInv, NetTypeOK
        <3>3. \A j \in 1 .. k - 1 : step'[j] # NoStep /\ r.steps[j] = step'[j]
            BY <1>1, <2>1, <2>3 DEF HostInv
        <3> QED
            BY <3>1, <3>2, <3>3 DEF FrozenAt
    <2>5. Backed(r)'
        BY <2>4 DEF Backed
    <2>6. returned' \subseteq [text : Texts, steps : Seq(Steps), frozen : BOOLEAN]
        BY <2>2 DEF NetIInv, NetTypeOK
    <2>7. \A q \in returned' \ returned : Backed(q)'
        BY <2>2, <2>5
    <2>8. veto' \in [Positions -> Texts] /\ step' \in [Positions -> Steps] /\ calls' \in 0 .. MaxCalls
        BY DEF NetIInv, NetTypeOK
    <2> QED
        BY <2>2, <2>6, <2>7, <2>8, EndStep
<1>4. CASE /\ d.action = "route" /\ loc' = [loc EXCEPT ![h].decision = d] /\ Goto(h, "step")
           /\ UNCHANGED returned
    <2> DEFINE l == [loc[h] EXCEPT !.decision = d]
    <2>1. /\ l \in LocalsType /\ l.decision = d /\ l.call = loc[h].call /\ l.i = i /\ l.steps = loc[h].steps
          /\ l.vetoes = loc[h].vetoes /\ l.replay = loc[h].replay
        BY <1>1, SetDecision
    <2>2. loc' = [loc EXCEPT ![h] = l]
        BY <1>4
    <2>3. place' \in [Hosts -> Labels] /\ place'[h] = "step" /\ \A g \in Hosts \ {h} : place'[g] = place[g]
        BY <1>4, PcSet DEF NetIInv, Labels
    <2> HIDE DEF l
    <2>4. Len(l.steps) = l.i - 1
        BY <2>1 DEF NetIInv, NetTypeOK
    <2>5. /\ loc' \in [Hosts -> LocalsType] /\ \A g \in Hosts : Len(loc'[g].steps) = loc'[g].i - 1
          /\ loc'[h] = l /\ \A g \in Hosts \ {h} : loc'[g] = loc[g]
        BY <2>1, <2>2, <2>4, LocSet DEF NetIInv
    <2>6. NetTypeOK'
        BY <1>4, <2>3, <2>5 DEF NetIInv, NetTypeOK
    <2>7. HostInv(h)'
        <3>1. loc[h].replay => Answered'
            BY <1>1, <1>4 DEF HostInv, Answered
        <3>2. loc'[h].call # 0 /\ loc'[h].i # Final /\ loc'[h].decision = route'[loc'[h].i]
              /\ loc'[h].decision.action = "route"
            BY <1>1, <1>2, <1>4, <2>1, <2>5 DEF HostInv
        <3>3. \A j \in 1 .. loc'[h].i - 1 : step'[j] # NoStep /\ loc'[h].steps[j] = step'[j]
            BY <1>1, <2>1, <2>5 DEF HostInv
        <3>4. \A j \in loc'[h].vetoes : veto'[j] # 0
            BY <1>1, <2>1, <2>5 DEF HostInv
        <3>5. loc'[h].replay => Answered'
            BY <2>1, <2>5, <3>1, Zenon
        <3> QED
            BY <2>3, <3>2, <3>3, <3>4, <3>5 DEF HostInv
    <2> QED
        BY <1>4, <2>3, <2>5, <2>6, <2>7, Assemble
<1>5. CASE End(h) /\ UNCHANGED returned
    BY <1>5, EndStep DEF NetIInv, NetTypeOK
<1> QED
    BY <1>3, <1>4, <1>5 DEF Follow

\* The look for a frozen decision (frozenGet).
LEMMA GetRouteStep ==
    ASSUME NetIInv, NEW h \in Hosts, GetRoute(h)
    PROVE  NetIInv'
<1>1. place[h] = "route" /\ UNCHANGED <<route, veto, step, calls>>
    BY DEF GetRoute, journal
<1>2. CASE route[loc[h].i] # Undecided /\ Follow(h, route[loc[h].i])
    <2>1. Grows
        BY <1>1, <1>2 DEF Grows, Follow, Return
    <2>2. RoutesValid' /\ FrozenInOrder'
        BY <1>1 DEF NetIInv, RoutesValid, FrozenInOrder
    <2>3. route' \in [1 .. Final -> Decisions] /\ route'[loc[h].i] = route[loc[h].i]
        BY <1>1 DEF NetIInv, NetTypeOK
    <2> QED
        BY <1>1, <1>2, <2>1, <2>2, <2>3, FollowStep
<1>3. CASE route[loc[h].i] = Undecided /\ Goto(h, "decide") /\ UNCHANGED <<loc, returned>>
    <2>1. loc[h] \in LocalsType /\ Len(loc[h].steps) = loc[h].i - 1 /\ loc' = [loc EXCEPT ![h] = loc[h]]
        BY <1>3 DEF NetIInv, NetTypeOK
    <2>2. ~loc[h].replay
        BY <1>1, <1>3, ReplayFinds
    <2>3. HostInv(h)
        BY DEF NetIInv
    <2>4. place'[h] = "decide" /\ loc'[h] = loc[h] => HostInv(h)'
        BY <1>1, <1>3, <2>2, <2>3 DEF HostInv, Delegating
    <2> QED
        BY <1>1, <1>3, <2>1, <2>4, MoveStep DEF Labels
<1> QED
    BY <1>2, <1>3 DEF GetRoute

\* The router's decision.
LEMMA DecideStep ==
    ASSUME NetIInv, NEW h \in Hosts, Decide(h)
    PROVE  NetIInv'
<1>1. place[h] = "decide" /\ Goto(h, "freeze") /\ UNCHANGED <<route, veto, step, calls, returned>>
    BY DEF Decide, journal
<1>2. loc[h] \in LocalsType /\ HostInv(h) /\ Len(loc[h].steps) = loc[h].i - 1
    BY DEF NetIInv, NetTypeOK
<1>3. PICK d \in Decisions : /\ loc' = [loc EXCEPT ![h].decision = d] /\ Valid(d)
                             /\ loc[h].i = Final => d.action = "final"
    <2>1. loc[h].call \in Texts /\ loc[h].agents \subseteq Agents
        BY <1>2 DEF LocalsType
    <2>2. CASE loc' = [loc EXCEPT ![h].decision = Answer(loc[h].call)]
        <3>1. Answer(loc[h].call) \in Decisions /\ Valid(Answer(loc[h].call))
            BY <2>1 DEF Answer, Decisions, Valid
        <3> QED
            BY <2>2, <3>1, Kinds
    <2>3. CASE loc[h].i # Final /\ \E a \in loc[h].agents : loc' = [loc EXCEPT ![h].decision = RouteTo(a)]
        <3>1. PICK a \in loc[h].agents : loc' = [loc EXCEPT ![h].decision = RouteTo(a)]
            BY <2>3
        <3>2. RouteTo(a) \in Decisions /\ Valid(RouteTo(a))
            BY <2>1, NoneTyped DEF RouteTo, Decisions, Valid
        <3> QED
            BY <2>3, <3>1, <3>2
    <2> QED
        BY <2>2, <2>3 DEF Decide
<1> DEFINE l == [loc[h] EXCEPT !.decision = d]
<1>4. /\ l \in LocalsType /\ l.decision = d /\ l.call = loc[h].call /\ l.i = loc[h].i
      /\ l.steps = loc[h].steps /\ l.vetoes = loc[h].vetoes /\ l.replay = loc[h].replay
    BY <1>2, SetDecision
<1>5. loc' = [loc EXCEPT ![h] = l]
    BY <1>3
<1>6. ASSUME loc'[h] = l, place'[h] = "freeze" PROVE HostInv(h)'
    <2> HIDE DEF l
    <2>1. ~loc'[h].replay
        BY <1>1, <1>2, <1>4, <1>6 DEF HostInv
    <2> QED
        BY <1>1, <1>2, <1>3, <1>4, <1>6, <2>1 DEF HostInv, Delegating
<1> HIDE DEF l
<1>7. Len(l.steps) = l.i - 1
    BY <1>2, <1>4
<1> QED
    BY <1>1, <1>4, <1>5, <1>6, <1>7, MoveStep DEF Labels

\* The answer taken from the last step when the forced final fails.
LEMMA FallbackStep ==
    ASSUME NetIInv, NEW h \in Hosts, Fallback(h)
    PROVE  NetIInv'
<1> DEFINE t == loc[h].steps[MaxIterations].text
<1>1. /\ loc[h].i = Final /\ Return(h, t, FALSE) /\ UNCHANGED <<route, veto, step, calls>>
    BY DEF Fallback, journal
<1>2. t \in Texts /\ loc[h].steps \in Seq(Steps)
    <2>1. loc[h].steps \in Seq(Steps) /\ Len(loc[h].steps) = MaxIterations
        BY <1>1, Numbers DEF NetIInv, NetTypeOK, LocalsType
    <2>2. loc[h].steps[MaxIterations] \in Steps
        BY <2>1, Numbers
    <2> QED
        BY <2>1, <2>2 DEF Steps
<1>3. PICK r \in [text : Texts, steps : Seq(Steps), frozen : BOOLEAN] :
         r = [text |-> t, steps |-> loc[h].steps, frozen |-> FALSE]
    BY <1>2
<1>4. returned' = returned \union {r} /\ End(h)
    BY <1>1, <1>3 DEF Return
<1>5. ~r.frozen
    BY <1>3
<1>6. \A q \in returned' \ returned : Backed(q)'
    BY <1>4, <1>5 DEF Backed
<1>7. Grows
    BY <1>1, <1>4 DEF Grows
<1>8. RoutesValid' /\ FrozenInOrder'
    BY <1>1 DEF NetIInv, RoutesValid, FrozenInOrder
<1>9. returned' \subseteq [text : Texts, steps : Seq(Steps), frozen : BOOLEAN]
    BY <1>4 DEF NetIInv, NetTypeOK
<1>10. /\ route' \in [1 .. Final -> Decisions] /\ veto' \in [Positions -> Texts]
       /\ step' \in [Positions -> Steps] /\ calls' \in 0 .. MaxCalls
    BY <1>1 DEF NetIInv, NetTypeOK
<1> QED
    BY <1>4, <1>6, <1>7, <1>8, <1>9, <1>10, EndStep

\* The claim of the route.
LEMMA FreezeRouteStep ==
    ASSUME NetIInv, NEW h \in Hosts, FreezeRoute(h)
    PROVE  NetIInv'
<1> DEFINE i == loc[h].i
<1>1. /\ place[h] = "freeze" /\ Follow(h, route'[i]) /\ UNCHANGED <<veto, step, calls>>
      /\ route' = [route EXCEPT ![i] = IF route[i] = Undecided THEN loc[h].decision ELSE route[i]]
    BY DEF FreezeRoute
<1>2. i \in 1 .. Final /\ loc[h].decision \in Decisions /\ HostInv(h)
    BY DEF NetIInv, NetTypeOK, LocalsType
<1>3. Valid(loc[h].decision) /\ (i = Final => loc[h].decision.action = "final")
    BY <1>1, <1>2 DEF HostInv
<1>4. route \in [1 .. Final -> Decisions]
    BY DEF NetIInv, NetTypeOK
<1>5. /\ route' \in [1 .. Final -> Decisions]
      /\ route'[i] = IF route[i] = Undecided THEN loc[h].decision ELSE route[i]
      /\ \A j \in 1 .. Final : j # i => route'[j] = route[j]
    BY <1>1, <1>2, <1>4
<1>6. route'[i] # Undecided
    BY <1>3, <1>5, Kinds DEF Valid
<1>7. Grows
    BY <1>1, <1>5 DEF Grows, Follow, Return
<1>8. RoutesValid'
    BY <1>3, <1>5 DEF NetIInv, RoutesValid
<1>9. FrozenInOrder'
    <2>1. ASSUME NEW j \in 2 .. Final, route'[j] # Undecided PROVE step'[j - 1] # NoStep
        <3>1. CASE j = i
            <4>1. j - 1 \in 1 .. i - 1
                BY <3>1, Numbers
            <4> QED
                BY <1>1, <1>2, <4>1 DEF HostInv
        <3>2. CASE j # i
            <4>1. j \in 1 .. Final
                BY Numbers
            <4> QED
                BY <1>1, <1>5, <2>1, <3>2, <4>1 DEF NetIInv, FrozenInOrder
        <3> QED
            BY <3>1, <3>2
    <2>2. ASSUME NEW j \in Positions, step'[j] # NoStep PROVE route'[j] = RouteTo(step'[j].agent)
        <3>1. route[j] = RouteTo(step[j].agent) /\ step'[j] = step[j]
            BY <1>1, <2>2 DEF NetIInv, FrozenInOrder
        <3>2. j \in 1 .. Final
            BY Numbers
        <3> QED
            BY <1>7, <3>1, <3>2, Kinds DEF Grows
    <2> QED
        BY <2>1, <2>2 DEF FrozenInOrder
<1> QED
    BY <1>1, <1>5, <1>6, <1>7, <1>8, <1>9, FollowStep

\* The host goes on to the next position with the step that is frozen at this one.
LEMMA PushStep ==
    ASSUME NetIInv, Grows, NEW h \in Hosts, place[h] \in {"step", "freezeStep"},
           step' \in [Positions -> Steps], FrozenInOrder',
           UNCHANGED <<route, veto, calls, returned>>, step'[loc[h].i] # NoStep, Push(h, step'[loc[h].i])
    PROVE  NetIInv'
<1> DEFINE i == loc[h].i
           s == step'[i]
           l == Locals(loc[h].call, loc[h].agents, i + 1, Append(loc[h].steps, s), loc[h].vetoes, loc[h].replay)
<1>1. loc[h] \in LocalsType /\ HostInv(h) /\ Len(loc[h].steps) = i - 1
    BY DEF NetIInv, NetTypeOK
<1>2. /\ i \in 1 .. Final /\ loc[h].call \in Texts /\ loc[h].agents \in SUBSET Agents
      /\ loc[h].steps \in Seq(Steps) /\ loc[h].vetoes \in SUBSET Positions /\ loc[h].replay \in BOOLEAN
    BY <1>1 DEF LocalsType
<1>3. i \in Positions /\ i + 1 \in 1 .. Final
    BY <1>1, <1>2, Numbers DEF HostInv, Delegating
<1>4. /\ Append(loc[h].steps, s) \in Seq(Steps) /\ Len(Append(loc[h].steps, s)) = i
      /\ Append(loc[h].steps, s)[i] = s
      /\ \A j \in 1 .. i - 1 : Append(loc[h].steps, s)[j] = loc[h].steps[j]
    BY <1>1, <1>2, <1>3
<1>5. /\ l \in LocalsType /\ l.call = loc[h].call /\ l.i = i + 1 /\ l.steps = Append(loc[h].steps, s)
      /\ l.vetoes = loc[h].vetoes /\ l.replay = loc[h].replay
    BY <1>2, <1>3, <1>4, NoneTyped DEF Locals, LocalsType
<1>6. loc' = [loc EXCEPT ![h] = l] /\ Goto(h, "route")
    BY DEF Push
<1> HIDE DEF l
<1>7. place' \in [Hosts -> Labels] /\ place'[h] = "route" /\ \A g \in Hosts \ {h} : place'[g] = place[g]
    BY <1>6, PcSet DEF NetIInv, Labels
<1>8. Len(l.steps) = l.i - 1
    BY <1>2, <1>4, <1>5
<1>9. /\ loc' \in [Hosts -> LocalsType] /\ \A g \in Hosts : Len(loc'[g].steps) = loc'[g].i - 1
      /\ loc'[h] = l /\ \A g \in Hosts \ {h} : loc'[g] = loc[g]
    BY <1>5, <1>6, <1>8, LocSet DEF NetIInv
<1>10. NetTypeOK'
    BY <1>7, <1>9 DEF NetIInv, NetTypeOK
<1>11. HostInv(h)'
    <2>1. \A j \in 1 .. i : step'[j] # NoStep /\ l.steps[j] = step'[j]
        <3> SUFFICES ASSUME NEW j \in 1 .. i PROVE step'[j] # NoStep /\ l.steps[j] = step'[j]
            OBVIOUS
        <3>1. CASE j = i
            BY <1>4, <1>5, <3>1
        <3>2. CASE j # i
            <4>1. j \in 1 .. i - 1 /\ j \in Positions
                BY <1>2, <1>3, <3>2, Numbers
            <4>2. step[j] # NoStep /\ loc[h].steps[j] = step[j]
                BY <1>1, <4>1 DEF HostInv
            <4> QED
                BY <1>4, <1>5, <4>1, <4>2 DEF Grows
        <3> QED
            BY <3>1, <3>2
    <2>2. loc'[h].i - 1 = i
        BY <1>2, <1>5, <1>9
    <2>3. loc[h].replay => Answered'
        BY <1>1 DEF HostInv, Answered
    <2>4. loc'[h].replay => Answered'
        BY <1>5, <1>9, <2>3, Zenon
    <2>5. loc'[h].call # 0 /\ \A j \in loc'[h].vetoes : veto'[j] # 0
        BY <1>1, <1>5, <1>9 DEF HostInv
    <2> QED
        BY <1>7, <1>9, <2>1, <2>2, <2>4, <2>5 DEF HostInv, Delegating
<1>12. RoutesValid'
    BY DEF NetIInv, RoutesValid
<1> QED
    BY <1>7, <1>9, <1>10, <1>11, <1>12, Assemble

\* A host that goes on inside the delegation of its position, with another
\* result or verdict at hand.
LEMMA DelegatingStep ==
    ASSUME NetIInv, NEW h \in Hosts, place[h] \in Delegating,
           NEW label \in Delegating \ {"step"}, Goto(h, label),
           NEW l \in LocalsType, loc' = [loc EXCEPT ![h] = l],
           l.call = loc[h].call, l.i = loc[h].i, l.steps = loc[h].steps, l.decision = loc[h].decision,
           l.vetoes = loc[h].vetoes, ~l.replay,
           label = "freezeStep" => l.res # 0, label = "run" => l.i \notin l.vetoes,
           veto' \in [Positions -> Texts], \A j \in Positions : veto[j] # 0 => veto'[j] = veto[j],
           UNCHANGED <<route, step, calls, returned>>
    PROVE  NetIInv'
<1>1. label \in Labels /\ label \notin {"idle", "freeze"}
    BY DEF Delegating, Labels
<1>2. place' \in [Hosts -> Labels] /\ place'[h] = label /\ \A g \in Hosts \ {h} : place'[g] = place[g]
    BY <1>1, PcSet DEF NetIInv
<1>3. HostInv(h) /\ Len(l.steps) = l.i - 1
    BY DEF NetIInv, NetTypeOK
<1>4. /\ loc' \in [Hosts -> LocalsType] /\ \A g \in Hosts : Len(loc'[g].steps) = loc'[g].i - 1
      /\ loc'[h] = l /\ \A g \in Hosts \ {h} : loc'[g] = loc[g]
    BY <1>3, LocSet DEF NetIInv
<1>5. NetTypeOK'
    BY <1>2, <1>4 DEF NetIInv, NetTypeOK
<1>6. Grows
    BY DEF Grows
<1>7. HostInv(h)'
    <2>1. l.vetoes \subseteq Positions
        BY DEF LocalsType
    <2>2. \A j \in l.vetoes : veto'[j] # 0
        BY <1>3, <2>1 DEF HostInv
    <2>3. /\ l.call # 0 /\ l.i # Final /\ l.decision = route[l.i] /\ l.decision.action = "route"
          /\ \A j \in 1 .. l.i - 1 : step[j] # NoStep /\ l.steps[j] = step[j]
        BY <1>3 DEF HostInv, Delegating
    <2> QED
        BY <1>1, <1>2, <1>4, <2>2, <2>3 DEF HostInv
<1>8. RoutesValid' /\ FrozenInOrder'
    BY DEF NetIInv, RoutesValid, FrozenInOrder
<1> QED
    BY <1>2, <1>4, <1>5, <1>6, <1>7, <1>8, Assemble

\* A host that delegates, and is past the look at the frozen step, replays nothing.
LEMMA NoReplay ==
    ASSUME NetIInv, NEW h \in Hosts, place[h] \in {"veto", "putVeto", "run", "freezeStep"}
    PROVE  ~loc[h].replay /\ place[h] \in Delegating
BY DEF NetIInv, HostInv, Delegating

\* The look for a frozen step.
LEMMA GetStepStep ==
    ASSUME NetIInv, NEW h \in Hosts, GetStep(h)
    PROVE  NetIInv'
<1>1. place[h] = "step" /\ UNCHANGED <<route, veto, step, calls, returned>>
    BY DEF GetStep, journal
<1>2. CASE step[loc[h].i] # NoStep /\ Push(h, step[loc[h].i])
    <2>1. Grows
        BY <1>1 DEF Grows
    <2>2. FrozenInOrder' /\ step' \in [Positions -> Steps] /\ step'[loc[h].i] = step[loc[h].i]
        BY <1>1 DEF NetIInv, NetTypeOK, FrozenInOrder
    <2> QED
        BY <1>1, <1>2, <2>1, <2>2, PushStep
<1>3. CASE step[loc[h].i] = NoStep /\ Goto(h, "veto") /\ UNCHANGED loc
    <2>1. loc[h] \in LocalsType /\ loc' = [loc EXCEPT ![h] = loc[h]]
        BY <1>3 DEF NetIInv, NetTypeOK
    <2>2. ~loc[h].replay
        BY <1>1, <1>3, ReplayFinds
    <2>3. "veto" \in Delegating \ {"step"} /\ place[h] \in Delegating
        BY <1>1 DEF Delegating
    <2>4. veto' \in [Positions -> Texts]
        BY <1>1 DEF NetIInv, NetTypeOK
    <2> QED
        BY <1>1, <1>3, <2>1, <2>2, <2>3, <2>4, DelegatingStep
<1> QED
    BY <1>2, <1>3 DEF GetStep

\* The look for a journaled veto, and the observer's verdict.
LEMMA GetVetoStep ==
    ASSUME NetIInv, NEW h \in Hosts, GetVeto(h)
    PROVE  NetIInv'
<1>1. place[h] = "veto" /\ UNCHANGED <<route, veto, step, calls, returned>>
    BY DEF GetVeto, journal
<1>2. ~loc[h].replay /\ place[h] \in Delegating
    BY <1>1, NoReplay
<1>3. loc[h] \in LocalsType /\ HostInv(h) /\ veto' \in [Positions -> Texts]
    BY <1>1 DEF NetIInv, NetTypeOK
<1>4. loc[h].i \in Positions /\ veto[loc[h].i] \in Texts
    BY <1>2, <1>3, Numbers DEF HostInv, LocalsType, NetIInv, NetTypeOK
<1>5. CASE /\ veto[loc[h].i] # 0 /\ Goto(h, "freezeStep")
           /\ loc' = [loc EXCEPT ![h].vetoed = TRUE, ![h].res = veto[loc[h].i]]
    <2> DEFINE l == [loc[h] EXCEPT !.vetoed = TRUE, !.res = veto[loc[h].i]]
    <2>1. loc' = [loc EXCEPT ![h] = l]
        BY <1>3, <1>5
    <2>2. /\ l \in LocalsType /\ l.call = loc[h].call /\ l.i = loc[h].i /\ l.steps = loc[h].steps
          /\ l.decision = loc[h].decision /\ l.vetoes = loc[h].vetoes /\ l.replay = loc[h].replay
          /\ l.res = veto[loc[h].i]
        BY <1>3, <1>4 DEF LocalsType
    <2> HIDE DEF l
    <2>3. "freezeStep" \in Delegating \ {"step"}
        BY DEF Delegating
    <2>4. ~l.replay
        BY <1>2, <2>2, Zenon
    <2>5. l.res # 0 /\ "freezeStep" # "run"
        BY <1>5, <2>2
    <2> QED
        BY <1>1, <1>2, <1>3, <1>5, <2>1, <2>2, <2>3, <2>4, <2>5, DelegatingStep
<1>6. CASE Goto(h, "putVeto") /\ loc' = [loc EXCEPT ![h].vetoed = TRUE]
    <2> DEFINE l == [loc[h] EXCEPT !.vetoed = TRUE]
    <2>1. loc' = [loc EXCEPT ![h] = l]
        BY <1>6
    <2>2. /\ l \in LocalsType /\ l.call = loc[h].call /\ l.i = loc[h].i /\ l.steps = loc[h].steps
          /\ l.decision = loc[h].decision /\ l.vetoes = loc[h].vetoes /\ l.replay = loc[h].replay
        BY <1>3 DEF LocalsType
    <2> HIDE DEF l
    <2>3. "putVeto" \in Delegating \ {"step"}
        BY DEF Delegating
    <2>4. ~l.replay
        BY <1>2, <2>2, Zenon
    <2>5. "putVeto" # "freezeStep" /\ "putVeto" # "run"
        OBVIOUS
    <2> QED
        BY <1>1, <1>2, <1>3, <1>6, <2>1, <2>2, <2>3, <2>4, <2>5, DelegatingStep
<1>7. CASE veto[loc[h].i] = 0 /\ Goto(h, "run") /\ UNCHANGED loc
    <2>1. loc' = [loc EXCEPT ![h] = loc[h]]
        BY <1>7 DEF NetIInv, NetTypeOK
    <2>2. loc[h].i \notin loc[h].vetoes
        BY <1>3, <1>7 DEF HostInv
    <2>3. "run" \in Delegating \ {"step"} /\ "run" # "freezeStep"
        BY DEF Delegating
    <2> QED
        BY <1>1, <1>2, <1>3, <1>7, <2>1, <2>2, <2>3, DelegatingStep
<1> QED
    BY <1>5, <1>6, <1>7 DEF GetVeto

\* The two steps after which a host has a result of its own.
LEMMA ResultStep ==
    ASSUME NetIInv, NEW h \in Hosts, place[h] \in {"putVeto", "run"},
           loc' = [loc EXCEPT ![h].res = loc[h].call], Goto(h, "freezeStep"),
           veto' \in [Positions -> Texts], \A j \in Positions : veto[j] # 0 => veto'[j] = veto[j],
           UNCHANGED <<route, step, calls, returned>>
    PROVE  NetIInv'
<1> DEFINE l == [loc[h] EXCEPT !.res = loc[h].call]
<1>1. loc[h] \in LocalsType /\ loc[h].call # 0
    BY DEF NetIInv, NetTypeOK, HostInv
<1>2. ~loc[h].replay /\ place[h] \in Delegating
    BY NoReplay
<1>3. loc' = [loc EXCEPT ![h] = l]
    OBVIOUS
<1>4. /\ l \in LocalsType /\ l.call = loc[h].call /\ l.i = loc[h].i /\ l.steps = loc[h].steps
      /\ l.decision = loc[h].decision /\ l.vetoes = loc[h].vetoes /\ l.replay = loc[h].replay
      /\ l.res = loc[h].call
    BY <1>1 DEF LocalsType
<1> HIDE DEF l
<1>5. "freezeStep" \in Delegating \ {"step"} /\ "freezeStep" # "run"
    BY DEF Delegating
<1>6. ~l.replay
    BY <1>2, <1>4, Zenon
<1>7. l.res # 0
    BY <1>1, <1>4
<1> QED
    BY <1>2, <1>3, <1>4, <1>5, <1>6, <1>7, DelegatingStep

\* The claim of the veto.
LEMMA PutVetoStep ==
    ASSUME NetIInv, NEW h \in Hosts, PutVeto(h)
    PROVE  NetIInv'
<1>1. /\ place[h] = "putVeto" /\ Goto(h, "freezeStep") /\ UNCHANGED <<route, step, calls, returned>>
      /\ loc' = [loc EXCEPT ![h].res = loc[h].call]
      /\ veto' = [veto EXCEPT ![loc[h].i] = IF veto[loc[h].i] = 0 THEN loc[h].call ELSE veto[loc[h].i]]
    BY DEF PutVeto
<1>2. loc[h].call \in Texts /\ veto \in [Positions -> Texts]
    BY DEF NetIInv, NetTypeOK, LocalsType
<1>3. veto' \in [Positions -> Texts] /\ \A j \in Positions : veto[j] # 0 => veto'[j] = veto[j]
    BY <1>1, <1>2
<1> QED
    BY <1>1, <1>3, ResultStep

\* The sub-agent's run.
LEMMA DelegateStep ==
    ASSUME NetIInv, NEW h \in Hosts, Delegate(h)
    PROVE  NetIInv'
<1>1. place[h] = "run" /\ UNCHANGED <<route, veto, step, calls, returned>> /\ veto' \in [Positions -> Texts]
    BY DEF Delegate, journal, NetIInv, NetTypeOK
<1>2. CASE loc' = [loc EXCEPT ![h].res = loc[h].call] /\ Goto(h, "freezeStep")
    BY <1>1, <1>2, ResultStep
<1>3. CASE End(h)
    BY <1>1, <1>3, FailStep
<1> QED
    BY <1>2, <1>3 DEF Delegate

\* The claim of the step.
LEMMA FreezeStepStep ==
    ASSUME NetIInv, NEW h \in Hosts, FreezeStep(h)
    PROVE  NetIInv'
<1> DEFINE i == loc[h].i
<1>1. /\ place[h] = "freezeStep" /\ Push(h, step'[i]) /\ UNCHANGED <<route, veto, calls, returned>>
      /\ step' = [step EXCEPT ![i] = IF step[i] = NoStep THEN Result(h) ELSE step[i]]
    BY DEF FreezeStep
<1>2. loc[h] \in LocalsType /\ HostInv(h) /\ step \in [Positions -> Steps]
    BY DEF NetIInv, NetTypeOK
<1>3. /\ i \in 1 .. Final /\ i # Final /\ loc[h].res # 0 /\ loc[h].decision = route[i]
      /\ loc[h].decision.action = "route"
    BY <1>1, <1>2 DEF HostInv, Delegating, LocalsType
<1>4. i \in Positions
    BY <1>3, Numbers
<1>5. Result(h) \in Steps /\ Result(h) # NoStep /\ Result(h).agent = loc[h].decision.agent
    BY <1>2, <1>3 DEF Result, Steps, NoStep, LocalsType, Decisions
<1>6. /\ step' \in [Positions -> Steps] /\ step'[i] # NoStep
      /\ step'[i] = IF step[i] = NoStep THEN Result(h) ELSE step[i]
      /\ \A j \in Positions : j # i => step'[j] = step[j]
    BY <1>1, <1>2, <1>4, <1>5
<1>7. Grows
    BY <1>1, <1>6 DEF Grows
<1>8. FrozenInOrder'
    <2>1. ASSUME NEW j \in 2 .. Final, route'[j] # Undecided PROVE step'[j - 1] # NoStep
        <3>1. step[j - 1] # NoStep
            BY <1>1, <2>1 DEF NetIInv, FrozenInOrder
        <3>2. j - 1 \in Positions
            BY Numbers
        <3> QED
            BY <1>7, <3>1, <3>2 DEF Grows
    <2>2. ASSUME NEW j \in Positions, step'[j] # NoStep PROVE route'[j] = RouteTo(step'[j].agent)
        <3>1. CASE step[j] = NoStep
            <4>1. j = i /\ step'[j] = Result(h)
                BY <1>6, <2>2, <3>1
            <4>2. route[i] = RouteTo(loc[h].decision.agent)
                BY <1>3, Kinds DEF NetIInv, RoutesValid, Valid
            <4> QED
                BY <1>1, <1>5, <4>1, <4>2
        <3>2. CASE step[j] # NoStep
            BY <1>1, <1>7, <3>2 DEF NetIInv, FrozenInOrder, Grows
        <3> QED
            BY <3>1, <3>2
    <2> QED
        BY <2>1, <2>2 DEF FrozenInOrder
<1> QED
    BY <1>1, <1>6, <1>7, <1>8, PushStep

\* An empty journal and idle hosts.
LEMMA NetStart == NetInit => NetIInv
<1> SUFFICES ASSUME NetInit PROVE NetIInv
    OBVIOUS
<1>1. NoLocals \in LocalsType /\ NoLocals.i = 1 /\ NoLocals.steps = <<>> /\ NoLocals.vetoes = {} /\ NoLocals.replay = FALSE
    BY NoneTyped, Numbers DEF NoLocals, Locals, LocalsType
<1>2. NoStep \in Steps
    BY NoneTyped DEF NoStep, Steps
<1>3. NetTypeOK
    <2>1. \A h \in Hosts : loc[h] = NoLocals /\ Len(loc[h].steps) = loc[h].i - 1
        BY <1>1 DEF NetInit
    <2> QED
        BY <1>1, <1>2, <2>1, NoneTyped, NetworkAssumption DEF NetInit, NetTypeOK, Labels
<1>4. \A h \in Hosts : HostInv(h)
    BY <1>1 DEF NetInit, HostInv, Delegating
<1>5. RoutesValid /\ FrozenInOrder /\ ReturnedFrozen
    BY Numbers DEF NetInit, RoutesValid, FrozenInOrder, ReturnedFrozen
<1> QED
    BY <1>3, <1>4, <1>5 DEF NetIInv

\* Every step of a call preserves the invariant.
LEMMA NetStep == NetIInv /\ [NetNext]_netVars => NetIInv'
<1> SUFFICES ASSUME NetIInv, [NetNext]_netVars PROVE NetIInv'
    OBVIOUS
<1>1. CASE UNCHANGED netVars
    <2>1. UNCHANGED <<route, veto, step, place, loc, calls, returned>>
        BY <1>1 DEF netVars, journal
    <2>2. NetTypeOK' /\ RoutesValid' /\ FrozenInOrder'
        BY <2>1 DEF NetIInv, NetTypeOK, RoutesValid, FrozenInOrder
    <2>3. Grows
        BY <2>1 DEF Grows
    <2>4. \A h \in Hosts : HostInv(h)'
        BY <2>1, <2>3, OtherHost DEF NetIInv
    <2>5. \A r \in returned' : Backed(r)'
        BY <2>1, <2>3, AnswerStays DEF NetIInv, ReturnedFrozen
    <2> QED
        BY <2>2, <2>4, <2>5 DEF NetIInv, ReturnedFrozen
<1>2. ASSUME NEW h \in Hosts, Fail(h) PROVE NetIInv'
    BY <1>2, FailStep DEF Fail, journal
<1> QED
    BY <1>1, <1>2, NetCallStep, GetRouteStep, DecideStep, FreezeRouteStep, FallbackStep, GetStepStep,
       GetVetoStep, PutVetoStep, DelegateStep, FreezeStepStep DEF NetNext

\* The invariant holds in every reachable state.
LEMMA NetInvariance == NetSpec => []NetIInv
BY NetStart, NetStep, PTL DEF NetSpec
-----------------------------------------------------------------------------
(* The theorems *)

\* The frozen records are one history in order: every caller has exactly the
\* frozen steps behind it, a decision is frozen after the steps before it, and a
\* step under the decision to delegate to its agent (frozenGet, network.ts).
THEOREM History == NetSpec => []FrozenHistory
<1>1. NetIInv => FrozenHistory
    <2> SUFFICES ASSUME NetIInv PROVE HistoryIsFrozen
        BY DEF NetIInv, FrozenHistory
    <2> SUFFICES ASSUME NEW h \in Hosts, NEW j \in DOMAIN loc[h].steps PROVE loc[h].steps[j] = step[j]
        BY DEF HistoryIsFrozen
    <2>1. loc[h].steps \in Seq(Steps) /\ Len(loc[h].steps) = loc[h].i - 1 /\ HostInv(h)
        BY DEF NetIInv, NetTypeOK, LocalsType
    <2>2. j \in 1 .. loc[h].i - 1
        BY <2>1
    <2> QED
        BY <2>1, <2>2 DEF HostInv
<1> QED
    BY <1>1, NetInvariance, PTL

\* All callers that end on a frozen decision get the same answer from the same
\* steps, whatever raced, failed or crashed ("the same result").
THEOREM Agreement == NetSpec => []AnswersAgree
<1>1. NetIInv => AnswersAgree
    <2> SUFFICES ASSUME NetIInv, NEW r \in returned, NEW s \in returned, r.frozen, s.frozen PROVE r = s
        BY DEF AnswersAgree
    <2>1. PICK k \in 1 .. Final : FrozenAt(r, k)
        BY DEF NetIInv, ReturnedFrozen, Backed
    <2>2. PICK m \in 1 .. Final : FrozenAt(s, m)
        BY DEF NetIInv, ReturnedFrozen, Backed
    <2>3. \A j \in Positions : step[j] # NoStep => route[j].action = "route"
        BY Kinds DEF NetIInv, FrozenInOrder
    <2>4. route[k].action = "final" /\ route[m].action = "final"
        BY <2>1, <2>2, Kinds DEF FrozenAt
    <2>5. ~(k < m)
        <3> SUFFICES ASSUME k < m PROVE FALSE
            OBVIOUS
        <3>1. k \in 1 .. m - 1
            OBVIOUS
        <3> QED
            BY <2>2, <2>3, <2>4, <3>1, Numbers DEF FrozenAt
    <2>6. ~(m < k)
        <3> SUFFICES ASSUME m < k PROVE FALSE
            OBVIOUS
        <3>1. m \in 1 .. k - 1
            OBVIOUS
        <3> QED
            BY <2>1, <2>3, <2>4, <3>1, Numbers DEF FrozenAt
    <2>7. k = m
        BY <2>5, <2>6
    <2>8. /\ r \in [text : Texts, steps : Seq(Steps), frozen : BOOLEAN]
          /\ s \in [text : Texts, steps : Seq(Steps), frozen : BOOLEAN]
        BY DEF NetIInv, NetTypeOK
    <2>9. r.text = s.text
        <3>1. Answer(r.text) = Answer(s.text)
            BY <2>1, <2>2, <2>7 DEF FrozenAt
        <3> QED
            BY <3>1 DEF Answer
    <2>10. r.steps = s.steps
        <3>1. Len(r.steps) = k - 1 /\ Len(s.steps) = k - 1
            BY <2>1, <2>2, <2>7 DEF FrozenAt
        <3>2. \A j \in 1 .. k - 1 : r.steps[j] = s.steps[j]
            BY <2>1, <2>2, <2>7 DEF FrozenAt
        <3>3. r.steps \in Seq(Steps) /\ s.steps \in Seq(Steps)
            BY <2>8
        <3> QED
            BY <3>1, <3>2, <3>3
    <2> QED
        BY <2>8, <2>9, <2>10
<1> QED
    BY <1>1, NetInvariance, PTL

\* A call that begins after a frozen answer was returned asks no router and no
\* sub-agent: it is a pure replay.
THEOREM Replay == NetSpec => []ReplayAsksNobody
<1>1. NetIInv => ReplayAsksNobody
    BY DEF NetIInv, HostInv, ReplayAsksNobody
<1> QED
    BY <1>1, NetInvariance, PTL

\* A veto that was journaled when a call began stands for that call.
THEOREM Vetoes == NetSpec => []VetoStands
<1>1. NetIInv => VetoStands
    BY DEF NetIInv, HostInv, VetoStands
<1> QED
    BY <1>1, NetInvariance, PTL
=============================================================================
