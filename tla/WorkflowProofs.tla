--------------------------- MODULE WorkflowProofs ---------------------------
(***************************************************************************)
(* Proofs about a workflow run, for every workflow, any set of workers and *)
(* any number of calls, crashes and throws.                                *)
(***************************************************************************)
EXTENDS Workflow, TLAPS

Claims == [by : Nat, is : {"none", "live", "released", "failed"}]

\* The places of runResumable: before the body, holding the claim, and the ends.
Judging == {"claim", "done?", "claim?", "recover", "adopt", "landed?"}
Before == {"get", "run"} \cup Judging
Holding == {"landed?", "run", "stamp"}
Closing == {"status", "throw"}
Away == {"idle", "ticket"}
Labels == Before \cup Closing \cup Away \cup {"flag", "write", "stamp"}

Ends == {"suspended", "completed", "canceled"}
LocalsType == [call : Nat, i : Nat, cur : Nat, claim : Claims,
               ended : Ends \cup {"none", "failed"}, at : Nat]

\* The variables have their types.
Types ==
    /\ plan \in Plans /\ calls \in Nat /\ TypeOK
    /\ out \in [1 .. N -> Nat] /\ effects \in [1 .. N -> Nat] /\ claim \in [1 .. N -> Claims]
    /\ canceled \in BOOLEAN
    /\ status.is # "none" => status.at # 0
    /\ pc \in [Workers -> Labels] /\ loc \in [Workers -> LocalsType] /\ late \in [Workers -> Nat]
    /\ \A w \in Workers : loc[w].claim.by <= calls
    /\ \A i \in 1 .. N : claim[i].is = "live" => claim[i].by # 0

\* A call has one worker, and while it has one its claims do not expire.
CallsInv ==
    /\ \A v, w \in Workers : loc[v].call # 0 /\ loc[v].call = loc[w].call => v = w
    /\ \A w \in Workers : loc[w].call \notin expired

\* What a step's claim says of its effect.
StepInv(i) ==
    /\ effects[i] <= 1
    /\ claim[i].is \in {"none", "released"} => effects[i] = 0

\* A call's claims: on steps it has left behind, or on the one it stands at.
ClaimsInv(w) ==
    \A j \in 1 .. N :
       claim[j].by = loc[w].call /\ loc[w].call # 0 =>
          /\ claim[j].is = "live" \/ pc[w] \in Closing
          /\ j < loc[w].i \/ (j = loc[w].i /\ pc[w] \in Holding \cup Closing \cup {"write"})

\* What a worker at a side-effect step knows: whoever holds the claim may run,
\* and what was judged about a claim stands as long as the claim does.
EffectInv(w) ==
    /\ pc[w] \in Holding => claim[loc[w].i] = Mine(w)
    /\ pc[w] \in {"landed?", "run"} => effects[loc[w].i] = 0
    /\ pc[w] = "stamp" /\ loc[w].ended = "suspended" => effects[loc[w].i] = 0
    /\ pc[w] = "adopt" /\ claim[loc[w].i] = loc[w].claim => effects[loc[w].i] = 0

\* What a worker knows at its place in the call.
LocalInv(w) ==
    /\ pc[w] \in Away <=> loc[w].call = 0
    /\ pc[w] \in Away => loc[w].i = 1 /\ loc[w].cur = 0
    /\ pc[w] \in Before \cup {"write", "stamp"} => loc[w].i <= N
    /\ pc[w] \in Judging \cup {"stamp"} => Step(w).effect
    /\ loc[w].i > 1 => out[loc[w].i - 1] # 0 /\ loc[w].cur = out[loc[w].i - 1]
    /\ pc[w] = "status" => loc[w].ended \in Ends
    /\ pc[w] = "stamp" => loc[w].ended \in {"suspended", "failed"}
    /\ pc[w] = "ticket" => loc[w].at \in 1 .. status.at
    /\ late[w] <= 1 /\ (~canceled \/ pc[w] \in Before => late[w] = 0)
    /\ ClaimsInv(w)
    /\ pc[w] \in Before \cup {"stamp"} /\ Step(w).effect => EffectInv(w)

\* No worker keeps the claim of a call that goes on.
ReadsInv == \A v, w \in Workers : loc[v].call # 0 /\ pc[v] \notin Closing => loc[w].claim.by # loc[v].call

\* The inductive invariant.
IInv ==
    /\ Types /\ CallsInv /\ ReadsInv
    /\ \A i \in 1 .. N : plan.steps[i].effect => StepInv(i)
    /\ \A w \in Workers : LocalInv(w)
-----------------------------------------------------------------------------
(* Frames *)

\* The steps of the plan.
LEMMA Steps ==
    ASSUME Types
    PROVE  /\ N \in Nat
           /\ \A i \in 1 .. N : plan.steps[i] \in [effect : BOOLEAN, recover : BOOLEAN, sleeps : BOOLEAN]
<1> DEFINE S == [effect : BOOLEAN, recover : BOOLEAN, sleeps : BOOLEAN]
<1>1. plan \in Plans
    BY DEF Types
<1>2. plan.steps \in Seq(S)
    BY <1>1, WorkflowAssumption
<1> HIDE DEF S
<1>3. Len(plan.steps) \in Nat /\ \A i \in 1 .. Len(plan.steps) : plan.steps[i] \in S
    BY <1>2
<1> QED
    BY <1>3 DEF N, S

\* The empty records.
LEMMA Empty ==
    /\ NoClaim \in Claims /\ NoClaim.by = 0 /\ NoClaim.is = "none" /\ NoLocals \in LocalsType
    /\ NoLocals.call = 0 /\ NoLocals.i = 1 /\ NoLocals.cur = 0 /\ NoLocals.claim = NoClaim
    /\ NoLocals.ended = "none" /\ NoLocals.at = 0
<1>1. NoClaim \in Claims /\ NoClaim.by = 0 /\ NoClaim.is = "none"
    BY DEF NoClaim, Claims
<1> QED
    BY <1>1 DEF NoLocals, LocalsType, Ends

\* What a step of another worker, or of the environment, leaves to worker w: the
\* outputs, the claim it holds, and what it judged about the claim it read.
Keeps(w) ==
    /\ \A i \in 1 .. N : out[i] # 0 => out'[i] = out[i]
    /\ \A i \in 1 .. N : \/ claim'[i] = claim[i]
                         \/ /\ pc[w] \in Holding => claim[i] # Mine(w)
                            /\ claim'[i].by # loc[w].call /\ claim'[i] # loc[w].claim
    /\ \A i \in 1 .. N : plan.steps[i].effect /\ effects'[i] # effects[i] =>
                            /\ pc[w] \in Holding => claim[i] # Mine(w)
                            /\ claim'[i] # loc[w].claim
    /\ status.at <= status'.at /\ (canceled => canceled')
    /\ plan' = plan /\ late'[w] = late[w]

\* A worker in a call is not at its claim in two places.
LEMMA Local ==
    ASSUME Types, NEW w \in Workers
    PROVE  /\ loc[w] \in LocalsType /\ loc[w].call \in Nat /\ loc[w].i \in Nat /\ loc[w].i >= 1 /\ loc[w].i <= N + 1
           /\ loc[w].cur \in Nat /\ loc[w].claim \in Claims /\ loc[w].claim.by \in Nat
           /\ pc[w] \in Labels /\ late[w] \in Nat /\ loc[w].call <= calls /\ loc[w].cur <= calls
           /\ loc[w].claim.by <= calls /\ loc[w].at \in Nat
<1>1. loc[w] \in LocalsType /\ pc[w] \in Labels /\ late[w] \in Nat
    BY DEF Types
<1>2. loc[w].call \in Nat /\ loc[w].i \in Nat /\ loc[w].cur \in Nat /\ loc[w].claim \in Claims /\ loc[w].at \in Nat
    BY <1>1 DEF LocalsType
<1>3. loc[w].claim.by \in Nat
    BY <1>2 DEF Claims
<1> QED
    BY <1>1, <1>2, <1>3, Steps DEF Types, TypeOK

\* A worker that takes no step keeps what it knows.
LEMMA OtherWorker ==
    ASSUME Types, NEW w \in Workers, Keeps(w), LocalInv(w), pc'[w] = pc[w], loc'[w] = loc[w],
           status'.at \in Nat
    PROVE  LocalInv(w)'
<1> DEFINE i == loc[w].i
<1>1. /\ N \in Nat /\ i \in Nat /\ i >= 1 /\ i <= N + 1 /\ N' = N
      /\ Mine(w)' = Mine(w) /\ Step(w)' = Step(w)
    BY Local, Steps DEF Keeps, N, Mine, Step
<1>2. i > 1 => out'[i - 1] # 0 /\ loc[w].cur = out'[i - 1]
    <2> SUFFICES ASSUME i > 1 PROVE out'[i - 1] # 0 /\ loc[w].cur = out'[i - 1]
        OBVIOUS
    <2>1. i - 1 \in 1 .. N
        BY <1>1
    <2> QED
        BY <2>1 DEF LocalInv, Keeps
<1>3. ClaimsInv(w)'
    <2> SUFFICES ASSUME NEW j \in 1 .. N, claim'[j].by = loc[w].call, loc[w].call # 0
                 PROVE  /\ claim'[j].is = "live" \/ pc[w] \in Closing
                        /\ j < i \/ (j = i /\ pc[w] \in Holding \cup Closing \cup {"write"})
        BY <1>1 DEF ClaimsInv
    <2>1. claim'[j] = claim[j]
        BY DEF Keeps
    <2> QED
        BY <2>1 DEF LocalInv, ClaimsInv
<1>4. pc[w] = "ticket" => loc[w].at \in 1 .. status'.at
    <2>1. status.at \in Nat
        BY DEF Types, TypeOK
    <2> QED
        BY <2>1 DEF LocalInv, Keeps
<1>5. late[w] <= 1 /\ (~canceled' \/ pc[w] \in Before => late'[w] = 0) /\ late'[w] = late[w]
    BY DEF LocalInv, Keeps
<1>6. ASSUME pc[w] \in Before \cup {"stamp"}, Step(w).effect PROVE EffectInv(w)'
    <2>1. i \in 1 .. N /\ EffectInv(w) /\ plan.steps[i].effect
        BY <1>1, <1>6 DEF LocalInv, Step
    <2>2. pc[w] \in Holding => claim[i] = Mine(w)
        BY <2>1 DEF EffectInv
    <2>3. pc[w] \in Holding => claim'[i] = Mine(w) /\ effects'[i] = effects[i]
        BY <2>1, <2>2 DEF Keeps
    <2>4. pc[w] = "adopt" /\ claim'[i] = loc[w].claim => claim[i] = loc[w].claim /\ effects'[i] = effects[i]
        BY <2>1 DEF Keeps
    <2> QED
        BY <1>1, <2>1, <2>3, <2>4 DEF EffectInv, Holding
<1> QED
    BY <1>1, <1>2, <1>3, <1>4, <1>5, <1>6 DEF LocalInv

\* Calls stay apart, and nobody keeps the claim of a call that goes on.
LEMMA Pairs ==
    ASSUME IInv, NEW w \in Workers, expired' = expired,
           \/ loc'[w].call \in {0, calls + 1}
           \/ loc'[w].call = loc[w].call /\ pc[w] \notin Closing,
           \A v \in Workers \ {w} : pc'[v] = pc[v] /\ loc'[v] = loc[v],
           loc'[w].claim.by \in Nat, loc'[w].claim.by <= calls,
           \A v \in Workers : loc[v].call # 0 /\ pc[v] \notin Closing => loc'[w].claim.by # loc[v].call
    PROVE  CallsInv' /\ ReadsInv'
<1>1. Types /\ calls \in Nat /\ expired \subseteq 1 .. calls
    BY DEF IInv, Types, TypeOK
<1>2. \A v \in Workers : loc[v].call \in Nat /\ loc[v].call <= calls /\ loc[v].claim.by \in Nat /\ loc[v].claim.by <= calls
    BY <1>1, Local
<1>3. CallsInv'
    <2>1. \A v \in Workers \ {w} : loc'[v].call # 0 => loc'[v].call # loc'[w].call
        BY <1>1, <1>2 DEF IInv, CallsInv
    <2>2. loc'[w].call \notin expired
        BY <1>1, <1>2 DEF IInv, CallsInv
    <2> QED
        BY <2>1, <2>2 DEF IInv, CallsInv
<1>4. ReadsInv'
    <2> SUFFICES ASSUME NEW v \in Workers, NEW u \in Workers, loc'[v].call # 0, pc'[v] \notin Closing
                 PROVE  loc'[u].claim.by # loc'[v].call
        BY DEF ReadsInv
    <2>1. CASE v # w
        BY <2>1 DEF IInv, ReadsInv
    <2>2. CASE v = w /\ loc'[w].call = calls + 1
        <3>1. loc'[u].claim.by \in Nat /\ loc'[u].claim.by <= calls
            BY <1>2
        <3> QED
            BY <1>1, <2>2, <3>1
    <2>3. CASE v = w /\ loc'[w].call = loc[w].call /\ pc[w] \notin Closing
        BY <2>3 DEF IInv, ReadsInv
    <2> QED
        BY <2>1, <2>2, <2>3
<1> QED
    BY <1>3, <1>4

\* The types of what the workers share.
Shared ==
    /\ out \in [1 .. N -> Nat] /\ effects \in [1 .. N -> Nat] /\ claim \in [1 .. N -> Claims]
    /\ \A i \in 1 .. N : out[i] <= calls /\ claim[i].by <= calls /\ (claim[i].is = "live" => claim[i].by # 0)
    /\ canceled \in BOOLEAN /\ calls \in Nat
    /\ status.is \in Ends \cup {"none"} /\ status.at \in Nat /\ (status.is # "none" => status.at # 0)
    /\ tickets \subseteq 1 .. status.at /\ expired \subseteq 1 .. calls

\* They follow from the types of the variables.
LEMMA SharedTypes ==
    ASSUME Types PROVE Shared
<1>1. \A i \in 1 .. N : claim[i] \in [by : 0 .. calls, is : {"none", "live", "released", "failed"}] /\ out[i] \in 0 .. calls
    BY DEF Types, TypeOK
<1>2. \A i \in 1 .. N : claim[i].by <= calls /\ out[i] <= calls
    BY <1>1 DEF Types
<1> QED
    BY <1>2 DEF Types, TypeOK, Shared, Ends

\* A step of worker w keeps the invariant when it keeps the types, what the
\* others know, what the claims say, and what w itself knows.
LEMMA StepOf ==
    ASSUME IInv, NEW w \in Workers, NEW label \in Labels, NEW l \in LocalsType,
           plan' = plan, expired' = expired, calls' \in Nat, calls <= calls', Shared',
           pc' = [pc EXCEPT ![w] = label], loc' = [loc EXCEPT ![w] = l],
           l.call = 0 \/ (l.call = calls + 1 /\ calls' = calls + 1) \/ (l.call = loc[w].call /\ pc[w] \notin Closing),
           l.i >= 1, l.i <= N + 1, l.cur <= calls', l.claim.by <= calls,
           \A v \in Workers : loc[v].call # 0 /\ pc[v] \notin Closing => l.claim.by # loc[v].call,
           late' \in [Workers -> Nat], \A v \in Workers \ {w} : Keeps(v),
           \A i \in 1 .. N : plan.steps[i].effect => StepInv(i)',
           LocalInv(w)'
    PROVE  IInv'
<1>1. Types /\ calls \in Nat /\ N' = N /\ pc \in [Workers -> Labels] /\ loc \in [Workers -> LocalsType]
    BY DEF IInv, Types, N
<1>2. /\ pc' \in [Workers -> Labels] /\ loc' \in [Workers -> LocalsType]
      /\ pc'[w] = label /\ loc'[w] = l
      /\ \A v \in Workers \ {w} : pc'[v] = pc[v] /\ loc'[v] = loc[v]
    BY <1>1
<1>3. l.call \in Nat /\ l.i \in Nat /\ l.cur \in Nat /\ l.claim.by \in Nat /\ N \in Nat
    BY <1>1, Steps DEF LocalsType, Claims
<1>4. \A v \in Workers : loc[v].call \in Nat /\ loc[v].i \in Nat /\ loc[v].cur \in Nat /\ loc[v].claim.by \in Nat
    BY <1>1, Local
<1>5. \A v \in Workers : loc[v].call <= calls /\ loc[v].i >= 1 /\ loc[v].i <= N + 1 /\ loc[v].cur <= calls /\ loc[v].claim.by <= calls
    BY <1>1, Local
<1>6. l.call <= calls'
    BY <1>1, <1>3, <1>4, <1>5
<1>7. \A v \in Workers : /\ loc'[v].call \in 0 .. calls' /\ loc'[v].i \in 1 .. N + 1
                         /\ loc'[v].cur \in 0 .. calls' /\ loc'[v].claim.by <= calls'
    <2> SUFFICES ASSUME NEW v \in Workers
                 PROVE  /\ loc'[v].call \in 0 .. calls' /\ loc'[v].i \in 1 .. N + 1
                        /\ loc'[v].cur \in 0 .. calls' /\ loc'[v].claim.by <= calls'
        OBVIOUS
    <2>1. CASE v = w
        BY <1>1, <1>2, <1>3, <1>6, <2>1
    <2>2. CASE v # w
        BY <1>1, <1>2, <1>3, <1>4, <1>5, <2>2
    <2> QED
        BY <2>1, <2>2
<1>8. \A i \in 1 .. N : /\ out'[i] \in 0 .. calls' /\ effects'[i] \in Nat
                        /\ claim'[i] \in [by : 0 .. calls', is : {"none", "live", "released", "failed"}]
    <2> SUFFICES ASSUME NEW i \in 1 .. N
                 PROVE  /\ out'[i] \in 0 .. calls' /\ effects'[i] \in Nat
                        /\ claim'[i] \in [by : 0 .. calls', is : {"none", "live", "released", "failed"}]
        OBVIOUS
    <2>1. out'[i] \in Nat /\ out'[i] <= calls' /\ effects'[i] \in Nat /\ claim'[i] \in Claims /\ claim'[i].by <= calls'
        BY <1>1 DEF Shared
    <2>2. claim'[i].by \in 0 .. calls'
        BY <2>1 DEF Claims
    <2> QED
        BY <2>1, <2>2 DEF Claims
<1>9. Types'
    <2>1. TypeOK'
        BY <1>1, <1>7, <1>8 DEF TypeOK, Shared, Ends
    <2>2. plan \in Plans
        BY <1>1 DEF Types
    <2> QED
        BY <1>2, <1>7, <2>1, <2>2 DEF Types, Shared
<1>10. CallsInv' /\ ReadsInv'
    BY <1>2, <1>3, Pairs
<1>11. \A v \in Workers : LocalInv(v)'
    <2> SUFFICES ASSUME NEW v \in Workers, v # w PROVE LocalInv(v)'
        OBVIOUS
    <2>1. LocalInv(v) /\ status'.at \in Nat
        BY DEF IInv, Shared
    <2> QED
        BY <1>1, <1>2, <2>1, OtherWorker
<1> QED
    BY <1>1, <1>9, <1>10, <1>11 DEF IInv

\* The same for a step that leaves the journal's steps and the world alone.
LEMMA Reads ==
    ASSUME IInv, NEW w \in Workers, NEW label \in Labels, NEW l \in LocalsType,
           UNCHANGED <<plan, out, claim, canceled, expired, effects, late>>,
           calls' \in Nat, calls <= calls',
           status' = status \/ (status'.is \in Ends /\ status'.at = status.at + 1),
           tickets' \subseteq 1 .. status'.at,
           pc' = [pc EXCEPT ![w] = label], loc' = [loc EXCEPT ![w] = l],
           l.call = 0 \/ (l.call = calls + 1 /\ calls' = calls + 1) \/ (l.call = loc[w].call /\ pc[w] \notin Closing),
           l.i >= 1, l.i <= N + 1, l.cur <= calls', l.claim.by <= calls,
           \A v \in Workers : loc[v].call # 0 /\ pc[v] \notin Closing => l.claim.by # loc[v].call,
           LocalInv(w)'
    PROVE  IInv'
<1>1. Types /\ Shared /\ N' = N /\ late \in [Workers -> Nat]
    BY SharedTypes DEF IInv, Types, N
<1>2. status'.at \in Nat /\ status.at <= status'.at /\ status'.is \in Ends \cup {"none"} /\ (status'.is # "none" => status'.at # 0)
    BY <1>1 DEF Shared
<1>3. Shared'
    <2>1. \A i \in 1 .. N : out[i] \in Nat /\ claim[i].by \in Nat
        BY <1>1 DEF Shared, Claims
    <2>2. \A i \in 1 .. N : out[i] <= calls' /\ claim[i].by <= calls'
        BY <1>1, <2>1 DEF Shared
    <2>3. expired \subseteq 1 .. calls'
        BY <1>1 DEF Shared
    <2> QED
        BY <1>1, <1>2, <2>2, <2>3 DEF Shared
<1>4. \A v \in Workers \ {w} : Keeps(v)
    BY <1>1, <1>2 DEF Keeps
<1>5. \A i \in 1 .. N : plan.steps[i].effect => StepInv(i)'
    BY DEF IInv, StepInv
<1> HIDE DEF LocalInv
<1> QED
    BY <1>1, <1>3, <1>4, <1>5, StepOf
-----------------------------------------------------------------------------
(* What a worker knows after a move *)

\* A call that has ended, and a worker that has returned.
LEMMA Returned ==
    ASSUME IInv, NEW w \in Workers, UNCHANGED <<plan, canceled, late>>, pc'[w] \in Away, loc'[w].call = 0,
           loc'[w].i = 1, loc'[w].cur = 0, pc'[w] = "ticket" => loc'[w].at \in 1 .. status'.at
    PROVE  LocalInv(w)'
<1>1. pc'[w] \notin Before \cup Closing \cup {"write", "stamp"} \cup Judging
    BY DEF Away, Before, Judging, Closing
<1>2. ClaimsInv(w)'
    BY DEF ClaimsInv
<1>3. LocalInv(w) /\ pc'[w] \notin {"status", "stamp"}
    BY <1>1 DEF IInv, Closing
<1> QED
    BY <1>1, <1>2, <1>3 DEF LocalInv

\* A worker at the next step boundary.
LEMMA Advanced ==
    ASSUME IInv, NEW w \in Workers, UNCHANGED <<plan, claim, canceled, late>>, pc[w] \in Before \cup {"write"},
           pc'[w] = "flag", loc'[w].call = loc[w].call, loc'[w].i = loc[w].i + 1,
           out'[loc[w].i] # 0, loc'[w].cur = out'[loc[w].i]
    PROVE  LocalInv(w)'
<1>1. /\ Types /\ N' = N /\ N \in Nat /\ loc[w].i \in 1 .. N /\ LocalInv(w)
      /\ pc[w] \notin Away \cup Closing /\ loc[w].call # 0
    BY Local, Steps DEF IInv, LocalInv, N, Before, Judging, Away, Closing
<1>2. ClaimsInv(w)'
    <2> SUFFICES ASSUME NEW j \in 1 .. N, claim[j].by = loc[w].call
                 PROVE  claim[j].is = "live" /\ j < loc[w].i + 1
        BY <1>1 DEF ClaimsInv
    <2> QED
        BY <1>1 DEF LocalInv, ClaimsInv
<1>3. loc'[w].i - 1 = loc[w].i
    BY <1>1
<1>4. late[w] <= 1 /\ (~canceled => late[w] = 0)
    BY <1>1 DEF LocalInv
<1>5. "flag" \notin Away \cup Before \cup Judging \cup {"status", "ticket", "write", "stamp"}
    BY DEF Away, Before, Judging
<1> QED
    BY <1>1, <1>2, <1>3, <1>4, <1>5 DEF LocalInv

\* A worker that goes on within a step, and what it has to know there.
LEMMA Went ==
    ASSUME IInv, NEW w \in Workers, UNCHANGED <<plan, out, canceled>>,
           loc'[w].call = loc[w].call, loc'[w].i = loc[w].i, loc'[w].cur = loc[w].cur,
           pc[w] \in Before \cup {"flag", "stamp"},
           pc'[w] \in Before \cup Closing \cup {"write", "stamp"},
           pc'[w] \in Before \cup {"write", "stamp"} => loc[w].i <= N,
           pc'[w] \in Judging \cup {"stamp"} => Step(w).effect,
           pc'[w] = "status" => loc'[w].ended \in Ends,
           pc'[w] = "stamp" => loc'[w].ended \in {"suspended", "failed"},
           late'[w] \in 0 .. 1, ~canceled \/ pc'[w] \in Before => late'[w] = 0,
           ClaimsInv(w)',
           pc'[w] \in Before \cup {"stamp"} /\ Step(w).effect => EffectInv(w)'
    PROVE  LocalInv(w)'
<1>1. N' = N /\ Step(w)' = Step(w) /\ LocalInv(w)
    BY DEF N, Step, IInv
<1>2. pc[w] \notin Away /\ pc'[w] \notin Away /\ pc'[w] # "ticket"
    BY DEF Before, Judging, Closing, Away
<1>3. loc[w].call # 0 /\ (loc[w].i > 1 => out[loc[w].i - 1] # 0 /\ loc[w].cur = out[loc[w].i - 1])
    BY <1>1, <1>2 DEF LocalInv
<1>4. loc'[w].i > 1 => out'[loc'[w].i - 1] # 0 /\ loc'[w].cur = out'[loc'[w].i - 1]
    BY <1>3
<1>5. late'[w] <= 1
    OBVIOUS
<1> QED
    BY <1>1, <1>2, <1>3, <1>4, <1>5 DEF LocalInv

\* The claims of a call stay where they are while it goes on within a step.
LEMMA ClaimsStay ==
    ASSUME IInv, NEW w \in Workers, UNCHANGED <<plan, claim>>, loc'[w].call = loc[w].call, loc'[w].i = loc[w].i,
           pc[w] \in Holding => pc'[w] \in Holding \cup Closing \cup {"write"},
           pc[w] \notin Closing \cup {"write"}
    PROVE  ClaimsInv(w)'
<1>1. N' = N /\ ClaimsInv(w)
    BY DEF N, IInv, LocalInv
<1> QED
    BY <1>1 DEF ClaimsInv
-----------------------------------------------------------------------------
(* The steps of runResumable that leave the journal's steps alone *)

\* The call returns, whatever it made of its status.
LEMMA ReturnStep ==
    ASSUME IInv, NEW w \in Workers, Return(w),
           UNCHANGED <<plan, out, claim, canceled, expired, effects, late, calls, tickets>>,
           status' = status \/ (status'.is \in Ends /\ status'.at = status.at + 1)
    PROVE  IInv'
<1>1. /\ "idle" \in Labels \cap Away
      /\ pc' = [pc EXCEPT ![w] = "idle"] /\ loc' = [loc EXCEPT ![w] = NoLocals]
    BY DEF Return, Go, Labels, Away
<1>2. /\ Types /\ calls \in Nat /\ N \in Nat /\ pc'[w] = "idle" /\ loc'[w] = NoLocals
      /\ status.at \in Nat /\ tickets \subseteq 1 .. status.at
    BY <1>1, Steps DEF IInv, Types, TypeOK
<1>3. LocalInv(w)'
    BY <1>1, <1>2, Empty, Returned
<1>4. tickets' \subseteq 1 .. status'.at
    BY <1>2
<1>5. \A v \in Workers : loc[v].call # 0 => NoLocals.claim.by # loc[v].call
    BY Empty
<1>6. NoLocals \in LocalsType /\ NoLocals.call = 0 /\ NoLocals.i = 1 /\ NoLocals.cur = 0 /\ NoLocals.claim.by = 0
    BY Empty
<1>7. 0 <= calls /\ 1 <= N + 1 /\ 1 >= 1 /\ calls <= calls' /\ calls' \in Nat
    BY <1>2
<1> QED
    BY <1>1, <1>3, <1>4, <1>5, <1>6, <1>7, Reads

\* A new call of runResumable, by a host or by a waker.
LEMMA CallStep ==
    ASSUME IInv, NEW w \in Workers, Call(w),
           UNCHANGED <<plan, out, claim, canceled, expired, effects, late, status>>,
           tickets' \subseteq 1 .. status.at
    PROVE  IInv'
<1> DEFINE l == [NoLocals EXCEPT !.call = calls + 1]
<1>1. /\ Types /\ Shared /\ calls \in Nat /\ N \in Nat /\ N' = N /\ LocalInv(w)
      /\ pc \in [Workers -> Labels] /\ loc \in [Workers -> LocalsType]
    BY Steps, SharedTypes DEF IInv, Types, N
<1>2. calls + 1 \in Nat
    BY <1>1
<1>3. /\ l \in LocalsType /\ l.call = calls + 1 /\ l.i = 1 /\ l.cur = 0 /\ l.claim = NoClaim
    BY <1>2, Empty DEF LocalsType, NoLocals
<1>4. pc' = [pc EXCEPT ![w] = "flag"] /\ loc' = [loc EXCEPT ![w] = l] /\ calls' = calls + 1 /\ "flag" \in Labels
    BY DEF Call, Go, Labels
<1> HIDE DEF l
<1>5. pc'[w] = "flag" /\ loc'[w] = l
    BY <1>1, <1>4
<1>6. ClaimsInv(w)'
    <2>1. \A j \in 1 .. N : claim[j].by \in Nat /\ claim[j].by <= calls
        BY <1>1 DEF Shared, Claims
    <2>2. \A j \in 1 .. N : claim[j].by # calls + 1
        BY <1>1, <2>1
    <2> QED
        BY <1>1, <1>3, <1>5, <2>2 DEF ClaimsInv
<1>7. "flag" \notin Away \cup Before \cup Judging \cup {"status", "ticket", "write", "stamp"}
    BY DEF Away, Before, Judging
<1>8. LocalInv(w)'
    <2>1. calls + 1 # 0 /\ ~(1 > 1)
        BY <1>1
    <2>2. late[w] <= 1 /\ (~canceled => late[w] = 0)
        BY <1>1 DEF LocalInv
    <2> QED
        BY <1>3, <1>5, <1>6, <1>7, <2>1, <2>2 DEF LocalInv
<1>9. /\ calls' \in Nat /\ calls <= calls' /\ l.i >= 1 /\ l.i <= N + 1 /\ l.cur <= calls' /\ l.claim.by <= calls
      /\ l.claim.by = 0
    BY <1>1, <1>3, <1>4, Empty
<1>10. \A v \in Workers : loc[v].call # 0 => l.claim.by # loc[v].call
    BY <1>9
<1> QED
    BY <1>3, <1>4, <1>8, <1>9, <1>10, Reads

\* The output is in the journal already.
LEMMA AdvanceStep ==
    ASSUME IInv, NEW w \in Workers, Advance(w, out[loc[w].i]), out[loc[w].i] # 0, pc[w] \in Before,
           UNCHANGED <<plan, out, claim, canceled, expired, effects, late, status, tickets, calls>>
    PROVE  IInv'
<1> DEFINE i == loc[w].i
           l == [NoLocals EXCEPT !.call = loc[w].call, !.i = i + 1, !.cur = out[i]]
<1>1. /\ Types /\ Shared /\ calls \in Nat /\ N \in Nat /\ i \in 1 .. N
      /\ pc \in [Workers -> Labels] /\ loc \in [Workers -> LocalsType]
    <2>1. Types /\ LocalInv(w)
        BY DEF IInv
    <2>2. i <= N
        BY <2>1 DEF LocalInv
    <2> QED
        BY <2>1, <2>2, Steps, Local, SharedTypes DEF Types
<1>2. out[i] \in Nat /\ out[i] <= calls /\ i + 1 \in Nat /\ i + 1 >= 1 /\ i + 1 <= N + 1 /\ loc[w].call \in Nat
    BY <1>1, Local DEF Shared
<1>3. l \in LocalsType /\ l.call = loc[w].call /\ l.i = i + 1 /\ l.cur = out[i] /\ l.claim = NoClaim
    BY <1>2, Empty, ZenonT(60) DEF LocalsType, NoLocals
<1>4. pc' = [pc EXCEPT ![w] = "flag"] /\ loc' = [loc EXCEPT ![w] = l] /\ "flag" \in Labels
    BY DEF Advance, Go, Labels
<1> HIDE DEF l
<1>5. pc'[w] = "flag" /\ loc'[w] = l
    BY <1>1, <1>4
<1>6. LocalInv(w)'
    BY <1>3, <1>5, Advanced
<1>7. l.claim.by = 0 /\ l.claim.by <= calls /\ calls <= calls' /\ calls' \in Nat
    BY <1>1, <1>3, Empty
<1>8. \A v \in Workers : loc[v].call # 0 => l.claim.by # loc[v].call
    BY <1>7
<1>9. pc[w] \notin Closing /\ tickets' \subseteq 1 .. status'.at
    BY <1>1 DEF Before, Judging, Closing, Shared
<1> QED
    BY <1>2, <1>3, <1>4, <1>6, <1>7, <1>8, <1>9, Reads

\* The worker goes on with the same local variables.
LEMMA GoStep ==
    ASSUME IInv, NEW w \in Workers, NEW label \in Labels, Go(w, label), pc[w] \notin Closing,
           UNCHANGED <<plan, out, claim, canceled, expired, effects, late, status, tickets, calls, loc>>,
           LocalInv(w)'
    PROVE  IInv'
<1>1. Types /\ Shared /\ calls \in Nat /\ loc \in [Workers -> LocalsType] /\ loc[w] \in LocalsType
    BY SharedTypes DEF IInv, Types
<1>2. loc' = [loc EXCEPT ![w] = loc[w]] /\ pc' = [pc EXCEPT ![w] = label]
    BY <1>1 DEF Go
<1>3. /\ loc[w].i >= 1 /\ loc[w].i <= N + 1 /\ loc[w].cur <= calls' /\ loc[w].claim.by <= calls
      /\ calls' \in Nat /\ calls <= calls'
    BY <1>1, Local
<1>4. tickets' \subseteq 1 .. status'.at
    BY <1>1 DEF Shared
<1>5. \A v \in Workers : loc[v].call # 0 /\ pc[v] \notin Closing => loc[w].claim.by # loc[v].call
    BY DEF IInv, ReadsInv
<1> QED
    BY <1>1, <1>2, <1>3, <1>4, <1>5, Reads

\* A place within the body of runStep, once its step is a step.
LEMMA Places ==
    /\ Judging \subseteq Before /\ Before \subseteq Labels /\ Closing \subseteq Labels /\ Holding \subseteq Labels
    /\ Before \cap Closing = {} /\ "flag" \notin Before \cup Closing \cup Holding
    /\ Before \cap Holding = {"landed?", "run"}
    /\ {"write", "stamp", "flag", "idle", "ticket"} \subseteq Labels \ (Before \cup Closing)
    /\ Away \cap (Before \cup Closing \cup {"flag", "write", "stamp"}) = {}
BY DEF Judging, Before, Labels, Closing, Holding, Away

\* A worker in a call within its steps.
LEMMA Within ==
    ASSUME IInv, NEW w \in Workers, pc[w] \in Before \cup {"write", "stamp"}
    PROVE  /\ Types /\ Shared /\ N \in Nat /\ loc[w].i \in 1 .. N /\ LocalInv(w) /\ pc[w] \notin Closing
           /\ loc[w].call \in Nat \ {0} /\ loc[w].call <= calls /\ calls \in Nat /\ loc \in [Workers -> LocalsType]
           /\ pc \in [Workers -> Labels] /\ loc[w] \in LocalsType
           /\ plan.steps[loc[w].i] \in [effect : BOOLEAN, recover : BOOLEAN, sleeps : BOOLEAN]
           /\ (Step(w).effect => StepInv(loc[w].i))
<1>1. Types /\ Shared /\ N \in Nat /\ LocalInv(w)
    BY SharedTypes, Steps DEF IInv
<1>2. pc[w] \notin Away \cup Closing /\ loc[w].i <= N
    BY <1>1, Places DEF LocalInv
<1>3. loc[w].i \in 1 .. N /\ loc[w].call # 0
    BY <1>1, <1>2, Local DEF LocalInv
<1> QED
    BY <1>1, <1>2, <1>3, Local, Steps DEF Types, IInv, Step

\* A step boundary ends the call, or sees that the run is not canceled.
LEMMA BoundaryStep ==
    ASSUME IInv, NEW w \in Workers, Boundary(w) PROVE IInv'
<1>1. /\ pc[w] = "flag" /\ Types /\ Shared /\ LocalInv(w) /\ calls \in Nat /\ N \in Nat
      /\ UNCHANGED <<plan, out, claim, canceled, expired, effects, late, status, tickets, calls>>
      /\ pc \in [Workers -> Labels] /\ loc \in [Workers -> LocalsType] /\ loc[w] \in LocalsType
      /\ tickets' \subseteq 1 .. status'.at
    BY SharedTypes, Steps DEF Boundary, journal, IInv, Types, Shared
<1>2. /\ loc[w].i >= 1 /\ loc[w].i <= N + 1 /\ loc[w].cur <= calls /\ loc[w].claim.by <= calls /\ loc[w].i \in Nat
      /\ late[w] \in Nat
    BY <1>1, Local
<1>3. late[w] \in 0 .. 1 /\ (~canceled => late[w] = 0)
    BY <1>1, <1>2 DEF LocalInv
<1>4. ASSUME NEW how \in {"completed", "canceled"}, loc' = [loc EXCEPT ![w].ended = how], Go(w, "status")
      PROVE  IInv'
    <2> DEFINE l == [loc[w] EXCEPT !.ended = how]
    <2>1. /\ l \in LocalsType /\ l.call = loc[w].call /\ l.i = loc[w].i /\ l.cur = loc[w].cur
          /\ l.claim = loc[w].claim /\ l.ended = how
        BY <1>1 DEF LocalsType, Ends
    <2>2. loc' = [loc EXCEPT ![w] = l] /\ pc' = [pc EXCEPT ![w] = "status"] /\ "status" \in Labels
        BY <1>4 DEF Go, Labels, Closing
    <2> HIDE DEF l
    <2>3. loc'[w] = l /\ pc'[w] = "status" /\ how \in Ends
        BY <1>1, <2>2 DEF Ends
    <2>4. ClaimsInv(w)'
        BY <1>1, <2>1, <2>3, Places, ClaimsStay
    <2>5. pc'[w] \in Closing /\ pc'[w] \notin Before \cup Judging \cup {"write", "stamp"}
        BY <2>3, Places DEF Closing
    <2>6. LocalInv(w)'
        BY <1>1, <1>3, <2>1, <2>3, <2>4, <2>5, Went
    <2>7. \A v \in Workers : loc[v].call # 0 /\ pc[v] \notin Closing => l.claim.by # loc[v].call
        BY <2>1 DEF IInv, ReadsInv
    <2>8. pc[w] \notin Closing /\ calls' \in Nat /\ calls <= calls'
        BY <1>1, Places
    <2> QED
        BY <1>1, <1>2, <2>1, <2>2, <2>6, <2>7, <2>8, Reads
<1>5. ASSUME loc[w].i <= N, ~canceled, Go(w, "get"), UNCHANGED loc PROVE IInv'
    <2>1. pc'[w] = "get" /\ "get" \in Before /\ "get" \notin Judging \cup Closing \cup Holding \cup {"write", "stamp"}
        BY <1>1, <1>5 DEF Go, Before, Judging, Closing, Holding
    <2>2. ClaimsInv(w)' /\ EffectInv(w)'
        BY <1>1, <1>5, <2>1, Places, ClaimsStay DEF EffectInv
    <2>3. LocalInv(w)'
        BY <1>1, <1>3, <1>5, <2>1, <2>2, Went DEF Closing
    <2> QED
        BY <1>1, <1>5, <2>1, <2>3, Places, GoStep
<1> QED
    BY <1>4, <1>5 DEF Boundary

\* putStatus mirrors one of the three ends.
LEMMA PutStatusStep ==
    ASSUME IInv, NEW w \in Workers, PutStatus(w) PROVE IInv'
<1>1. loc[w].ended \in Ends
    BY DEF IInv, LocalInv, PutStatus
<1> QED
    BY <1>1, ReturnStep DEF PutStatus

\* runStep goes on to a place before the body, where it knows nothing yet.
LEMMA GoesOn ==
    ASSUME IInv, NEW w \in Workers, pc[w] \in Before, Step(w).effect => pc[w] \notin Holding,
           NEW label \in {"run", "claim", "done?", "claim?", "recover"}, Go(w, label),
           label \in Judging <=> Step(w).effect,
           UNCHANGED <<plan, out, claim, canceled, expired, effects, late, status, tickets, calls, loc>>
    PROVE  IInv'
<1>1. /\ pc'[w] = label /\ loc[w].i \in 1 .. N /\ LocalInv(w) /\ pc[w] \notin Closing /\ Types /\ N \in Nat
      /\ label \in Before /\ "run" \notin Judging /\ label \notin Closing \cup {"write", "stamp"}
    BY Within, Local DEF Go, Before, Judging, Closing
<1>2. Step(w).effect => EffectInv(w)'
    BY <1>1 DEF EffectInv, Holding, Judging
<1>3. pc[w] \in Holding => pc'[w] \in Holding
    BY <1>1 DEF Holding, Judging, LocalInv, Before
<1>4. ClaimsInv(w)'
    BY <1>1, <1>3, ClaimsStay DEF Before, Judging
<1>5. late[w] = 0 /\ loc[w].i <= N
    BY <1>1 DEF LocalInv
<1>6. LocalInv(w)'
    BY <1>1, <1>2, <1>4, <1>5, Went DEF Closing
<1> QED
    BY <1>1, <1>6, Places, GoStep

\* runStep replays the output, or goes to the claim or to the body.
LEMMA GetOutputStep ==
    ASSUME IInv, NEW w \in Workers, GetOutput(w) PROVE IInv'
<1>1. /\ pc[w] = "get" /\ pc[w] \in Before \ Holding
      /\ UNCHANGED <<plan, out, claim, canceled, expired, effects, late, status, tickets, calls>>
    BY DEF GetOutput, journal, Before, Holding
<1>2. CASE out[loc[w].i] # 0 /\ Advance(w, out[loc[w].i])
    BY <1>1, <1>2, AdvanceStep
<1>3. CASE Go(w, IF Step(w).effect THEN "claim" ELSE "run") /\ UNCHANGED loc
    <2>1. Step(w).effect \in BOOLEAN /\ "claim" \in Judging /\ "run" \notin Judging
        BY <1>1, Within DEF Step, Judging
    <2>2. CASE Step(w).effect
        BY <1>1, <1>3, <2>1, <2>2, GoesOn
    <2>3. CASE ~Step(w).effect
        BY <1>1, <1>3, <2>1, <2>3, GoesOn
    <2> QED
        BY <2>2, <2>3
<1> QED
    BY <1>2, <1>3 DEF GetOutput

\* The loser of the claim replays the output, or goes on to judge the claim.
LEMMA GetDoneStep ==
    ASSUME IInv, NEW w \in Workers, GetDone(w) PROVE IInv'
<1>1. /\ pc[w] = "done?" /\ pc[w] \in Before \ Holding /\ Step(w).effect /\ "claim?" \in Judging
      /\ UNCHANGED <<plan, out, claim, canceled, expired, effects, late, status, tickets, calls>>
    BY DEF GetDone, journal, Before, Judging, Holding, IInv, LocalInv
<1>2. CASE out[loc[w].i] # 0 /\ Advance(w, out[loc[w].i])
    BY <1>1, <1>2, AdvanceStep
<1>3. CASE Go(w, "claim?") /\ UNCHANGED loc
    BY <1>1, <1>3, GoesOn
<1> QED
    BY <1>2, <1>3 DEF GetDone

\* The claim as read was not the claim of a call that goes on: those are in flight.
LEMMA Judged ==
    ASSUME IInv, NEW i \in 1 .. N, claim[i].is = "released" \/ ~InFlight(claim[i]),
           NEW v \in Workers, loc[v].call # 0, pc[v] \notin Closing
    PROVE  claim[i].by # loc[v].call
<1> SUFFICES ASSUME claim[i].by = loc[v].call PROVE FALSE
    OBVIOUS
<1>1. claim[i].is = "live"
    BY DEF IInv, LocalInv, ClaimsInv
<1>2. loc[v].call \notin expired
    BY DEF IInv, CallsInv
<1> QED
    BY <1>1, <1>2 DEF InFlight

\* What was read of a claim that may be taken over is of no call that goes on.
LEMMA JudgeStep ==
    ASSUME IInv, NEW w \in Workers, Judge(w) PROVE IInv'
<1> DEFINE i == loc[w].i
           c == claim[i]
<1>1. /\ pc[w] = "claim?" /\ pc[w] \in Before /\ pc[w] \notin Holding \cup Closing \cup {"write"}
      /\ UNCHANGED <<plan, out, claim, canceled, expired, effects, late, status, tickets, calls>>
    BY DEF Judge, journal, Before, Judging, Holding, Closing
<1>2. /\ Types /\ Shared /\ N \in Nat /\ i \in 1 .. N /\ LocalInv(w) /\ calls \in Nat
      /\ loc \in [Workers -> LocalsType] /\ pc \in [Workers -> Labels] /\ loc[w] \in LocalsType
      /\ Step(w).effect /\ StepInv(i)
    BY <1>1, Within DEF LocalInv, Judging
<1>3. ASSUME NEW label \in {"recover", "adopt"}, c.is = "released" \/ ~InFlight(c),
             c.is = "released" \/ label = "recover",
             loc' = [loc EXCEPT ![w].claim = c], Go(w, label)
      PROVE  IInv'
    <2> DEFINE l == [loc[w] EXCEPT !.claim = c]
    <2>1. c \in Claims /\ c.by <= calls
        BY <1>2 DEF Shared
    <2>2. /\ l \in LocalsType /\ l.call = loc[w].call /\ l.i = loc[w].i /\ l.cur = loc[w].cur
          /\ l.claim = c /\ l.ended = loc[w].ended
        BY <1>2, <2>1 DEF LocalsType
    <2>3. loc' = [loc EXCEPT ![w] = l] /\ pc' = [pc EXCEPT ![w] = label]
        BY <1>3 DEF Go
    <2> HIDE DEF l
    <2>4. loc'[w] = l /\ pc'[w] = label /\ label \in Judging /\ label \in Before /\ label \notin Holding \cup {"stamp", "write"} \cup Closing
        BY <1>2, <2>3 DEF Judging, Before, Holding, Closing
    <2>5. ClaimsInv(w)'
        BY <1>1, <2>2, <2>4, ClaimsStay
    <2>6. EffectInv(w)'
        BY <1>1, <1>2, <1>3, <2>2, <2>4 DEF EffectInv, StepInv, Holding
    <2>7. late[w] = 0 /\ i <= N
        BY <1>1, <1>2 DEF LocalInv
    <2>8. LocalInv(w)'
        BY <1>1, <1>2, <2>2, <2>4, <2>5, <2>6, <2>7, Went DEF Closing
    <2>9. \A v \in Workers : loc[v].call # 0 /\ pc[v] \notin Closing => l.claim.by # loc[v].call
        BY <1>2, <1>3, <2>2, Judged
    <2>10. /\ l.i >= 1 /\ l.i <= N + 1 /\ l.cur <= calls' /\ calls' \in Nat /\ calls <= calls' /\ label \in Labels
           /\ tickets' \subseteq 1 .. status'.at
        BY <1>1, <1>2, <2>2, <2>4, Local, Places DEF Shared
    <2> HIDE DEF c
    <2> QED
        BY <1>1, <2>1, <2>2, <2>3, <2>8, <2>9, <2>10, Reads
<1>4. ASSUME Return(w) PROVE IInv'
    BY <1>1, <1>4, ReturnStep
<1> QED
    BY <1>3, <1>4 DEF Judge

\* recover() that finds no effect licenses the takeover of the claim as read.
LEMMA RecoverStep ==
    ASSUME IInv, NEW w \in Workers, Recover(w) PROVE IInv'
<1> DEFINE label == IF effects[loc[w].i] > 0 THEN "write" ELSE "adopt"
<1>1. /\ pc[w] = "recover" /\ pc[w] \in Before /\ pc[w] \notin Holding \cup Closing \cup {"write"} /\ Go(w, label)
      /\ UNCHANGED <<plan, out, claim, canceled, expired, effects, late, status, tickets, calls, loc>>
    BY DEF Recover, journal, Before, Judging, Holding, Closing
<1>2. /\ loc[w].i \in 1 .. N /\ LocalInv(w) /\ Step(w).effect /\ pc \in [Workers -> Labels] /\ Shared /\ Types /\ N \in Nat
    BY <1>1, Within DEF LocalInv, Judging
<1>3. effects[loc[w].i] \in Nat
    BY <1>2 DEF Shared
<1>4. /\ pc'[w] = label /\ label \in Labels
      /\ label = "adopt" => effects[loc[w].i] = 0
      /\ label \in {"write", "adopt"}
    BY <1>1, <1>2, <1>3, Places DEF Go, Judging, Before
<1>5. late[w] = 0 /\ loc[w].i <= N
    BY <1>1, <1>2 DEF LocalInv
<1> HIDE DEF label
<1>6. ClaimsInv(w)'
    BY <1>1, ClaimsStay
<1>7. label \notin Holding \cup Closing \cup {"stamp"} /\ label \in Before \cup {"write"}
    BY <1>4 DEF Holding, Closing, Before, Judging
<1>8. label \in Before => EffectInv(w)'
    BY <1>1, <1>4, <1>7 DEF EffectInv
<1>9. LocalInv(w)'
    BY <1>1, <1>2, <1>4, <1>5, <1>6, <1>7, <1>8, Went DEF Closing
<1> QED
    BY <1>1, <1>4, <1>9, GoStep

\* The adopter that finds no output may run.
LEMMA GetLandedStep ==
    ASSUME IInv, NEW w \in Workers, GetLanded(w) PROVE IInv'
<1>1. /\ pc[w] = "landed?" /\ pc[w] \in Before /\ pc[w] \in Holding /\ pc[w] \notin Closing \cup {"write"}
      /\ UNCHANGED <<plan, out, claim, canceled, expired, effects, late, status, tickets, calls>>
    BY DEF GetLanded, journal, Before, Judging, Holding, Closing
<1>2. CASE out[loc[w].i] # 0 /\ Advance(w, out[loc[w].i])
    BY <1>1, <1>2, AdvanceStep
<1>3. CASE Go(w, "run") /\ UNCHANGED loc
    <2>1. /\ loc[w].i \in 1 .. N /\ LocalInv(w) /\ Step(w).effect /\ pc \in [Workers -> Labels] /\ EffectInv(w)
          /\ Types /\ N \in Nat
        BY <1>1, Within DEF LocalInv, Judging
    <2>2. /\ pc'[w] = "run" /\ "run" \in Labels /\ "run" \in Before /\ "run" \in Holding
          /\ "run" \notin Judging \cup Closing \cup {"stamp", "write"}
        BY <1>3, <2>1 DEF Go, Labels, Before, Holding, Judging, Closing
    <2>3. ClaimsInv(w)'
        BY <1>1, <1>3, <2>2, ClaimsStay
    <2>4. EffectInv(w)'
        BY <1>1, <1>3, <2>1, <2>2 DEF EffectInv, Mine
    <2>5. late[w] = 0 /\ loc[w].i <= N
        BY <1>1, <2>1 DEF LocalInv
    <2>6. LocalInv(w)'
        BY <1>1, <1>3, <2>1, <2>2, <2>3, <2>4, <2>5, Went DEF Closing
    <2> QED
        BY <1>1, <1>3, <2>2, <2>6, GoStep
<1> QED
    BY <1>2, <1>3 DEF GetLanded
-----------------------------------------------------------------------------
(* The steps that write a claim, the output, or the world *)

\* A worker at a side-effect step writes the claim that nobody else holds.
LEMMA ClaimWritten ==
    ASSUME IInv, NEW w \in Workers, pc[w] \in Before \cup {"stamp"}, Step(w).effect,
           NEW c \in Claims, c.by = loc[w].call, c.is # "none", c.is = "released" => effects[loc[w].i] = 0,
           claim' = [claim EXCEPT ![loc[w].i] = c],
           \A v \in Workers \ {w} : pc[v] \in Holding => claim[loc[w].i] # Mine(v),
           NEW label \in Labels, Go(w, label), LocalInv(w)',
           UNCHANGED <<plan, out, canceled, expired, effects, late, status, tickets, calls, loc>>
    PROVE  IInv'
<1> DEFINE i == loc[w].i
<1>1. /\ Types /\ Shared /\ N \in Nat /\ i \in 1 .. N /\ pc[w] \notin Closing /\ calls \in Nat /\ N' = N
      /\ loc \in [Workers -> LocalsType] /\ pc \in [Workers -> Labels] /\ loc[w] \in LocalsType
      /\ StepInv(i) /\ c.by # 0 /\ c.by <= calls /\ late \in [Workers -> Nat]
    BY Within DEF N, Types
<1>2. claim'[i] = c /\ \A j \in 1 .. N : j # i => claim'[j] = claim[j]
    BY <1>1 DEF Shared
<1>3. Shared'
    <2>1. claim' \in [1 .. N -> Claims]
        BY <1>1 DEF Shared
    <2>2. \A j \in 1 .. N : claim'[j].by <= calls /\ (claim'[j].is = "live" => claim'[j].by # 0)
        BY <1>1, <1>2 DEF Shared
    <2> QED
        BY <1>1, <2>1, <2>2 DEF Shared
<1>4. \A v \in Workers \ {w} : Keeps(v)
    <2> SUFFICES ASSUME NEW v \in Workers \ {w} PROVE Keeps(v)
        OBVIOUS
    <2>1. c.by # loc[v].call
        BY <1>1 DEF IInv, CallsInv
    <2>2. c # loc[v].claim
        BY <1>1 DEF IInv, ReadsInv
    <2>3. status.at <= status'.at
        BY <1>1 DEF Shared
    <2> QED
        BY <1>1, <1>2, <2>1, <2>2, <2>3 DEF Keeps
<1>5. \A j \in 1 .. N : plan.steps[j].effect => StepInv(j)'
    BY <1>1, <1>2 DEF IInv, StepInv
<1>6. /\ loc' = [loc EXCEPT ![w] = loc[w]] /\ pc' = [pc EXCEPT ![w] = label]
      /\ loc[w].i >= 1 /\ loc[w].i <= N + 1 /\ loc[w].cur <= calls' /\ loc[w].claim.by <= calls
      /\ calls' \in Nat /\ calls <= calls'
    BY <1>1, Local DEF Go
<1>7. \A v \in Workers : loc[v].call # 0 /\ pc[v] \notin Closing => loc[w].claim.by # loc[v].call
    BY DEF IInv, ReadsInv
<1> QED
    BY <1>1, <1>3, <1>4, <1>5, <1>6, <1>7, StepOf

\* A claim taken or adopted: the worker holds it, and no effect has happened.
LEMMA Taken ==
    ASSUME IInv, NEW w \in Workers, pc[w] \in Judging, NEW label \in {"run", "landed?"}, Go(w, label),
           claim' = [claim EXCEPT ![loc[w].i] = Mine(w)], effects[loc[w].i] = 0,
           UNCHANGED <<plan, out, canceled, expired, effects, late, status, tickets, calls, loc>>,
           \A v \in Workers \ {w} : pc[v] \in Holding => claim[loc[w].i] # Mine(v)
    PROVE  IInv'
<1>1. /\ pc[w] \in Before /\ label \in Before /\ label \in Holding /\ label \in Labels
      /\ label \notin Closing \cup {"write", "stamp", "status", "adopt"}
    BY Places DEF Judging, Before, Holding, Closing
<1>2. /\ Types /\ Shared /\ loc[w].i \in 1 .. N /\ LocalInv(w) /\ Step(w).effect /\ pc \in [Workers -> Labels]
      /\ loc[w].call \in Nat \ {0} /\ N \in Nat /\ N' = N /\ pc[w] \notin Closing
    BY <1>1, Within DEF LocalInv, N
<1>3. Mine(w) \in Claims /\ Mine(w).by = loc[w].call /\ Mine(w).is = "live"
    BY <1>2 DEF Mine, Claims
<1>4. pc'[w] = label /\ claim'[loc[w].i] = Mine(w) /\ \A j \in 1 .. N : j # loc[w].i => claim'[j] = claim[j]
    BY <1>2 DEF Go, Shared
<1>5. ClaimsInv(w)'
    <2> SUFFICES ASSUME NEW j \in 1 .. N, claim'[j].by = loc[w].call
                 PROVE  claim'[j].is = "live" /\ (j < loc[w].i \/ j = loc[w].i)
        BY <1>1, <1>2, <1>4 DEF ClaimsInv
    <2>1. CASE j = loc[w].i
        BY <1>3, <1>4, <2>1
    <2>2. CASE j # loc[w].i
        BY <1>2, <1>4, <2>2 DEF LocalInv, ClaimsInv
    <2> QED
        BY <2>1, <2>2
<1>6. EffectInv(w)'
    BY <1>1, <1>4 DEF EffectInv, Mine
<1>7. late[w] = 0 /\ loc[w].i <= N
    BY <1>1, <1>2 DEF LocalInv
<1>8. LocalInv(w)'
    BY <1>1, <1>2, <1>4, <1>5, <1>6, <1>7, Went DEF Closing
<1> QED
    BY <1>1, <1>2, <1>3, <1>8, ClaimWritten

\* putIfAbsent of the claim.
LEMMA ClaimStep ==
    ASSUME IInv, NEW w \in Workers, Claim(w) PROVE IInv'
<1>1. /\ pc[w] = "claim" /\ pc[w] \in Judging /\ pc[w] \in Before \ Holding /\ "done?" \in Judging
      /\ UNCHANGED <<plan, out, canceled, expired, effects, late, status, tickets, calls, loc>>
    BY DEF Claim, Judging, Before, Holding
<1>2. CASE claim[loc[w].i] = NoClaim /\ claim' = [claim EXCEPT ![loc[w].i] = Mine(w)] /\ Go(w, "run")
    <2>1. Step(w).effect /\ StepInv(loc[w].i)
        BY <1>1, Within DEF LocalInv
    <2>2. effects[loc[w].i] = 0 /\ \A v \in Workers : claim[loc[w].i] # Mine(v)
        BY <1>2, <2>1, Empty DEF StepInv, Mine
    <2> QED
        BY <1>1, <1>2, <2>2, Taken
<1>3. CASE Go(w, "done?") /\ UNCHANGED claim
    <2>1. Step(w).effect
        BY <1>1 DEF IInv, LocalInv
    <2> QED
        BY <1>1, <1>3, <2>1, GoesOn
<1> QED
    BY <1>2, <1>3 DEF Claim

\* putIfMatch of the claim as read.
LEMMA AdoptStep ==
    ASSUME IInv, NEW w \in Workers, Adopt(w) PROVE IInv'
<1>1. /\ pc[w] = "adopt" /\ pc[w] \in Judging /\ pc[w] \in Before
      /\ UNCHANGED <<plan, out, canceled, expired, effects, late, status, tickets, calls>>
    BY DEF Adopt, Judging, Before
<1>2. CASE /\ claim[loc[w].i] = loc[w].claim /\ claim' = [claim EXCEPT ![loc[w].i] = Mine(w)]
           /\ Go(w, "landed?") /\ UNCHANGED loc
    <2>1. Step(w).effect /\ LocalInv(w) /\ EffectInv(w) /\ effects[loc[w].i] = 0
        BY <1>1, <1>2, Within DEF LocalInv, EffectInv
    <2>2. \A v \in Workers : pc[v] \in Holding => claim[loc[w].i] # Mine(v)
        <3> SUFFICES ASSUME NEW v \in Workers, pc[v] \in Holding PROVE loc[w].claim.by # loc[v].call
            BY <1>2 DEF Mine
        <3>1. pc[v] \notin Away \cup Closing
            BY DEF Holding, Away, Closing
        <3> QED
            BY <3>1 DEF IInv, LocalInv, ReadsInv
    <2> QED
        BY <1>1, <1>2, <2>1, <2>2, Taken
<1>3. CASE Return(w) /\ UNCHANGED claim
    BY <1>1, <1>3, ReturnStep
<1> QED
    BY <1>2, <1>3 DEF Adopt

\* The holder stamps its claim: released only when no effect happened.
LEMMA StampStep ==
    ASSUME IInv, NEW w \in Workers, Stamp(w) PROVE IInv'
<1> DEFINE i == loc[w].i
           is == IF loc[w].ended = "suspended" THEN "released" ELSE "failed"
           c == [by |-> loc[w].call, is |-> is]
           label == IF loc[w].ended = "suspended" THEN "status" ELSE "throw"
<1>1. /\ pc[w] = "stamp" /\ Go(w, label)
      /\ UNCHANGED <<plan, out, canceled, expired, effects, late, status, tickets, calls, loc>>
    BY DEF Stamp
<1>2. /\ Types /\ Shared /\ i \in 1 .. N /\ LocalInv(w) /\ pc \in [Workers -> Labels] /\ N \in Nat /\ N' = N
      /\ loc[w].call \in Nat \ {0} /\ Step(w).effect /\ EffectInv(w) /\ late[w] \in Nat
    BY <1>1, Within, Local DEF LocalInv, N
<1>3. claim[i] = Mine(w) /\ (is = "released" => effects[i] = 0)
    BY <1>1, <1>2 DEF EffectInv, Holding
<1>4. claim' = [claim EXCEPT ![i] = c]
    <2>1. claim' = [claim EXCEPT ![i].is = is]
        BY <1>3 DEF Stamp
    <2>2. [claim[i] EXCEPT !.is = is] = c
        BY <1>3 DEF Mine
    <2> QED
        BY <2>1, <2>2
<1>5. c \in Claims /\ c.by = loc[w].call /\ c.is = is /\ is \in {"released", "failed"}
    BY <1>2 DEF Claims
<1>6. /\ pc'[w] = label /\ label \in Closing /\ label \in Labels /\ label \notin Before \cup Judging \cup {"write", "stamp"}
      /\ label = "status" => loc[w].ended \in Ends
    BY <1>1, <1>2, Places DEF Go, Closing, Before, Judging, Ends
<1>7. claim'[i] = c /\ \A j \in 1 .. N : j # i => claim'[j] = claim[j]
    BY <1>2, <1>4 DEF Shared
<1> HIDE DEF c, is, label
<1>8. ClaimsInv(w)'
    <2> SUFFICES ASSUME NEW j \in 1 .. N, claim'[j].by = loc[w].call PROVE j < i \/ j = i
        BY <1>1, <1>2, <1>6 DEF ClaimsInv
    <2>1. CASE j # i
        BY <1>2, <1>7, <2>1 DEF LocalInv, ClaimsInv
    <2> QED
        BY <2>1
<1>9. late[w] \in 0 .. 1 /\ (~canceled => late[w] = 0)
    BY <1>2 DEF LocalInv
<1>10. LocalInv(w)'
    BY <1>1, <1>2, <1>6, <1>8, <1>9, Went
<1>11. \A v \in Workers \ {w} : claim[i] # Mine(v)
    BY <1>2, <1>3 DEF Mine, IInv, CallsInv
<1> QED
    BY <1>1, <1>2, <1>3, <1>4, <1>5, <1>6, <1>10, <1>11, ClaimWritten

\* The body of a step ends, with or without its effect.
LEMMA BodyEnds ==
    ASSUME IInv, NEW w \in Workers, pc[w] = "run",
           NEW label \in {"write", "stamp", "status", "throw"}, Go(w, label),
           NEW l \in LocalsType, loc' = [loc EXCEPT ![w] = l],
           l.call = loc[w].call, l.i = loc[w].i, l.cur = loc[w].cur, l.claim = loc[w].claim,
           label = "status" => l.ended \in Ends,
           label = "stamp" => Step(w).effect /\ l.ended \in {"suspended", "failed"},
           Step(w).effect => label \in {"write", "stamp"},
           effects' = effects \/ (Happen(w) /\ ~(label = "stamp" /\ l.ended = "suspended")),
           late' = [late EXCEPT ![w] = IF canceled THEN @ + 1 ELSE @],
           UNCHANGED <<plan, out, claim, canceled, expired, status, tickets, calls>>
    PROVE  IInv'
<1> DEFINE i == loc[w].i
<1>1. pc[w] \in Before /\ pc[w] \in Holding /\ pc[w] \notin Closing \cup {"write", "stamp"}
    BY DEF Before, Holding, Closing
<1>2. /\ Types /\ Shared /\ N \in Nat /\ i \in 1 .. N /\ LocalInv(w) /\ calls \in Nat /\ N' = N /\ loc[w].call # 0
      /\ loc \in [Workers -> LocalsType] /\ pc \in [Workers -> Labels] /\ late \in [Workers -> Nat] /\ late[w] = 0
      /\ Step(w) = plan.steps[i] /\ (Step(w).effect => StepInv(i))
    BY <1>1, Within DEF N, Types, LocalInv, Step
<1>3. pc'[w] = label /\ loc'[w] = l /\ label \in Labels /\ pc' = [pc EXCEPT ![w] = label]
    BY <1>2 DEF Go, Labels, Closing
<1>4. late' \in [Workers -> Nat] /\ late'[w] \in 0 .. 1 /\ (~canceled => late'[w] = 0) /\ \A v \in Workers \ {w} : late'[v] = late[v]
    BY <1>2
<1>5. \A j \in 1 .. N : j # i => effects'[j] = effects[j]
    BY <1>2 DEF Happen, Shared
<1>6. effects[i] \in Nat /\ (effects'[i] = effects[i] \/ effects'[i] = effects[i] + 1) /\ effects' \in [1 .. N -> Nat]
    <2>1. effects \in [1 .. N -> Nat] /\ effects[i] \in Nat /\ effects[i] + 1 \in Nat
        BY <1>2 DEF Shared
    <2>2. CASE effects' = effects
        BY <2>1, <2>2
    <2>3. CASE effects' = [effects EXCEPT ![i] = effects[i] + 1]
        BY <1>2, <2>1, <2>3
    <2> QED
        BY <2>2, <2>3 DEF Happen
<1>7. Step(w).effect => claim[i] = Mine(w) /\ effects[i] = 0
    BY <1>1, <1>2 DEF LocalInv, EffectInv
<1>8. Shared'
    BY <1>2, <1>6 DEF Shared
<1>9. \A v \in Workers \ {w} : Keeps(v)
    <2> SUFFICES ASSUME NEW v \in Workers \ {w} PROVE Keeps(v)
        OBVIOUS
    <2>1. status.at <= status'.at
        BY <1>2 DEF Shared
    <2>2. ASSUME NEW j \in 1 .. N, plan.steps[j].effect, effects'[j] # effects[j]
          PROVE  claim[j] # Mine(v) /\ claim'[j] # loc[v].claim
        <3>1. j = i /\ claim[j] = Mine(w) /\ claim[j].by = loc[w].call
            BY <1>2, <1>5, <1>7, <2>2 DEF Mine
        <3>2. loc[w].call # loc[v].call /\ loc[v].claim.by # loc[w].call
            BY <1>1, <1>2 DEF IInv, CallsInv, ReadsInv
        <3> QED
            BY <3>1, <3>2 DEF Mine
    <2> QED
        BY <1>4, <2>1, <2>2 DEF Keeps
<1>10. \A j \in 1 .. N : plan.steps[j].effect => StepInv(j)'
    <2> SUFFICES ASSUME NEW j \in 1 .. N, plan.steps[j].effect PROVE StepInv(j)'
        OBVIOUS
    <2>1. CASE j # i
        BY <1>5, <2>1 DEF IInv, StepInv
    <2>2. CASE j = i
        <3>1. claim[i].is = "live" /\ claim[i].by # 0 /\ effects'[i] <= 1
            BY <1>2, <1>6, <1>7, <2>2 DEF Mine
        <3> QED
            BY <2>2, <3>1 DEF StepInv
    <2> QED
        BY <2>1, <2>2
<1>11. LocalInv(w)'
    <2>1. ClaimsInv(w)'
        BY <1>1, <1>3, ClaimsStay DEF Holding, Closing, LocalInv, IInv
    <2>2. label = "stamp" => EffectInv(w)'
        BY <1>2, <1>3, <1>7 DEF EffectInv, Holding, Mine
    <2>3. label \notin Before \cup Judging /\ label \in Closing \cup {"write", "stamp"} /\ i <= N
        BY <1>2 DEF Before, Judging, Closing
    <2> QED
        BY <1>1, <1>2, <1>3, <1>4, <2>1, <2>2, <2>3, Went
<1>12. /\ l.i >= 1 /\ l.i <= N + 1 /\ l.cur <= calls' /\ l.claim.by <= calls /\ calls' \in Nat /\ calls <= calls'
    BY <1>2, Local
<1>13. \A v \in Workers : loc[v].call # 0 /\ pc[v] \notin Closing => l.claim.by # loc[v].call
    BY DEF IInv, ReadsInv
<1> QED
    BY <1>1, <1>2, <1>3, <1>4, <1>8, <1>9, <1>10, <1>11, <1>12, <1>13, StepOf, ZenonT(60)

\* The body runs with the claim in hand.
LEMMA RunStep ==
    ASSUME IInv, NEW w \in Workers, Run(w) PROVE IInv'
<1>1. /\ pc[w] = "run" /\ pc[w] \in Before
      /\ late' = [late EXCEPT ![w] = IF canceled THEN @ + 1 ELSE @]
      /\ UNCHANGED <<plan, out, claim, canceled, expired, status, tickets, calls>>
    BY DEF Run, journal, Before
<1>2. /\ loc \in [Workers -> LocalsType] /\ loc[w] \in LocalsType /\ Step(w).effect \in BOOLEAN
    BY <1>1, Within DEF Step
<1>3. ASSUME NEW how \in {"suspended", "failed"}, Ended(w, how), effects' = effects \/ (Happen(w) /\ how = "failed")
      PROVE  IInv'
    <2> DEFINE l == [loc[w] EXCEPT !.ended = how]
               label == IF Step(w).effect THEN "stamp" ELSE IF how = "suspended" THEN "status" ELSE "throw"
    <2>1. /\ l \in LocalsType /\ l.call = loc[w].call /\ l.i = loc[w].i /\ l.cur = loc[w].cur
          /\ l.claim = loc[w].claim /\ l.ended = how
        BY <1>2 DEF LocalsType, Ends
    <2>2. loc' = [loc EXCEPT ![w] = l] /\ Go(w, label)
        BY <1>3 DEF Ended
    <2>3. /\ label \in {"stamp", "status", "throw"}
          /\ label = "status" => how \in Ends
          /\ label = "stamp" => Step(w).effect
          /\ Step(w).effect => label = "stamp"
        BY <1>2 DEF Ends
    <2> HIDE DEF l, label
    <2> QED
        BY <1>1, <1>3, <2>1, <2>2, <2>3, BodyEnds
<1>4. ASSUME Happen(w), Go(w, "write"), UNCHANGED loc PROVE IInv'
    <2>1. loc' = [loc EXCEPT ![w] = loc[w]]
        BY <1>2, <1>4
    <2> QED
        BY <1>1, <1>2, <1>4, <2>1, BodyEnds
<1> QED
    BY <1>3, <1>4 DEF Run

\* putIfAbsent of the output.
LEMMA WriteStep ==
    ASSUME IInv, NEW w \in Workers, Write(w) PROVE IInv'
<1> DEFINE i == loc[w].i
           value == out'[i]
           l == [NoLocals EXCEPT !.call = loc[w].call, !.i = i + 1, !.cur = value]
<1>1. /\ pc[w] = "write" /\ pc[w] \notin Closing /\ Advance(w, value)
      /\ UNCHANGED <<plan, claim, canceled, expired, effects, late, status, tickets, calls>>
    BY DEF Write, Closing
<1>2. /\ Types /\ Shared /\ N \in Nat /\ i \in 1 .. N /\ calls \in Nat /\ N' = N /\ loc[w].call \in Nat \ {0}
      /\ loc[w].call <= calls /\ late \in [Workers -> Nat]
      /\ loc \in [Workers -> LocalsType] /\ pc \in [Workers -> Labels]
    BY <1>1, Within DEF N, Types
<1>3. /\ out' \in [1 .. N -> Nat] /\ value # 0 /\ \A j \in 1 .. N : out'[j] <= calls /\ (out[j] # 0 => out'[j] = out[j])
    BY <1>2 DEF Write, Shared
<1>4. value \in Nat /\ value <= calls /\ i + 1 \in Nat /\ i + 1 >= 1 /\ i + 1 <= N + 1
    BY <1>2, <1>3
<1>5. Shared'
    BY <1>1, <1>2, <1>3 DEF Shared
<1> HIDE DEF value
<1>6. l \in LocalsType /\ l.call = loc[w].call /\ l.i = i + 1 /\ l.cur = value /\ l.claim = NoClaim
    BY <1>2, <1>4, Empty, ZenonT(60) DEF LocalsType, NoLocals
<1>7. pc' = [pc EXCEPT ![w] = "flag"] /\ loc' = [loc EXCEPT ![w] = l] /\ "flag" \in Labels
    BY <1>1 DEF Advance, Go, Labels
<1> HIDE DEF l
<1>8. pc'[w] = "flag" /\ loc'[w] = l
    BY <1>2, <1>7
<1>9. LocalInv(w)'
    BY <1>1, <1>3, <1>6, <1>8, Advanced DEF value
<1>10. \A v \in Workers \ {w} : Keeps(v)
    <2>1. status.at <= status'.at
        BY <1>1, <1>2 DEF Shared
    <2> QED
        BY <1>1, <1>2, <1>3, <2>1 DEF Keeps
<1>11. \A j \in 1 .. N : plan.steps[j].effect => StepInv(j)'
    BY <1>1 DEF IInv, StepInv
<1>12. /\ l.claim.by = 0 /\ l.claim.by <= calls /\ calls <= calls' /\ calls' \in Nat /\ late' \in [Workers -> Nat]
    BY <1>1, <1>2, <1>6, Empty
<1>13. \A v \in Workers : loc[v].call # 0 => l.claim.by # loc[v].call
    BY <1>12
<1> QED
    BY <1>1, <1>4, <1>5, <1>6, <1>7, <1>9, <1>10, <1>11, <1>12, <1>13, StepOf
-----------------------------------------------------------------------------
(* The waker, the cancellation and the environment *)

\* A host calls the run.
LEMMA StartStep ==
    ASSUME IInv, NEW w \in Workers, Start(w) PROVE IInv'
<1>1. tickets \subseteq 1 .. status.at
    BY SharedTypes DEF IInv, Shared
<1> QED
    BY <1>1, CallStep DEF Start, journal

\* The waker lists the run.
LEMMA ListedStep ==
    ASSUME IInv, NEW w \in Workers, Listed(w) PROVE IInv'
<1> DEFINE l == [loc[w] EXCEPT !.at = status.at]
<1>1. /\ Types /\ Shared /\ LocalInv(w) /\ pc[w] = "idle" /\ pc[w] \in Away /\ pc[w] \notin Closing
      /\ UNCHANGED <<plan, out, claim, canceled, expired, effects, late, status, tickets, calls>>
      /\ loc \in [Workers -> LocalsType] /\ pc \in [Workers -> Labels] /\ loc[w] \in LocalsType /\ calls \in Nat
      /\ status.at \in Nat /\ status.at # 0 /\ tickets \subseteq 1 .. status.at
    BY SharedTypes DEF Listed, journal, IInv, Types, Shared, Away, Closing
<1>2. /\ l \in LocalsType /\ l.call = loc[w].call /\ l.i = loc[w].i /\ l.cur = loc[w].cur
      /\ l.claim = loc[w].claim /\ l.at = status.at
    BY <1>1 DEF LocalsType
<1>3. loc' = [loc EXCEPT ![w] = l] /\ pc' = [pc EXCEPT ![w] = "ticket"] /\ "ticket" \in Labels \cap Away
    BY DEF Listed, Go, Labels, Away
<1> HIDE DEF l
<1>4. loc'[w] = l /\ pc'[w] = "ticket" /\ status.at \in 1 .. status.at
    BY <1>1, <1>3
<1>5. LocalInv(w)'
    BY <1>1, <1>2, <1>3, <1>4, Returned DEF LocalInv
<1>6. /\ l.i >= 1 /\ l.i <= N + 1 /\ l.cur <= calls' /\ l.claim.by <= calls /\ calls' \in Nat /\ calls <= calls'
    BY <1>1, <1>2, Local
<1>7. \A v \in Workers : loc[v].call # 0 /\ pc[v] \notin Closing => l.claim.by # loc[v].call
    BY <1>2 DEF IInv, ReadsInv
<1> QED
    BY <1>1, <1>2, <1>3, <1>5, <1>6, <1>7, Reads

\* The waker claims the ticket and resumes, or leaves it to another.
LEMMA TicketStep ==
    ASSUME IInv, NEW w \in Workers, Ticket(w) PROVE IInv'
<1>1. Shared /\ LocalInv(w)
    BY SharedTypes DEF IInv
<1>2. loc[w].at \in 1 .. status.at /\ tickets \subseteq 1 .. status.at
    BY <1>1 DEF Ticket, LocalInv, Shared
<1> QED
    BY <1>2, CallStep, ReturnStep DEF Ticket

\* A step that no worker takes.
LEMMA Environment ==
    ASSUME IInv, Shared', UNCHANGED <<plan, out, claim, effects, pc, loc, calls, late>>,
           status.at <= status'.at, canceled => canceled',
           \A w \in Workers : loc[w].call \notin expired'
    PROVE  IInv'
<1>1. Types /\ N' = N /\ Shared
    BY SharedTypes DEF IInv, N
<1>2. Types'
    <2>1. TypeOK'
        BY <1>1 DEF Types, TypeOK, Shared, Ends
    <2> QED
        BY <1>1, <2>1 DEF Types, Shared
<1>3. CallsInv' /\ ReadsInv'
    BY DEF IInv, CallsInv, ReadsInv
<1>4. \A w \in Workers : LocalInv(w)'
    <2> SUFFICES ASSUME NEW w \in Workers PROVE LocalInv(w)'
        OBVIOUS
    <2>1. Keeps(w) /\ LocalInv(w) /\ status'.at \in Nat
        BY DEF Keeps, IInv, Shared
    <2> QED
        BY <1>1, <2>1, OtherWorker
<1>5. \A i \in 1 .. N : plan.steps[i].effect => StepInv(i)'
    BY DEF IInv, StepInv
<1> QED
    BY <1>1, <1>2, <1>3, <1>4, <1>5 DEF IInv

\* Cancellation, and the end of the sleep.
LEMMA CancelStep ==
    ASSUME IInv, CancelRead \/ CancelFlag \/ CancelStatus \/ TimeUp PROVE IInv'
<1>1. Shared /\ \A w \in Workers : loc[w].call \notin expired
    BY SharedTypes DEF IInv, CallsInv
<1>2. /\ UNCHANGED <<plan, out, claim, effects, pc, loc, calls, late, expired, tickets>>
      /\ canceled' \in BOOLEAN /\ (canceled => canceled')
      /\ status' = status \/ (status'.is = "canceled" /\ status'.at = status.at + 1)
    <2>1. CASE CancelRead \/ TimeUp
        BY <1>1, <2>1 DEF CancelRead, TimeUp, journal, Shared
    <2>2. CASE CancelFlag
        BY <2>2 DEF CancelFlag
    <2>3. CASE CancelStatus
        BY <1>1, <2>3 DEF CancelStatus, Shared
    <2> QED
        BY <2>1, <2>2, <2>3
<1>3. status.at \in Nat /\ status'.at \in Nat /\ status.at <= status'.at
    BY <1>1, <1>2 DEF Shared
<1>4. status'.is \in Ends \cup {"none"} /\ (status'.is # "none" => status'.at # 0)
    BY <1>1, <1>2, <1>3 DEF Shared, Ends
<1>5. tickets' \subseteq 1 .. status'.at /\ N' = N
    BY <1>1, <1>2, <1>3 DEF Shared, N
<1>6. Shared'
    BY <1>1, <1>2, <1>3, <1>4, <1>5 DEF Shared
<1> QED
    BY <1>1, <1>2, <1>3, <1>6, Environment

\* Only claims of calls that are gone expire.
LEMMA ExpireStep ==
    ASSUME IInv, NEW i \in 1 .. N, Expire(i) PROVE IInv'
<1>1. /\ Types /\ Shared /\ claim[i] \in Claims /\ claim[i].by <= calls /\ calls \in Nat /\ N' = N
      /\ UNCHANGED <<plan, out, claim, canceled, status, tickets, effects, pc, loc, calls, late>>
    BY SharedTypes DEF IInv, Expire, journal, Shared, N
<1>2. claim[i].by \in Nat /\ claim[i].by # 0
    BY <1>1 DEF Claims, Expire, Shared
<1>3. claim[i].by \in 1 .. calls
    BY <1>1, <1>2
<1>4. expired' \subseteq 1 .. calls'
    BY <1>1, <1>3 DEF Shared, Expire
<1>5. Shared' /\ status.at <= status'.at
    BY <1>1, <1>4 DEF Shared
<1>6. \A w \in Workers : loc[w].call \notin expired'
    BY DEF IInv, CallsInv, Expire
<1> QED
    BY <1>1, <1>5, <1>6, Environment
-----------------------------------------------------------------------------
(* The theorems *)

\* The inductive invariant holds initially.
LEMMA InitIInv == Init => IInv
<1> SUFFICES ASSUME Init PROVE IInv
    OBVIOUS
<1> DEFINE S == [effect : BOOLEAN, recover : BOOLEAN, sleeps : BOOLEAN]
<1>1. plan \in Plans /\ N \in Nat
    <2>1. plan \in Plans
        BY DEF Init
    <2>2. plan.steps \in Seq(S)
        BY <2>1, WorkflowAssumption
    <2> HIDE DEF S
    <2> QED
        BY <2>1, <2>2 DEF N
<1>2. /\ out = [i \in 1 .. N |-> 0] /\ effects = [i \in 1 .. N |-> 0] /\ claim = [i \in 1 .. N |-> NoClaim]
      /\ expired = {} /\ tickets = {} /\ canceled = FALSE
      /\ status.is = "none" /\ status.at = 0 /\ calls = 0
      /\ late = [w \in Workers |-> 0] /\ pc = [w \in Workers |-> "idle"] /\ loc = [w \in Workers |-> NoLocals]
    BY DEF Init
<1>3. \A w \in Workers : pc[w] = "idle" /\ loc[w] = NoLocals /\ late[w] = 0
    BY <1>2
<1>4. \A w \in Workers : loc[w].call = 0 /\ loc[w].i = 1 /\ loc[w].cur = 0 /\ loc[w].claim.by = 0
    BY <1>3, Empty
<1>5. \A i \in 1 .. N : out[i] = 0 /\ effects[i] = 0 /\ claim[i] = NoClaim
    BY <1>2
<1>6. \A i \in 1 .. N : claim[i].by = 0 /\ claim[i].is = "none" /\ claim[i] \in [by : 0 .. calls, is : {"none", "live", "released", "failed"}]
    BY <1>2, <1>5, Empty DEF NoClaim
<1>7. TypeOK
    <2>1. \A w \in Workers : loc[w].call \in 0 .. calls /\ loc[w].i \in 1 .. N + 1 /\ loc[w].cur \in 0 .. calls
        BY <1>1, <1>2, <1>4
    <2> QED
        BY <1>2, <1>5, <1>6, <2>1 DEF TypeOK
<1>8. Types
    <2>1. "idle" \in Labels
        BY Places
    <2>2. out \in [1 .. N -> Nat] /\ effects \in [1 .. N -> Nat] /\ claim \in [1 .. N -> Claims]
        BY <1>2, Empty
    <2>3. pc \in [Workers -> Labels] /\ loc \in [Workers -> LocalsType] /\ late \in [Workers -> Nat]
        BY <1>2, <2>1, Empty
    <2>4. calls \in Nat /\ \A w \in Workers : loc[w].claim.by <= calls
        BY <1>2, <1>4
    <2>5. canceled \in BOOLEAN /\ ~(status.is # "none") /\ \A i \in 1 .. N : claim[i].is # "live"
        BY <1>2, <1>6
    <2> QED
        BY <1>1, <1>7, <2>2, <2>3, <2>4, <2>5 DEF Types
<1>9. CallsInv /\ ReadsInv
    BY <1>2, <1>4 DEF CallsInv, ReadsInv
<1>10. \A i \in 1 .. N : StepInv(i)
    BY <1>5 DEF StepInv
<1>11. \A w \in Workers : LocalInv(w)
    <2> SUFFICES ASSUME NEW w \in Workers PROVE LocalInv(w)
        OBVIOUS
    <2>1. "idle" \in Away /\ "idle" \notin Before \cup Judging \cup {"write", "stamp", "status", "ticket"}
        BY DEF Away, Before, Judging
    <2>2. ClaimsInv(w)
        BY <1>4 DEF ClaimsInv
    <2>3. ~(1 > 1) /\ 0 <= 1
        OBVIOUS
    <2> QED
        BY <1>3, <1>4, <2>1, <2>2, <2>3 DEF LocalInv
<1> QED
    BY <1>8, <1>9, <1>10, <1>11 DEF IInv

\* Every step keeps it.
LEMMA Inductive == IInv /\ [Next]_vars => IInv'
<1> SUFFICES ASSUME IInv, [Next]_vars PROVE IInv'
    OBVIOUS
<1>1. ASSUME NEW w \in Workers, Start(w) \/ RunResumable(w) \/ Wake(w) \/ Crash(w) PROVE IInv'
    <2>1. CASE Start(w)
        BY <2>1, StartStep
    <2>2. CASE RunResumable(w)
        <3>1. ASSUME Boundary(w) \/ PutStatus(w) \/ GetOutput(w) PROVE IInv'
            BY <3>1, BoundaryStep, PutStatusStep, GetOutputStep
        <3>2. ASSUME Claim(w) \/ GetDone(w) \/ Judge(w) \/ Recover(w) \/ Adopt(w) \/ GetLanded(w) PROVE IInv'
            BY <3>2, ClaimStep, GetDoneStep, JudgeStep, RecoverStep, AdoptStep, GetLandedStep
        <3>3. ASSUME Run(w) \/ Write(w) \/ Stamp(w) PROVE IInv'
            BY <3>3, RunStep, WriteStep, StampStep
        <3>4. ASSUME Throw(w) PROVE IInv'
            BY <3>4, ReturnStep DEF Throw, journal
        <3> QED
            BY <2>2, <3>1, <3>2, <3>3, <3>4 DEF RunResumable
    <2>3. CASE Wake(w)
        BY <2>3, ListedStep, TicketStep DEF Wake
    <2>4. CASE Crash(w)
        BY <2>4, ReturnStep DEF Crash, journal
    <2> QED
        BY <1>1, <2>1, <2>2, <2>3, <2>4
<1>2. ASSUME CancelRead \/ CancelFlag \/ CancelStatus \/ TimeUp PROVE IInv'
    BY <1>2, CancelStep
<1>3. ASSUME NEW i \in 1 .. N, Expire(i) PROVE IInv'
    BY <1>3, ExpireStep
<1>4. CASE UNCHANGED vars
    <2>1. UNCHANGED <<plan, out, claim, effects, pc, loc, calls, late, canceled, status, tickets, expired>>
        BY <1>4 DEF vars, journal
    <2>2. Shared /\ \A w \in Workers : loc[w].call \notin expired
        BY SharedTypes DEF IInv, CallsInv
    <2>3. Shared' /\ status.at <= status'.at
        BY <2>1, <2>2 DEF Shared, N
    <2> QED
        BY <2>1, <2>2, <2>3, Environment
<1> QED
    BY <1>1, <1>2, <1>3, <1>4 DEF Next

\* The inductive invariant holds in every state of every run: a call's claims lie on
\* the steps it has passed or on the one it stands at, no worker keeps what it read of
\* a claim whose call goes on, and the holder of a claim may still run the effect.
THEOREM Invariance == Spec => []IInv
<1> QED
    BY InitIInv, Inductive, PTL DEF Spec

\* runSideEffectStep: for every workflow, any number of workers, calls, crashes and
\* throws, and however the run is suspended, resumed, adopted and recovered, the
\* side effect of a step happens at most once.
THEOREM EffectOnce == Spec => []EffectAtMostOnce
<1>1. IInv => EffectAtMostOnce
    BY DEF IInv, StepInv, EffectAtMostOnce
<1> QED
    BY <1>1, Invariance, PTL

\* runResumable: every worker goes on with the journaled output of the step before
\* (putIfAbsent decides the race), and after a cancel a worker runs at most the body
\* it was about to run.
THEOREM RunHolds == Spec => []RunInv
<1>1. ASSUME IInv PROVE RunInv
    <2>1. Types /\ \A w \in Workers : LocalInv(w)
        BY <1>1 DEF IInv
    <2>2. TypeOK /\ \A w \in Workers : late[w] <= 1
        BY <2>1 DEF Types, LocalInv
    <2>3. ReplayAgrees
        BY <2>1 DEF LocalInv, ReplayAgrees
    <2> QED
        BY <2>2, <2>3 DEF RunInv, CancelReaches
<1> QED
    BY <1>1, Invariance, PTL
=============================================================================
