------------------------------ MODULE Network ------------------------------
(***************************************************************************)
(* One run of the agent network (packages/durable/src/network.ts), which   *)
(* several hosts may call with the same runId, at once or one after the    *)
(* other: the router's decision, the delegation veto and the sub-agent's   *)
(* result are frozen in the journal by claims, position by position, and   *)
(* a later call replays them.                                              *)
(*                                                                         *)
(* A text is the number of the call that obtained it.  The router and the  *)
(* sub-agents are external: they may answer anything, suspend, or fail,    *)
(* and a failure or a crash ends the call at any of its awaits.            *)
(***************************************************************************)
EXTENDS Naturals, Sequences, FiniteSets

CONSTANTS Hosts,           \* processes that call runNetwork for this runId
          Agents,          \* sub-agents that some host has registered
          MaxIterations,   \* opts.maxIterations
          MaxCalls         \* bound: the calls of runNetwork

ASSUME NetworkAssumption ==
    IsFiniteSet(Hosts) /\ IsFiniteSet(Agents) /\ MaxIterations \in Nat \ {0} /\ MaxCalls \in Nat

VARIABLES route,      \* `net:route:<i>`; the last position is `net:route:final`
          veto,       \* `net:veto:<i>`: the replaced text, 0 if none
          step,       \* `net:step:<i>`
          place, loc,    \* a host's place in its call, and its local variables
          calls,
          returned    \* history: the answers returned to callers

journal == <<route, veto, step>>
netVars == <<journal, place, loc, calls, returned>>
-----------------------------------------------------------------------------
Final == MaxIterations + 1
Positions == 1 .. MaxIterations

Undecided == [action |-> "none", agent |-> "none", text |-> 0]
RouteTo(a) == [action |-> "route", agent |-> a, text |-> 0]
Answer(text) == [action |-> "final", agent |-> "none", text |-> text]
NoStep == [agent |-> "none", text |-> 0]

\* opts.agents, the loop counter, the steps so far, the decision and the result
\* at hand, whether the observer vetoed; history: what the journal held when the
\* call began (the vetoes, and whether a frozen answer had been returned)
Locals(call, agents, i, steps, vetoes, replay) ==
    [call |-> call, agents |-> agents, i |-> i, steps |-> steps, decision |-> Undecided,
     res |-> 0, vetoed |-> FALSE, vetoes |-> vetoes, replay |-> replay]

NoLocals == Locals(0, {}, 1, <<>>, {}, FALSE)

NetInit ==
    /\ route = [i \in 1 .. Final |-> Undecided]
    /\ veto = [i \in Positions |-> 0]
    /\ step = [i \in Positions |-> NoStep]
    /\ place = [h \in Hosts |-> "idle"]
    /\ loc = [h \in Hosts |-> NoLocals]
    /\ calls = 0
    /\ returned = {}

Goto(h, label) == place' = [place EXCEPT ![h] = label]

\* The call is over: it returns, throws, or its process dies.
End(h) == Goto(h, "idle") /\ loc' = [loc EXCEPT ![h] = NoLocals]

Return(h, text, frozen) ==
    /\ returned' = returned \union {[text |-> text, steps |-> loc[h].steps, frozen |-> frozen]}
    /\ End(h)

\* A frozen answer has been returned: the run is over.
Answered == \E r \in returned : r.frozen

Call(h) ==
    /\ place[h] = "idle" /\ calls < MaxCalls
    /\ calls' = calls + 1
    /\ \E agents \in (SUBSET Agents) \ {{}} :
          loc' = [loc EXCEPT ![h] = Locals(calls + 1, agents, 1, <<>>,
                                           {i \in Positions : veto[i] # 0}, Answered)]
    /\ Goto(h, "route")
    /\ UNCHANGED <<journal, returned>>

\* A router, an observer's store or a sub-agent throws, or the process dies.
Fail(h) ==
    /\ place[h] # "idle"
    /\ End(h)
    /\ UNCHANGED <<journal, calls, returned>>
-----------------------------------------------------------------------------
(* frozenGet of the route decision, at the loop's positions and at `final` *)

\* What the loop does with a decision it has got from the journal or frozen.
Follow(h, decision) ==
    \/ decision.action = "final" /\ Return(h, decision.text, TRUE)
    \/ /\ decision.action = "route" /\ decision.agent \in loc[h].agents
       /\ loc' = [loc EXCEPT ![h].decision = decision] /\ Goto(h, "step")
       /\ UNCHANGED returned
    \/ /\ decision.action = "route" /\ decision.agent \notin loc[h].agents  \* not registered: throw
       /\ End(h) /\ UNCHANGED returned

GetRoute(h) ==
    /\ place[h] = "route"
    /\ \/ route[loc[h].i] # Undecided /\ Follow(h, route[loc[h].i])
       \/ route[loc[h].i] = Undecided /\ Goto(h, "decide") /\ UNCHANGED <<loc, returned>>
    /\ UNCHANGED <<journal, calls>>

\* decideOnce: the router gives a valid decision in one of two attempts (it does
\* not: Fail, or Fallback at the forced final).
Decide(h) ==
    /\ place[h] = "decide"
    /\ \/ loc' = [loc EXCEPT ![h].decision = Answer(loc[h].call)]
       \/ loc[h].i # Final /\ \E a \in loc[h].agents : loc' = [loc EXCEPT ![h].decision = RouteTo(a)]
    /\ Goto(h, "freeze")
    /\ UNCHANGED <<journal, calls, returned>>

\* Whatever throws at the forced final, the last step's text is the answer.
Fallback(h) ==
    /\ loc[h].i = Final /\ place[h] \in {"route", "decide", "freeze"}
    /\ Return(h, loc[h].steps[MaxIterations].text, FALSE)
    /\ UNCHANGED <<journal, calls>>

\* mutant: the caller that loses the claim follows its own decision
FreezeRouteKeepsOwn(h) ==
    /\ place[h] = "freeze"
    /\ route' = [route EXCEPT ![loc[h].i] = IF @ = Undecided THEN loc[h].decision ELSE @]
    /\ Follow(h, loc[h].decision)
    /\ UNCHANGED <<veto, step, calls>>

\* The claim of the route: the first decision stays, and every caller follows it.
FreezeRoute(h) ==
    /\ place[h] = "freeze"
    /\ route' = [route EXCEPT ![loc[h].i] = IF @ = Undecided THEN loc[h].decision ELSE @]
    /\ Follow(h, route'[loc[h].i])
    /\ UNCHANGED <<veto, step, calls>>
-----------------------------------------------------------------------------
(* The step: replayed, vetoed, or delegated *)

\* The next position, or the forced final after the last one.
Push(h, s) ==
    /\ loc' = [loc EXCEPT ![h] = Locals(loc[h].call, loc[h].agents, loc[h].i + 1,
                                        Append(loc[h].steps, s), loc[h].vetoes, loc[h].replay)]
    /\ Goto(h, "route")

GetStep(h) ==
    /\ place[h] = "step"
    /\ \/ step[loc[h].i] # NoStep /\ Push(h, step[loc[h].i])
       \/ step[loc[h].i] = NoStep /\ Goto(h, "veto") /\ UNCHANGED loc
    /\ UNCHANGED <<journal, calls, returned>>

\* mutant: the observer is asked again, whatever is journaled
GetVetoAsksAgain(h) ==
    /\ place[h] = "veto"
    /\ \/ loc' = [loc EXCEPT ![h].vetoed = TRUE] /\ Goto(h, "putVeto")
       \/ Goto(h, "run") /\ UNCHANGED loc
    /\ UNCHANGED <<journal, calls, returned>>

\* A journaled veto is replayed; else the observer gives its verdict.
GetVeto(h) ==
    /\ place[h] = "veto"
    /\ \/ /\ veto[loc[h].i] # 0
          /\ loc' = [loc EXCEPT ![h].vetoed = TRUE, ![h].res = veto[loc[h].i]]
          /\ Goto(h, "freezeStep")
       \/ /\ veto[loc[h].i] = 0
          /\ \/ loc' = [loc EXCEPT ![h].vetoed = TRUE] /\ Goto(h, "putVeto")
             \/ Goto(h, "run") /\ UNCHANGED loc
    /\ UNCHANGED <<journal, calls, returned>>

\* The claim of the veto; its own text is what this caller goes on with.
PutVeto(h) ==
    /\ place[h] = "putVeto"
    /\ veto' = [veto EXCEPT ![loc[h].i] = IF @ = 0 THEN loc[h].call ELSE @]
    /\ loc' = [loc EXCEPT ![h].res = loc[h].call]
    /\ Goto(h, "freezeStep")
    /\ UNCHANGED <<route, step, calls, returned>>

\* target.run: the sub-agent answers, or is suspended (returned, not frozen).
Delegate(h) ==
    /\ place[h] = "run"
    /\ \/ loc' = [loc EXCEPT ![h].res = loc[h].call] /\ Goto(h, "freezeStep")
       \/ End(h)
    /\ UNCHANGED <<journal, calls, returned>>

Result(h) == [agent |-> loc[h].decision.agent, text |-> loc[h].res]

\* mutant: the caller that loses the claim goes on with its own result
FreezeStepKeepsOwn(h) ==
    /\ place[h] = "freezeStep"
    /\ step' = [step EXCEPT ![loc[h].i] = IF @ = NoStep THEN Result(h) ELSE @]
    /\ Push(h, Result(h))
    /\ UNCHANGED <<route, veto, calls, returned>>

\* mutant: a result that took the veto's place in the race is not frozen
FreezeStepVetoesOnly(h) ==
    /\ place[h] = "freezeStep"
    /\ step' = [step EXCEPT ![loc[h].i] = IF @ = NoStep /\ loc[h].vetoed THEN Result(h) ELSE @]
    /\ Push(h, Result(h))
    /\ UNCHANGED <<route, veto, calls, returned>>

\* The claim of the step: the first result stays, and every caller takes it.
FreezeStep(h) ==
    /\ place[h] = "freezeStep"
    /\ step' = [step EXCEPT ![loc[h].i] = IF @ = NoStep THEN Result(h) ELSE @]
    /\ Push(h, step'[loc[h].i])
    /\ UNCHANGED <<route, veto, calls, returned>>
-----------------------------------------------------------------------------
NetNext == \E h \in Hosts :
    \/ Call(h) \/ Fail(h)
    \/ GetRoute(h) \/ Decide(h) \/ FreezeRoute(h) \/ Fallback(h)
    \/ GetStep(h) \/ GetVeto(h) \/ PutVeto(h) \/ Delegate(h) \/ FreezeStep(h)

NetSpec == NetInit /\ [][NetNext]_netVars
-----------------------------------------------------------------------------
(* Properties *)

Texts == 0 .. MaxCalls
Steps == [agent : Agents \union {"none"}, text : Texts]
Decisions == [action : {"none", "route", "final"}, agent : Agents \union {"none"}, text : Texts]

Labels == {"idle", "route", "decide", "freeze", "step", "veto", "putVeto", "run", "freezeStep"}
LocalsType == [call : Texts, agents : SUBSET Agents, i : 1 .. Final, steps : Seq(Steps), decision : Decisions,
               res : Texts, vetoed : BOOLEAN, vetoes : SUBSET Positions, replay : BOOLEAN]

\* The types of the journal's records and of the hosts' locals; a host that is at
\* position i has the i - 1 steps before it.
NetTypeOK ==
    /\ route \in [1 .. Final -> Decisions]
    /\ veto \in [Positions -> Texts] /\ step \in [Positions -> Steps]
    /\ calls \in 0 .. MaxCalls
    /\ place \in [Hosts -> Labels]
    /\ loc \in [Hosts -> LocalsType] /\ \A h \in Hosts : Len(loc[h].steps) = loc[h].i - 1
    /\ returned \subseteq [text : Texts, steps : Seq(Steps), frozen : BOOLEAN]

\* Whatever a call has in its history (and prompts the router with) is what is
\* frozen at that position, whichever caller won it: two calls never go on from
\* different steps.
HistoryIsFrozen == \A h \in Hosts : \A i \in DOMAIN loc[h].steps : loc[h].steps[i] = step[i]

\* All callers that end on a frozen decision get the same answer from the same
\* steps ("calling again with the same runId returns the same result").
AnswersAgree == \A r, s \in returned : r.frozen /\ s.frozen => r = s

\* The journal is a run that happened in this order: a decision is frozen only
\* when every step before it is, a step only under a decision to delegate to the
\* agent it names.  A resume reads the records front to back and relies on it.
FrozenInOrder ==
    /\ \A i \in 2 .. Final : route[i] # Undecided => step[i - 1] # NoStep
    /\ \A i \in Positions : step[i] # NoStep => route[i] = RouteTo(step[i].agent)

\* A call that begins after a frozen answer was returned asks no router and no
\* sub-agent ("without an LLM (exactly-once)").
ReplayAsksNobody == \A h \in Hosts : loc[h].replay => place[h] \notin {"decide", "run"}

\* A veto that was journaled when a call began stands for that call, also when
\* the caller that wrote it died before it froze the step: it delegates nothing
\* at that position.
VetoStands == \A h \in Hosts : place[h] = "run" => loc[h].i \notin loc[h].vetoes

\* The frozen records are one history, in order, that all callers share (and
\* everything has its type).
FrozenHistory == NetTypeOK /\ HistoryIsFrozen /\ FrozenInOrder
-----------------------------------------------------------------------------
(* Said in the code's comments and not true of it (README, Disagreements)  *)

\* network.ts:360: the fallback answer is "derived from frozen steps ->
\* deterministic"; but the refused final decision is not frozen, and a later
\* call asks the router again.
FallbackStands == \A r, s \in returned : r = s
=============================================================================
