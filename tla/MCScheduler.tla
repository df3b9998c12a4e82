---------------------------- MODULE MCScheduler ----------------------------
(* The triggers of the Scheduler runs. *)
EXTENDS Scheduler

CONSTANTS h1, h2, p1, p2

TwoHosts == {h1, h2}
TwoPollers == {p1, p2}

Once == [kind |-> "at", value |-> 1, misfire |-> "skip", maxAttempts |-> 2, hosts |-> {h1},
         pollers |-> TwoPollers, boots |-> 1, faults |-> 2, losses |-> 0, moves |-> 0]
OneTry == [Once EXCEPT !.maxAttempts = 1, !.value = 3]
Every == [Once EXCEPT !.kind = "every", !.value = 2, !.faults = 1]
CatchUp == [Every EXCEPT !.misfire = "catchup"]
Lost == [Every EXCEPT !.faults = 0, !.boots = 2, !.losses = 1]
LostAlone == [Lost EXCEPT !.faults = 1, !.pollers = {p1}, !.hosts = TwoHosts]
Moved == [Every EXCEPT !.pollers = {p1}, !.moves = 2]
\* Two hosts that boot at the same time
Twice == [Every EXCEPT !.faults = 0, !.boots = 2, !.hosts = TwoHosts]
Cron == [Every EXCEPT !.kind = "cron"]

MCPlans == {Once, OneTry, Every, CatchUp, Lost, LostAlone, Twice, Moved, Cron}
=============================================================================
