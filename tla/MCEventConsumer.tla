--------------------------- MODULE MCEventConsumer ---------------------------
(* Who takes part in the EventConsumer runs. *)
EXTENDS EventConsumer

CONSTANTS c1, c2, o1, o2

MCProcs == {c1, c2, o1, o2}

\* Two instances under one consumer name
Scaled == [instances |-> {c1, c2}, operators |-> {}, maxAttempts |-> 1,
           maxReleases |-> 0, maxCrashes |-> 0]
\* One instance, and two operators who release at the same time
DoubleClick == [Scaled EXCEPT !.instances = {c1}, !.operators = {o1, o2}, !.maxReleases = 2]
\* One instance, one operator, a crash
Rescued == [Scaled EXCEPT !.instances = {c1}, !.operators = {o1}, !.maxAttempts = 2,
                          !.maxReleases = 1, !.maxCrashes = 1]

MCTeams == {Scaled, DoubleClick, Rescued}
=============================================================================
