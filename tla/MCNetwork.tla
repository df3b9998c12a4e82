----------------------------- MODULE MCNetwork -----------------------------
(* Two hosts, two agents. *)
EXTENDS Network, TLC

CONSTANTS h1, h2

TwoHosts == {h1, h2}
TwoAgents == {"writer", "critic"}
Symmetry == Permutations(TwoHosts)
=============================================================================
