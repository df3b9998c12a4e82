---------------------------- MODULE MCOrgUsage ----------------------------
(* An organization in service, an upgrade of an old journal by its readers alone, *)
(* a first use, an upgrade while runs are executed, and while one is purged.      *)
EXTENDS OrgUsage, TLC

CONSTANTS w1, w2, u1, u2, p1

InService == [old |-> {"r1"}, counted |-> TRUE, purge |-> TRUE,
              maxExecs |-> 3, maxReads |-> 1, maxCrashes |-> 1]
Upgrade == [old |-> {"r1", "r2"}, counted |-> FALSE, purge |-> FALSE,
            maxExecs |-> 0, maxReads |-> 3, maxCrashes |-> 2]
FirstUse == [old |-> {}, counted |-> FALSE, purge |-> FALSE,
             maxExecs |-> 3, maxReads |-> 1, maxCrashes |-> 1]
UnderLoad == [old |-> {"r1"}, counted |-> FALSE, purge |-> FALSE,
              maxExecs |-> 2, maxReads |-> 2, maxCrashes |-> 1]
Purged == [old |-> {"r1"}, counted |-> FALSE, purge |-> TRUE,
           maxExecs |-> 1, maxReads |-> 2, maxCrashes |-> 1]
MCSettings == {InService, Upgrade, FirstUse, UnderLoad, Purged}

Symmetry == Permutations({w1, w2}) \union Permutations({u1, u2})
=============================================================================
