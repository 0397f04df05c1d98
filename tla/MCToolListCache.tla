-------------------------- MODULE MCToolListCache --------------------------
(***************************************************************************)
(* An instance of ToolListCache for TLC: two servers and a cache of one    *)
(* entry, so that a second list always evicts.                             *)
(***************************************************************************)
EXTENDS ToolListCache, TLC

CONSTANTS s1, s2, c1, c2, t1, t2

TwoServers == {s1, s2}
TwoConfigs == {c1, c2}
TwoTasks == {t1, t2}

\* Servers, configs and discoveries are interchangeable, and no property of the
\* module names one; only safety is checked with it.
Symmetry == Permutations(Servers) \union Permutations(Configs)
              \union Permutations(Tasks)
=============================================================================
