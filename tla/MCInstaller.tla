----------------------------- MODULE MCInstaller -----------------------------
(***************************************************************************)
(* Instances of Installer for TLC.                                         *)
(***************************************************************************)
EXTENDS Installer

CONSTANTS j1, j2

TwoJobs == {j1, j2}

P(k, v) == [kind |-> k, via |-> v, absent |-> FALSE]
Absent == [kind |-> "npm", via |-> "rest", absent |-> TRUE]
Pair(p, q) == [j \in TwoJobs |-> IF j = j1 THEN p ELSE q]

\* Every install by itself, and two of a PyPI package, which share the venv.
MCPlans ==
  {Pair(P(k, v), Absent) : k \in AllKinds, v \in {"rest", "mcp"}}
    \cup {Pair(P("pypi", "mcp"), P("pypi", "rest"))}
=============================================================================
