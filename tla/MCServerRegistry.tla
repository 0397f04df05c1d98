-------------------------- MODULE MCServerRegistry --------------------------
(***************************************************************************)
(* Instances of ServerRegistry for TLC.                                    *)
(***************************************************************************)
EXTENDS ServerRegistry, TLC

CONSTANTS i1, home, work, j1, j2

OneId == {i1}
MCDomains == {home, work}
TwoJobs == {j1, j2}
\* Jobs differ in nothing but their names.
JobSymmetry == Permutations(TwoJobs)
RestAndMcp == {"rest", "mcp"}
=============================================================================
