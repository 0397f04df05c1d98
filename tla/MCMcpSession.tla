---------------------------- MODULE MCMcpSession ----------------------------
(***************************************************************************)
(* Instances of McpSession for TLC.                                        *)
(***************************************************************************)
EXTENDS McpSession

CONSTANTS c1, s1, s2

OneClient == {c1}
OneSession == {s1}
TwoSessions == {s1, s2}

Bearer(c) == [client |-> c, cookie |-> FALSE]
Both(c) == [client |-> c, cookie |-> TRUE]
Nobody == [client |-> NoClient, cookie |-> FALSE]

BearerOrCookie == {Bearer(c1), Both(c1)}
BearerOrNobody == {Bearer(c1), Nobody}
=============================================================================
