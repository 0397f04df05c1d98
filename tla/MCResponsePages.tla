--------------------------- MODULE MCResponsePages ---------------------------
(***************************************************************************)
(* Instances of ResponsePages for TLC.                                     *)
(***************************************************************************)
EXTENDS ResponsePages, TLC

CONSTANTS c1, c2, t1, t2

TwoClients == {c1, c2}
TwoTools == {t1, t2}
\* Clients are interchangeable; only safety is checked.
Symmetry == Permutations(TwoClients)

SafeAndSlash == {"safe", "slash"}

\* t2 has a parameter called responseCacheId and one called responseOffset.
MCOwnParams == [t \in TwoTools |->
  IF t = t2 THEN {"responseCacheId", "responseOffset"} ELSE {}]

\* Pages of two; the legacy cap as the page size; a cap below the page; no limit.
Limit(p, h) == [page |-> p, hard |-> h]
MCLimits == {Limit(2, 0), Limit(0, 3), Limit(4, 3), Limit(0, 0)}

\* Two blocks of two characters, which join to five, and a text beside a picture.
MCResponses == {[blocks |-> <<2, 2>>, mixed |-> FALSE], [blocks |-> <<4>>, mixed |-> TRUE]}

Way(t, n, v, l) == [tool |-> t, name |-> n, via |-> v, limit |-> l]
Shape(n, v, l, p, o) == [name |-> n, via |-> v, limit |-> l, place |-> p, old |-> o]

MCFresh == {Way(t1, "safe", "callTool", None), Way(t2, "safe", "shortcut", 1)}
MCShapes == {Shape("slash", "callTool", None, 1, TRUE), Shape("safe", "shortcut", None, 3, FALSE),
             Shape("safe", "callTool", 1, 4, FALSE), Shape("slash", "callTool", 1, 2, TRUE)}

\* The right tool, the wrong one, and an offset past the end.
Stray(t, o) == [tool |-> t, name |-> "safe", offset |-> o]
MCStrays == {Stray(t1, 0), Stray(t2, 0), Stray(t1, 9)}
=============================================================================
