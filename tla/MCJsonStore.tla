----------------------------- MODULE MCJsonStore -----------------------------
(***************************************************************************)
(* Instances of JsonStore for TLC.                                         *)
(***************************************************************************)
EXTENDS JsonStore

CONSTANTS i1, i2, r1, r2

MCIds == {i1, i2}
MCRecords == {r1, r2}

\* Hand edits: one valid document, or a broken file.
OneRecord == [EmptyDoc EXCEPT ![i1] = r1]
MCEdits == {OneRecord, [EmptyDoc EXCEPT ![i2] = r2], Corrupt}
NoEdits == {}
=============================================================================
