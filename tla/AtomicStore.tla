----------------------------- MODULE AtomicStore -----------------------------
(***************************************************************************)
(* What a JSON document store promises its callers: a map from ids to      *)
(* records that changes by one legal operation at a time.  A record is     *)
(* added only under a free id, and changed or removed only when it is      *)
(* there; no operation touches another record (no lost update), and a      *)
(* crash loses nothing that the map holds.                                 *)
(***************************************************************************)
CONSTANTS Ids, Records, NoRecord

VARIABLE contents

Init == contents = [i \in Ids |-> NoRecord]

Add(i, r) ==
  /\ contents[i] = NoRecord
  /\ contents' = [contents EXCEPT ![i] = r]

Update(i, r) ==
  /\ contents[i] # NoRecord
  /\ contents' = [contents EXCEPT ![i] = r]

Remove(i) ==
  /\ contents[i] # NoRecord
  /\ contents' = [contents EXCEPT ![i] = NoRecord]

Next ==
  \E i \in Ids :
    \/ \E r \in Records : Add(i, r) \/ Update(i, r)
    \/ Remove(i)

Spec == Init /\ [][Next]_contents
=============================================================================
