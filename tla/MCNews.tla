------------------------------- MODULE MCNews -------------------------------
(***************************************************************************)
(* Instances of News for TLC.                                              *)
(***************************************************************************)
EXTENDS News

\* As in feed_migrations.py: a retired url, whose replacement is itself switched
\* off, and a supplemental feed.
MCUrl == {"old", "new", "extra"}
MCReplacements == [u \in {"old"} |-> "new"]
MCDisable == {"new"}
MCSupplemental == <<"extra">>

MCDigests == <<"today", "local">>
MCFeedsIn == [d \in {"today", "local"} |-> IF d = "local" THEN {"new"} ELSE MCUrl]

On(u) == [url |-> u, on |-> TRUE]

\* A first start and the list of an older release.
MCFiles == {Missing, [feeds |-> <<On("old"), On("new")>>, applied |-> {}]}
=============================================================================
