------------------------- MODULE MCLoginRateLimiter -------------------------
(***************************************************************************)
(* Instances of LoginRateLimiter for TLC.                                  *)
(***************************************************************************)
EXTENDS LoginRateLimiter, TLC

CONSTANTS k1, k2

TwoKeys == {k1, k2}

\* Addresses are interchangeable; only safety is checked.
Symmetry == Permutations(TwoKeys)

\* A lockout shorter than the window, and one as long as it, like the default.
ShortAndLong == {1, 4}
=============================================================================
