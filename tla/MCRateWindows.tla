---------------------------- MODULE MCRateWindows ----------------------------
(* RateWindows on a small instance. *)
EXTENDS RateWindows, TLC

CONSTANTS p1, p2

MCProcs     == {p1, p2}
MCLifetimes == {3}
MCKinds     == {"fixed", "sliding", "bucket"}
Symmetry    == Permutations(MCProcs)
=============================================================================
