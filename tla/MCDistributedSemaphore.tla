----------------------- MODULE MCDistributedSemaphore ------------------------
(* DistributedSemaphore on a small instance. *)
EXTENDS DistributedSemaphore, TLC

CONSTANTS p1, p2, p3, a1, a2, a3, a4, a5

MCProcs     == {p1, p2, p3}
MCAcqs      == {a1, a2, a3, a4, a5}
MCLifetimes == {Lease}
Symmetry    == Permutations(MCProcs) \cup Permutations(MCAcqs)
=============================================================================
