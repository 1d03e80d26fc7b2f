------------------------- MODULE MCReaderWriterLock --------------------------
(* ReaderWriterLock on a small instance. *)
EXTENDS ReaderWriterLock, TLC

CONSTANTS p1, p2, p3

MCProcs     == {p1, p2, p3}
MCLifetimes == {Lease}
Symmetry    == Permutations(MCProcs)
=============================================================================
