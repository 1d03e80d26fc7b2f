-------------------------- MODULE MCDistributedLock --------------------------
(* DistributedLock on a small instance. *)
EXTENDS DistributedLock

CONSTANTS p1, p2

MCProcs == {p1, p2}
=============================================================================
