------------------------------ MODULE MCKeyLock ------------------------------
(* KeyLock on a small instance. *)
EXTENDS KeyLock

CONSTANTS p1, p2, p3

MCProcs     == {p1, p2, p3}
MCLifetimes == {1, 2, 3}
=============================================================================
