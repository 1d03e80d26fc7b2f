------------------------ MODULE MCConcurrencyLimiter -------------------------
(* ConcurrencyLimiter on a small instance: two requests on one node, one   *)
(* on another.                                                             *)
EXTENDS ConcurrencyLimiter, TLC

CONSTANTS n1, n2, r1, r2, r3

MCNodes   == {n1, n2}
MCReqs    == {r1, r2, r3}
MCNodeOf  == r1 :> n1 @@ r2 :> n1 @@ r3 :> n2
MCOrdinal == r1 :> 1 @@ r2 :> 2 @@ r3 :> 3
MCStopping == {n1}
MCNone == {}
=============================================================================
