------------------------ MODULE MCHubLifetimeManager -------------------------
(* HubLifetimeManager on a small instance. *)
EXTENDS HubLifetimeManager, TLC

CONSTANTS s1, c1, c2, x1, x2, x3, x4, m1

MCServers  == {s1}
MCConns    == {c1, c2}
MCHome     == [c \in MCConns |-> s1]
MCSets     == {x1, x2, x3, x4}
MCMsgs     == {m1}
Symmetry   == Permutations(MCConns) \cup Permutations(MCSets)
=============================================================================
