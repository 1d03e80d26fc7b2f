------------------------------ MODULE LeaseLock ------------------------------
(***************************************************************************)
(* What the client extension promises about the lock on one cache key: a   *)
(* lease.  It is free or it belongs to one caller, it runs out by itself   *)
(* after the lifetime it was taken with, and the lease of a caller that    *)
(* died stays until it runs out.  KeyLock is the protocol that implements  *)
(* it; every integration that serialises its critical sections with        *)
(* LockKey / UnlockKey is modelled on top of this module.                  *)
(*                                                                         *)
(* Time is a count-down: Tick takes one unit from every running lifetime.  *)
(***************************************************************************)
EXTENDS Integers

CONSTANTS
  Procs,      \* the callers, each with at most one call in progress
  Nobody,     \* the holder of a free lock
  Orphan,     \* the holder of a lock whose caller died or dropped its token
  Lifetimes,  \* the lifetimes callers ask for: ticks, or Forever
  Prompt      \* TRUE: a live caller finishes before its own lease runs out

Forever == -1

ASSUME LeaseAssumption ==
  /\ Nobody \notin Procs
  /\ Orphan \notin Procs
  /\ Orphan # Nobody
  /\ Lifetimes \subseteq (Nat \ {0}) \cup {Forever}
  /\ Prompt \in BOOLEAN

VARIABLES
  holder,   \* who has the lock
  left      \* what is left of its lifetime, 0 when the lock is free

lockVars == <<holder, left>>

Holders == Procs \cup {Nobody, Orphan}

Free == holder = Nobody

LeaseTypeOK ==
  /\ holder \in Holders
  /\ left \in Nat \cup {Forever}
  /\ Free <=> left = 0

-----------------------------------------------------------------------------
LockInit ==
  /\ holder = Nobody
  /\ left = 0

(* LockKey returns true. *)
LockKey(p) ==
  /\ Free
  /\ \E t \in Lifetimes : left' = t
  /\ holder' = p

(* UnlockKey with the caller's own token: nothing happens when the lease   *)
(* has run out and the record is gone or another caller's.                 *)
UnlockKey(p) ==
  IF holder = p
  THEN holder' = Nobody /\ left' = 0
  ELSE UNCHANGED lockVars

(* The holder dies, or drops its token without unlocking. *)
Abandon(p) ==
  /\ holder' = IF holder = p THEN Orphan ELSE holder
  /\ UNCHANGED left

(* One unit of time passes for the lock's record. *)
LeaseRuns ==
  IF left \in {0, Forever}
  THEN UNCHANGED lockVars
  ELSE /\ left' = left - 1
       /\ holder' = IF left = 1 THEN Nobody ELSE holder

LockNext ==
  \/ \E p \in Procs : LockKey(p) \/ UnlockKey(p) \/ Abandon(p)
  \/ LeaseRuns

LockSpec == LockInit /\ [][LockNext]_lockVars
=============================================================================
