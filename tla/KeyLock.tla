------------------------------- MODULE KeyLock -------------------------------
(***************************************************************************)
(* The lock on a cache key of the client extension: LockKey and UnlockKey  *)
(* of LockingExtension.cs, one step per call they make to the cache.       *)
(*                                                                         *)
(* The lock is a second cache item whose value is a token, a GUID made by  *)
(* the LockKey call that adds it.  A token is only compared by the call    *)
(* that made it, so the item carries the caller itself; when the caller    *)
(* dies or drops the token no later call can match it, and the item is     *)
(* an Orphan's.  The cache drops the item when its lifetime is over.       *)
(***************************************************************************)
EXTENDS Integers

CONSTANTS Procs, Nobody, Orphan, Lifetimes, Prompt

VARIABLES
  data,   \* does the key that is being locked exist in the cache?
  lock,   \* the item under LOCK_KEY_PREFIX + key
  pc      \* where each caller is

vars == <<data, lock, pc>>

Forever == -1
NoLock  == [owner |-> Nobody, ttl |-> 0]

Lease == INSTANCE LeaseLock WITH holder <- lock.owner, left <- lock.ttl

ASSUME KeyLockAssumption ==
  /\ Nobody \notin Procs
  /\ Orphan \notin Procs
  /\ Orphan # Nobody
  /\ Lifetimes \subseteq (Nat \ {0}) \cup {Forever}
  /\ Prompt \in BOOLEAN

(* Callers between the moment their ownership is confirmed and their last  *)
(* access to the lock item.                                                *)
Owning == {"undo", "held", "remove"}

Using(p) == pc[p] \in Owning

PCs == {"idle", "contains", "add", "verify"} \cup Owning

TypeOK ==
  /\ data \in BOOLEAN
  /\ pc \in [Procs -> PCs]
  /\ lock \in [owner : Procs \cup {Nobody, Orphan}, ttl : Nat \cup {Forever}]
  /\ lock.owner = Nobody <=> lock.ttl = 0

-----------------------------------------------------------------------------
Init ==
  /\ data \in BOOLEAN
  /\ lock = NoLock
  /\ pc = [p \in Procs |-> "idle"]

Goto(p, l) == pc' = [pc EXCEPT ![p] = l]

(* LockKey: a key that is not in the cache is not locked. *)
ContainsKey(p) ==
  /\ pc[p] = "idle"
  /\ data
  /\ Goto(p, "contains")
  /\ UNCHANGED <<data, lock>>

(* LockKey: give up when the lock item is there already. *)
ContainsLock(p) ==
  /\ pc[p] = "contains"
  /\ Goto(p, IF lock.owner = Nobody THEN "add" ELSE "idle")
  /\ UNCHANGED <<data, lock>>

(* Wrong on purpose: the item is inserted over an existing one. *)
AddLockOverwrites(p) ==
  /\ pc[p] = "add"
  /\ \E t \in Lifetimes : lock' = [owner |-> p, ttl |-> t]
  /\ Goto(p, "verify")
  /\ UNCHANGED data

(* Wrong on purpose: the expiration is not set on the item. *)
AddLockForever(p) ==
  /\ pc[p] = "add"
  /\ lock.owner = Nobody
  /\ lock' = [owner |-> p, ttl |-> Forever]
  /\ Goto(p, "verify")
  /\ UNCHANGED data

(* LockKey: Add fails with "key already exists" when there is an item. *)
AddLock(p) ==
  /\ pc[p] = "add"
  /\ IF lock.owner = Nobody
     THEN /\ \E t \in Lifetimes : lock' = [owner |-> p, ttl |-> t]
          /\ Goto(p, "verify")
     ELSE /\ Goto(p, "idle")
          /\ UNCHANGED lock
  /\ UNCHANGED data

(* Wrong on purpose: a successful Add is taken for ownership. *)
VerifyLockTrustsAdd(p) ==
  /\ pc[p] = "verify"
  /\ Goto(p, IF data THEN "held" ELSE "undo")
  /\ UNCHANGED <<data, lock>>

(* LockKey: GetBulk reads the key and the lock item together. *)
VerifyLock(p) ==
  /\ pc[p] = "verify"
  /\ Goto(p, CASE lock.owner # p -> "idle"
               [] lock.owner = p /\ ~data -> "undo"
               [] OTHER -> "held")
  /\ UNCHANGED <<data, lock>>

(* LockKey: the key vanished meanwhile, take the lock item back. *)
UndoLock(p) ==
  /\ pc[p] = "undo"
  /\ lock' = NoLock
  /\ Goto(p, "idle")
  /\ UNCHANGED data

(* UnlockKey without a token removes the item, whoever's it is. *)
UnlockWithoutToken(p) ==
  /\ pc[p] = "held"
  /\ lock' = NoLock
  /\ Goto(p, "idle")
  /\ UNCHANGED data

(* UnlockKey with a token first reads the item ... *)
UnlockGet(p) ==
  /\ pc[p] = "held"
  /\ Goto(p, IF lock.owner = p THEN "remove" ELSE "idle")
  /\ UNCHANGED <<data, lock>>

(* ... and then removes it, in a second call. *)
UnlockRemove(p) ==
  /\ pc[p] = "remove"
  /\ lock' = NoLock
  /\ Goto(p, "idle")
  /\ UNCHANGED data

(* The caller's process dies, or an exception other than "key already      *)
(* exists" leaves LockKey after the item was added.                        *)
Crash(p) ==
  /\ pc[p] # "idle"
  /\ Goto(p, "idle")
  /\ lock' = IF lock.owner = p THEN [lock EXCEPT !.owner = Orphan] ELSE lock
  /\ UNCHANGED data

(* Other code adds and removes the key itself, which needs no lock. *)
DataChanges ==
  /\ data' = ~data
  /\ UNCHANGED <<lock, pc>>

(* Wrong on purpose: an item whose lifetime is over stays in the cache. *)
TickKeepsItem ==
  /\ lock.ttl \notin {0, Forever}
  /\ Prompt => ~(lock.ttl = 1 /\ lock.owner \in Procs /\ Using(lock.owner))
  /\ lock' = [lock EXCEPT !.ttl = @ - 1]
  /\ UNCHANGED <<data, pc>>

(* Time passes; the cache drops the item when its lifetime is over. *)
Tick ==
  /\ lock.ttl \notin {0, Forever}
  /\ Prompt => ~(lock.ttl = 1 /\ lock.owner \in Procs /\ Using(lock.owner))
  /\ lock' = IF lock.ttl = 1 THEN NoLock ELSE [lock EXCEPT !.ttl = @ - 1]
  /\ UNCHANGED <<data, pc>>

Call(p) ==
  \/ ContainsKey(p)
  \/ ContainsLock(p)
  \/ AddLock(p)
  \/ VerifyLock(p)
  \/ UndoLock(p)

Unlock(p) ==
  \/ UnlockWithoutToken(p)
  \/ UnlockGet(p)
  \/ UnlockRemove(p)

Next ==
  \/ \E p \in Procs : Call(p) \/ Unlock(p) \/ Crash(p)
  \/ DataChanges
  \/ Tick

(* A caller that started a call finishes it, a holder unlocks sooner or    *)
(* later, and time does not stand still.  Nothing makes a caller start or  *)
(* crash.                                                                  *)
Fairness ==
  /\ \A p \in Procs : WF_vars(Call(p) /\ pc[p] # "idle") /\ WF_vars(Unlock(p))
  /\ WF_vars(Tick)

Spec == Init /\ [][Next]_vars
FairSpec == Spec /\ Fairness

-----------------------------------------------------------------------------
(* Two callers never own the same key's lock at once: from the GetBulk     *)
(* that confirms the token to the last Remove of UnlockKey (or of the      *)
(* retreat of LockKey) there is one caller only, as long as live callers   *)
(* finish within their lease.  This is what makes every read-modify-write  *)
(* of the integrations under LockKey atomic.                               *)
MutualExclusion ==
  Prompt => \A p, q \in Procs : Using(p) /\ Using(q) => p = q

(* LockKey and UnlockKey, call by call on the cache, behave as the lease:  *)
(* the Add is the point where the lock is taken, nobody takes a lock that  *)
(* is not free, and only its owner or the end of its lifetime frees it.    *)
ImplementsLease == Lease!LockSpec

(* A caller that crashes does not lock the key for good: the item it left  *)
(* behind goes away (for the callers that give a lifetime).                *)
CrashNeverWedges == (lock.owner = Orphan) ~> (lock.owner # Orphan)

(* UnlockKey with a token that is not the stored one leaves the stored     *)
(* lock in place, as the test UnlockKey_WithForeignToken_KeepsLock says.   *)
(* It compares the token in one call and removes the item in another, so   *)
(* this takes an unlocking caller whose lease is not over in between.      *)
ForeignTokenKeepsLock ==
  [][Prompt => \A p \in Procs : pc[p] = "remove" /\ pc'[p] = "idle" =>
       lock.owner \in {p, Nobody} \/ lock' # NoLock]_vars
=============================================================================
