------------------------ MODULE DistributedSemaphore -------------------------
(***************************************************************************)
(* The distributed semaphore: NCacheDistributedSemaphore, its handle and   *)
(* the primitive both keep in the cache, a list of acquisitions that is    *)
(* read, changed and written back under LockKey.  Every acquisition also   *)
(* has a record of its own that expires: a slot whose acquisition is past  *)
(* its Expiry and whose record is gone is free for the taking.             *)
(*                                                                         *)
(* LockKey and UnlockKey are those of LeaseLock, which KeyLock implements. *)
(* An acquisition is a GUID; the model recycles one once nothing refers to *)
(* it any more.  The handle's monitor is the one of DistributedLock.       *)
(***************************************************************************)
EXTENDS LeaseLock, FiniteSets

CONSTANTS
  Acqs,       \* the acquisitions' GUIDs
  NoAcq,
  Capacity,   \* maxCount
  Lease       \* _expirationTime, of the lock and of the acquisitions

ASSUME SemaphoreAssumption ==
  /\ NoAcq \notin Acqs
  /\ IsFiniteSet(Acqs)
  /\ Capacity \in Nat \ {0}
  /\ Lease \in Nat \ {0}
  /\ Lifetimes = {Lease}

VARIABLES
  slots,    \* the acquisitions in the primitive's list
  rec,      \* what is left of each acquisition's record, 0 when it is gone
  expiry,   \* what is left until each acquisition's Expiry (client's clock)
  pc,       \* where each caller is in AcquireStrategy or Dispose
  acq,      \* its acquisition
  list,     \* its copy of the primitive's list
  todo      \* the acquisitions it still has to look at

vars == <<lockVars, slots, rec, expiry, pc, acq, list, todo>>

AcquirePCs == {"read", "prune", "retry", "insert", "record", "unlock", "full"}
DisposePCs == {"dispRead", "dispInsert", "dispRemove", "dispUnlock"}
Critical   == AcquirePCs \cup DisposePCs

TypeOK ==
  /\ LeaseTypeOK
  /\ slots \subseteq Acqs
  /\ rec \in [Acqs -> 0 .. Lease]
  /\ expiry \in [Acqs -> 0 .. Lease]
  /\ pc \in [Procs -> {"idle", "held", "dispose"} \cup Critical]
  /\ acq \in [Procs -> Acqs \cup {NoAcq}]
  /\ list \in [Procs -> SUBSET Acqs]
  /\ todo \in [Procs -> SUBSET Acqs]

Goto(p, l) == pc' = [pc EXCEPT ![p] = l]

(* An acquisition nothing in the cache or in a caller refers to. *)
Fresh(a) ==
  /\ a \notin slots
  /\ rec[a] = 0
  /\ \A p \in Procs : acq[p] # a /\ a \notin list[p]

HasRecord(a) == rec[a] > 0

(* Wrong on purpose: one acquisition too many. *)
HasRoomForOneMore(l) == Cardinality(l) <= Capacity

(* TryAcquire of the primitive compares the list with maxCount. *)
HasRoom(l) == Cardinality(l) < Capacity

(* Wrong on purpose: the clock alone decides. *)
DanglingByExpiry(a) == expiry[a] = 0

(* What the prune loop takes for the slot of a crashed process. *)
Dangling(a) == expiry[a] = 0 /\ ~HasRecord(a)

-----------------------------------------------------------------------------
Init ==
  /\ LockInit
  /\ slots = {}
  /\ rec = [a \in Acqs |-> 0]
  /\ expiry = [a \in Acqs |-> 0]
  /\ pc = [p \in Procs |-> "idle"]
  /\ acq = [p \in Procs |-> NoAcq]
  /\ list = [p \in Procs |-> {}]
  /\ todo = [p \in Procs |-> {}]

(* Wrong on purpose: what LockKey returns is not looked at. *)
AcquireLockUnchecked(p) ==
  /\ pc[p] = "idle"
  /\ LockKey(p) \/ (~Free /\ UNCHANGED lockVars)
  /\ Goto(p, "read")
  /\ UNCHANGED <<slots, rec, expiry, acq, list, todo>>

(* AcquireStrategy: a refused LockKey makes it return null. *)
AcquireLock(p) ==
  /\ pc[p] = "idle"
  /\ LockKey(p)
  /\ Goto(p, "read")
  /\ UNCHANGED <<slots, rec, expiry, acq, list, todo>>

(* Get the primitive and TryAcquire. *)
AcquireRead(p) ==
  /\ pc[p] = "read"
  /\ \E a \in Acqs :
       /\ Fresh(a)
       /\ acq' = [acq EXCEPT ![p] = a]
       /\ expiry' = [expiry EXCEPT ![a] = Lease]
       /\ IF HasRoom(slots)
          THEN /\ list' = [list EXCEPT ![p] = slots \cup {a}]
               /\ todo' = todo
               /\ Goto(p, "insert")
          ELSE /\ list' = [list EXCEPT ![p] = slots]
               /\ todo' = [todo EXCEPT ![p] = slots]
               /\ Goto(p, "prune")
  /\ UNCHANGED <<lockVars, slots, rec>>

(* No slot: look for acquisitions crashed processes left, one Get each. *)
Prune(p) ==
  /\ pc[p] = "prune"
  /\ \E a \in todo[p] :
       /\ todo' = [todo EXCEPT ![p] = @ \ {a}]
       /\ list' = [list EXCEPT ![p] = IF Dangling(a) THEN @ \ {a} ELSE @]
  /\ UNCHANGED <<lockVars, slots, rec, expiry, pc, acq>>

(* TryAcquire again, with a new acquisition, if one was released. *)
Retry(p) ==
  /\ pc[p] = "prune"
  /\ todo[p] = {}
  /\ IF HasRoom(list[p])
     THEN \E a \in Acqs :
            /\ Fresh(a)
            /\ acq' = [acq EXCEPT ![p] = a]
            /\ expiry' = [expiry EXCEPT ![a] = Lease]
            /\ list' = [list EXCEPT ![p] = @ \cup {a}]
            /\ Goto(p, "insert")
     ELSE /\ Goto(p, "full")
          /\ UNCHANGED <<expiry, acq, list>>
  /\ UNCHANGED <<lockVars, slots, rec, todo>>

(* Write the list back ... *)
AcquireInsert(p) ==
  /\ pc[p] = "insert"
  /\ slots' = list[p]
  /\ list' = [list EXCEPT ![p] = {}]
  /\ Goto(p, "record")
  /\ UNCHANGED <<lockVars, rec, expiry, acq, todo>>

(* ... add the acquisition's own record ... *)
AcquireRecord(p) ==
  /\ pc[p] = "record"
  /\ rec' = [rec EXCEPT ![acq[p]] = Lease]
  /\ Goto(p, "unlock")
  /\ UNCHANGED <<lockVars, slots, expiry, acq, list, todo>>

(* ... and unlock. *)
AcquireUnlock(p) ==
  /\ pc[p] = "unlock"
  /\ UnlockKey(p)
  /\ Goto(p, "held")
  /\ UNCHANGED <<slots, rec, expiry, acq, list, todo>>

(* No slot after all. *)
AcquireFails(p) ==
  /\ pc[p] = "full"
  /\ UnlockKey(p)
  /\ acq' = [acq EXCEPT ![p] = NoAcq]
  /\ list' = [list EXCEPT ![p] = {}]
  /\ Goto(p, "idle")
  /\ UNCHANGED <<slots, rec, expiry, todo>>

-----------------------------------------------------------------------------
(* Dispose of the handle spins until LockKey succeeds. *)
Dispose(p) ==
  /\ pc[p] = "held"
  /\ Goto(p, "dispose")
  /\ UNCHANGED <<lockVars, slots, rec, expiry, acq, list, todo>>

DisposeLock(p) ==
  /\ pc[p] = "dispose"
  /\ LockKey(p)
  /\ Goto(p, "dispRead")
  /\ UNCHANGED <<slots, rec, expiry, acq, list, todo>>

(* Release takes the acquisition off the list, if it is still there. *)
DisposeRead(p) ==
  /\ pc[p] = "dispRead"
  /\ list' = [list EXCEPT ![p] = slots \ {acq[p]}]
  /\ Goto(p, IF acq[p] \in slots THEN "dispInsert" ELSE "dispUnlock")
  /\ UNCHANGED <<lockVars, slots, rec, expiry, acq, todo>>

DisposeInsert(p) ==
  /\ pc[p] = "dispInsert"
  /\ slots' = list[p]
  /\ Goto(p, "dispRemove")
  /\ UNCHANGED <<lockVars, rec, expiry, acq, list, todo>>

DisposeRemove(p) ==
  /\ pc[p] = "dispRemove"
  /\ rec' = [rec EXCEPT ![acq[p]] = 0]
  /\ Goto(p, "dispUnlock")
  /\ UNCHANGED <<lockVars, slots, expiry, acq, list, todo>>

DisposeUnlock(p) ==
  /\ pc[p] = "dispUnlock"
  /\ UnlockKey(p)
  /\ acq' = [acq EXCEPT ![p] = NoAcq]
  /\ list' = [list EXCEPT ![p] = {}]
  /\ Goto(p, "idle")
  /\ UNCHANGED <<slots, rec, expiry, todo>>

-----------------------------------------------------------------------------
(* The process dies, or a cache call throws and AcquireStrategy swallows   *)
(* the exception: the lock and whatever was written stay behind.           *)
Crash(p) ==
  /\ pc[p] # "idle"
  /\ Abandon(p)
  /\ acq' = [acq EXCEPT ![p] = NoAcq]
  /\ list' = [list EXCEPT ![p] = {}]
  /\ todo' = [todo EXCEPT ![p] = {}]
  /\ Goto(p, "idle")
  /\ UNCHANGED <<slots, rec, expiry>>

(* Wrong on purpose: what is over goes on. *)
ElapsePastZero(f) == [a \in Acqs |-> f[a] - 1]

(* Time passes for the lock, the records and the client's clock. *)
Elapse(f) == [a \in Acqs |-> IF f[a] = 0 THEN 0 ELSE f[a] - 1]

Tick ==
  /\ Prompt => ~(holder \in Procs /\ left = 1)
  /\ LeaseRuns
  /\ rec' = Elapse(rec)
  /\ expiry' = Elapse(expiry)
  /\ UNCHANGED <<slots, pc, acq, list, todo>>

AcquireStep(p) ==
  \/ AcquireRead(p) \/ Prune(p) \/ Retry(p)
  \/ AcquireInsert(p) \/ AcquireRecord(p) \/ AcquireUnlock(p) \/ AcquireFails(p)

DisposeStep(p) ==
  \/ DisposeRead(p) \/ DisposeInsert(p) \/ DisposeRemove(p) \/ DisposeUnlock(p)

Next ==
  \/ \E p \in Procs :
       \/ AcquireLock(p) \/ AcquireStep(p)
       \/ Dispose(p) \/ DisposeLock(p) \/ DisposeStep(p)
       \/ Crash(p)
  \/ Tick

Spec == Init /\ [][Next]_vars

-----------------------------------------------------------------------------
Live == {p \in Procs : pc[p] = "held" /\ HasRecord(acq[p])}

(* The list never has more acquisitions than the semaphore has slots. *)
SlotsWithinCapacity == Cardinality(slots) <= Capacity

(* At most Capacity handles hold at a time, not counting those whose       *)
(* record has run out (their HandleLostToken tells them): pruning dangling *)
(* slots never gives away the slot of a holder that still has its record,  *)
(* and no read-modify-write of the list drops one.                         *)
HoldersWithinCapacity == Cardinality(Live) <= Capacity

(* A holder that still has its record is on the list, so that everyone     *)
(* counts it.                                                              *)
HolderIsListed == \A p \in Live : acq[p] \in slots
=============================================================================
