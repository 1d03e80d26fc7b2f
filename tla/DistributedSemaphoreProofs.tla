--------------------- MODULE DistributedSemaphoreProofs ----------------------
(***************************************************************************)
(* The semaphore for every set of callers, capacity and lease: its type    *)
(* invariant, that the list never has more acquisitions than slots, that a *)
(* holder with its record is on the list, and that at most Capacity        *)
(* holders have their record.                                              *)
(***************************************************************************)
EXTENDS DistributedSemaphore, TLAPS, FiniteSetTheorems

(* Whatever is done with the lease it keeps its type. *)
LEMMA LeaseKeepsType ==
  ASSUME LeaseTypeOK, [LockNext]_lockVars
  PROVE  LeaseTypeOK'
<1> USE LeaseAssumption DEF Free, LeaseTypeOK, Holders, Forever
<1>1. ASSUME NEW p \in Procs, LockKey(p)
      PROVE  LeaseTypeOK'
  BY <1>1 DEF LockKey
<1>2. ASSUME NEW p \in Procs, UnlockKey(p) \/ Abandon(p)
      PROVE  LeaseTypeOK'
  BY <1>2 DEF UnlockKey, Abandon, lockVars
<1>3. CASE LeaseRuns \/ UNCHANGED lockVars
  BY <1>3 DEF LeaseRuns, lockVars
<1> QED
  BY <1>1, <1>2, <1>3 DEF LockNext

(* Every state has variables of the right type, whatever the callers, the  *)
(* pruning and the expirations do.                                         *)
THEOREM TypeCorrect == Spec => []TypeOK
<1> USE LeaseAssumption, SemaphoreAssumption
<1>1. Init => TypeOK
  BY DEF Init, LockInit, TypeOK, LeaseTypeOK, Holders, Free
<1>2. TypeOK /\ [Next]_vars => TypeOK'
  <2> SUFFICES ASSUME TypeOK, [Next]_vars
               PROVE  TypeOK'
    OBVIOUS
  <2>1. LeaseTypeOK
    BY DEF TypeOK
  <2>2. LeaseTypeOK'
    <3>1. ASSUME NEW p \in Procs, AcquireLock(p) \/ AcquireStep(p)
          PROVE  [LockNext]_lockVars
      <4>1. UNCHANGED lockVars \/ LockKey(p) \/ UnlockKey(p)
        BY <3>1, Zenon DEF AcquireStep, AcquireLock, AcquireRead, Prune, Retry,
             AcquireInsert, AcquireRecord, AcquireUnlock, AcquireFails
      <4> QED
        BY <4>1 DEF LockNext
    <3>2. ASSUME NEW p \in Procs, Dispose(p) \/ DisposeLock(p) \/ DisposeStep(p)
          PROVE  [LockNext]_lockVars
      <4>1. UNCHANGED lockVars \/ LockKey(p) \/ UnlockKey(p)
        BY <3>2, Zenon DEF DisposeStep, Dispose, DisposeLock, DisposeRead, DisposeInsert,
             DisposeRemove, DisposeUnlock
      <4> QED
        BY <4>1 DEF LockNext
    <3>3. ASSUME NEW p \in Procs, Crash(p)
          PROVE  [LockNext]_lockVars
      BY <3>3 DEF Crash, LockNext
    <3>4. ASSUME Tick \/ UNCHANGED vars
          PROVE  [LockNext]_lockVars
      BY <3>4 DEF Tick, LockNext, vars, lockVars
    <3>5. [LockNext]_lockVars
      BY <3>1, <3>2, <3>3, <3>4, Zenon DEF Next
    <3> QED
      BY <2>1, <3>5, LeaseKeepsType
  <2> USE <2>2 DEF TypeOK, Goto, Critical, AcquirePCs, DisposePCs
  <2>3. ASSUME NEW p \in Procs, AcquireLock(p) \/ AcquireStep(p)
        PROVE  TypeOK'
    <3>1. CASE AcquireLock(p)
      BY <3>1 DEF AcquireLock
    <3>2. CASE AcquireRead(p)
      BY <3>2 DEF AcquireRead
    <3>3. CASE Prune(p)
      BY <3>3 DEF Prune
    <3>4. CASE Retry(p)
      BY <3>4 DEF Retry
    <3>5. CASE AcquireInsert(p)
      BY <3>5 DEF AcquireInsert
    <3>6. CASE AcquireRecord(p)
      <4>1. rec' = [a \in Acqs |-> IF a = acq[p] THEN Lease ELSE rec[a]]
        BY <3>6 DEF AcquireRecord
      <4>2. rec' \in [Acqs -> 0 .. Lease]
        BY <4>1
      <4> QED
        BY <3>6, <4>2 DEF AcquireRecord
    <3>7. CASE AcquireUnlock(p) \/ AcquireFails(p)
      BY <3>7 DEF AcquireUnlock, AcquireFails
    <3> QED
      BY <2>3, <3>1, <3>2, <3>3, <3>4, <3>5, <3>6, <3>7 DEF AcquireStep
  <2>4. ASSUME NEW p \in Procs, Dispose(p) \/ DisposeLock(p) \/ DisposeStep(p)
        PROVE  TypeOK'
    <3>1. CASE Dispose(p) \/ DisposeLock(p)
      BY <3>1 DEF Dispose, DisposeLock
    <3>2. CASE DisposeRead(p)
      BY <3>2 DEF DisposeRead
    <3>3. CASE DisposeInsert(p)
      BY <3>3 DEF DisposeInsert
    <3>4. CASE DisposeRemove(p)
      <4>1. rec' = [a \in Acqs |-> IF a = acq[p] THEN 0 ELSE rec[a]]
        BY <3>4 DEF DisposeRemove
      <4>2. rec' \in [Acqs -> 0 .. Lease]
        BY <4>1
      <4> QED
        BY <3>4, <4>2 DEF DisposeRemove
    <3>5. CASE DisposeUnlock(p)
      BY <3>5 DEF DisposeUnlock
    <3> QED
      BY <2>4, <3>1, <3>2, <3>3, <3>4, <3>5 DEF DisposeStep
  <2>5. ASSUME NEW p \in Procs, Crash(p)
        PROVE  TypeOK'
    BY <2>5 DEF Crash
  <2>6. CASE Tick
    BY <2>6 DEF Tick, Elapse
  <2>7. CASE UNCHANGED vars
    BY <2>7 DEF vars
  <2> QED
    BY <2>3, <2>4, <2>5, <2>6, <2>7 DEF Next
<1> QED
  BY <1>1, <1>2, PTL DEF Spec

-----------------------------------------------------------------------------
(* The copies that will be written back fit too.                           *)
ListsFit ==
  /\ SlotsWithinCapacity
  /\ \A p \in Procs : pc[p] \in {"insert", "dispInsert"} => Cardinality(list[p]) <= Capacity

LEMMA OneMoreFits ==
  ASSUME NEW S \in SUBSET Acqs, NEW a \in Acqs, HasRoom(S)
  PROVE  Cardinality(S \cup {a}) <= Capacity
<1>1. IsFiniteSet(S) /\ Cardinality(S) \in Nat
  BY SemaphoreAssumption, FS_Subset, FS_CardinalityType
<1>2. Cardinality(S \cup {a}) = IF a \in S THEN Cardinality(S) ELSE Cardinality(S) + 1
  BY <1>1, FS_AddElement, Zenon
<1> QED
  BY <1>1, <1>2, SemaphoreAssumption DEF HasRoom

LEMMA OneLessFits ==
  ASSUME NEW S \in SUBSET Acqs, NEW a, Cardinality(S) <= Capacity
  PROVE  Cardinality(S \ {a}) <= Capacity
<1>1. IsFiniteSet(S) /\ Cardinality(S) \in Nat
  BY SemaphoreAssumption, FS_Subset, FS_CardinalityType
<1>2. Cardinality(S \ {a}) = IF a \in S THEN Cardinality(S) - 1 ELSE Cardinality(S)
  BY <1>1, FS_RemoveElement, Zenon
<1> QED
  BY <1>1, <1>2, SemaphoreAssumption

(* Whoever writes the list back writes a list that fits: TryAcquire adds   *)
(* to a list with room only, and the others take acquisitions off.         *)
LEMMA ListsFitIsInvariant == Spec => []ListsFit
<1> USE LeaseAssumption, SemaphoreAssumption
<1>1. Init => ListsFit
  BY FS_EmptySet DEF Init, ListsFit, SlotsWithinCapacity
<1>2. TypeOK /\ ListsFit /\ [Next]_vars => ListsFit'
  <2> SUFFICES ASSUME TypeOK, ListsFit, [Next]_vars
               PROVE  ListsFit'
    OBVIOUS
  <2>0. /\ slots \subseteq Acqs
        /\ pc \in [Procs -> {"idle", "held", "dispose"} \cup Critical]
        /\ list \in [Procs -> SUBSET Acqs]
    BY DEF TypeOK
  <2> USE <2>0 DEF ListsFit, SlotsWithinCapacity, Goto
  <2>1. ASSUME NEW p \in Procs, AcquireLock(p) \/ AcquireStep(p)
        PROVE  ListsFit'
    <3>1. CASE AcquireLock(p)
      BY <3>1 DEF AcquireLock
    <3>2. CASE AcquireRead(p)
      <4>1. PICK a \in Acqs : IF HasRoom(slots)
                              THEN list' = [list EXCEPT ![p] = slots \cup {a}] /\ Goto(p, "insert")
                              ELSE list' = [list EXCEPT ![p] = slots] /\ Goto(p, "prune")
        BY <3>2 DEF AcquireRead
      <4>2. HasRoom(slots) => Cardinality(slots \cup {a}) <= Capacity
        BY OneMoreFits
      <4>3. slots' = slots
        BY <3>2 DEF AcquireRead
      <4> QED
        BY <4>1, <4>2, <4>3
    <3>3. CASE Prune(p)
      BY <3>3 DEF Prune
    <3>4. CASE Retry(p)
      <4>1. CASE HasRoom(list[p])
        <5>1. PICK a \in Acqs : list' = [list EXCEPT ![p] = @ \cup {a}] /\ Goto(p, "insert")
          BY <3>4, <4>1 DEF Retry
        <5>2. Cardinality(list[p] \cup {a}) <= Capacity
          BY <4>1, OneMoreFits
        <5>3. slots' = slots
          BY <3>4 DEF Retry
        <5> QED
          BY <5>1, <5>2, <5>3
      <4>2. CASE ~HasRoom(list[p])
        BY <3>4, <4>2 DEF Retry
      <4> QED
        BY <4>1, <4>2
    <3>5. CASE AcquireInsert(p)
      BY <3>5 DEF AcquireInsert
    <3>6. CASE AcquireRecord(p)
      BY <3>6 DEF AcquireRecord
    <3>7. CASE AcquireUnlock(p) \/ AcquireFails(p)
      BY <3>7 DEF AcquireUnlock, AcquireFails
    <3> QED
      BY <2>1, <3>1, <3>2, <3>3, <3>4, <3>5, <3>6, <3>7 DEF AcquireStep
  <2>2. ASSUME NEW p \in Procs, Dispose(p) \/ DisposeLock(p) \/ DisposeStep(p)
        PROVE  ListsFit'
    <3>1. CASE Dispose(p) \/ DisposeLock(p)
      BY <3>1 DEF Dispose, DisposeLock
    <3>2. CASE DisposeRead(p)
      BY <3>2, OneLessFits DEF DisposeRead
    <3>3. CASE DisposeInsert(p)
      BY <3>3 DEF DisposeInsert
    <3>4. CASE DisposeRemove(p) \/ DisposeUnlock(p)
      BY <3>4 DEF DisposeRemove, DisposeUnlock
    <3> QED
      BY <2>2, <3>1, <3>2, <3>3, <3>4 DEF DisposeStep
  <2>3. ASSUME NEW p \in Procs, Crash(p)
        PROVE  ListsFit'
    BY <2>3 DEF Crash
  <2>4. CASE Tick
    BY <2>4 DEF Tick
  <2>5. CASE UNCHANGED vars
    BY <2>5 DEF vars
  <2> QED
    BY <2>1, <2>2, <2>3, <2>4, <2>5 DEF Next
<1> QED
  BY <1>1, <1>2, TypeCorrect, PTL DEF Spec

(* The list of acquisitions never outgrows maxCount, even when callers     *)
(* outlive the lock they work under.                                       *)
THEOREM SlotsStayWithinCapacity == Spec => []SlotsWithinCapacity
<1>1. ListsFit => SlotsWithinCapacity
  BY DEF ListsFit
<1> QED
  BY <1>1, ListsFitIsInvariant, PTL

-----------------------------------------------------------------------------
(* From here on callers are prompt: whoever works on the list has the      *)
(* lock.                                                                   *)
LockIsHeld == \A p \in Procs : pc[p] \in Critical => holder = p

(* Two callers never have the same acquisition: a GUID is a new one. *)
OwnAcqs ==
  /\ \A p \in Procs :
       pc[p] \in {"insert", "record", "unlock", "held"} \cup {"dispose"} \cup DisposePCs
         => acq[p] # NoAcq
  /\ \A p, q \in Procs : acq[p] = acq[q] /\ acq[p] # NoAcq => p = q

(* An acquisition with a record is on the list and on every copy of the    *)
(* list that may be written back.                                          *)
Counted ==
  \A p \in Procs :
    /\ pc[p] = "insert" => acq[p] \in list[p]
    /\ pc[p] = "record" => acq[p] \in slots
    /\ pc[p] \in {"unlock", "held", "dispose"} /\ HasRecord(acq[p]) => acq[p] \in slots
    /\ pc[p] \in {"prune", "insert", "dispInsert"} =>
         \A q \in Procs \ {p} :
           pc[q] \in {"held", "dispose"} /\ HasRecord(acq[q]) => acq[q] \in list[p]

(* A caller takes the lock before it works on the list, and only its own    *)
(* unlock or death takes the lock away before its lease runs out.          *)
LEMMA TheLockIsHeld == Prompt => (Spec => []LockIsHeld)
<1> USE LeaseAssumption, SemaphoreAssumption
<1>1. Init => LockIsHeld
  BY DEF Init, LockInit, LockIsHeld, Critical, AcquirePCs, DisposePCs
<1>2. Prompt /\ TypeOK /\ LockIsHeld /\ [Next]_vars => LockIsHeld'
  <2> SUFFICES ASSUME Prompt, TypeOK, LockIsHeld, [Next]_vars
               PROVE  LockIsHeld'
    OBVIOUS
  <2>0. pc \in [Procs -> {"idle", "held", "dispose"} \cup Critical]
    BY DEF TypeOK
  <2> USE <2>0 DEF LockIsHeld, Critical, AcquirePCs, DisposePCs, Goto, LockKey, UnlockKey, Free,
                   lockVars
  <2>1. ASSUME NEW p \in Procs, AcquireLock(p) \/ AcquireStep(p)
        PROVE  LockIsHeld'
    <3>1. CASE AcquireLock(p)
      BY <3>1 DEF AcquireLock
    <3>2. CASE AcquireRead(p)
      BY <3>2 DEF AcquireRead
    <3>3. CASE Prune(p)
      BY <3>3 DEF Prune
    <3>4. CASE Retry(p)
      BY <3>4 DEF Retry
    <3>5. CASE AcquireInsert(p)
      BY <3>5 DEF AcquireInsert
    <3>6. CASE AcquireRecord(p)
      BY <3>6 DEF AcquireRecord
    <3>7. CASE AcquireUnlock(p)
      BY <3>7 DEF AcquireUnlock
    <3>8. CASE AcquireFails(p)
      BY <3>8 DEF AcquireFails
    <3> QED
      BY <2>1, <3>1, <3>2, <3>3, <3>4, <3>5, <3>6, <3>7, <3>8 DEF AcquireStep
  <2>2. ASSUME NEW p \in Procs, Dispose(p) \/ DisposeLock(p) \/ DisposeStep(p)
        PROVE  LockIsHeld'
    <3>1. CASE Dispose(p)
      BY <3>1 DEF Dispose
    <3>2. CASE DisposeLock(p)
      BY <3>2 DEF DisposeLock
    <3>3. CASE DisposeRead(p)
      BY <3>3 DEF DisposeRead
    <3>4. CASE DisposeInsert(p)
      BY <3>4 DEF DisposeInsert
    <3>5. CASE DisposeRemove(p)
      BY <3>5 DEF DisposeRemove
    <3>6. CASE DisposeUnlock(p)
      BY <3>6 DEF DisposeUnlock
    <3> QED
      BY <2>2, <3>1, <3>2, <3>3, <3>4, <3>5, <3>6 DEF DisposeStep
  <2>3. ASSUME NEW p \in Procs, Crash(p)
        PROVE  LockIsHeld'
    BY <2>3 DEF Crash, Abandon
  <2>4. CASE Tick
    BY <2>4 DEF Tick, LeaseRuns, lockVars
  <2>5. CASE UNCHANGED vars
    BY <2>5 DEF vars, lockVars
  <2> QED
    BY <2>1, <2>2, <2>3, <2>4, <2>5 DEF Next
<1>3. ASSUME Prompt
      PROVE  Spec => []LockIsHeld
  <2>1. TypeOK /\ LockIsHeld /\ [Next]_vars => LockIsHeld'
    BY <1>2, <1>3
  <2> QED
    BY <1>1, <2>1, TypeCorrect, PTL DEF Spec
<1> QED
  BY <1>3

(* Every acquisition is a new one, and no caller is given another's.       *)
LEMMA TheAcqsAreOwn == Prompt => (Spec => []OwnAcqs)
<1> USE LeaseAssumption, SemaphoreAssumption
<1>1. Init => OwnAcqs
  BY DEF Init, LockInit, OwnAcqs, DisposePCs
<1>2. Prompt /\ TypeOK /\ OwnAcqs /\ [Next]_vars => OwnAcqs'
  <2> SUFFICES ASSUME Prompt, TypeOK, OwnAcqs, [Next]_vars
               PROVE  OwnAcqs'
    OBVIOUS
  <2>0. /\ pc \in [Procs -> {"idle", "held", "dispose"} \cup Critical]
        /\ acq \in [Procs -> Acqs \cup {NoAcq}]
    BY DEF TypeOK
  <2> USE <2>0 DEF OwnAcqs, Critical, AcquirePCs, DisposePCs, Goto, Fresh
  <2>1. ASSUME NEW p \in Procs, AcquireLock(p) \/ AcquireStep(p)
        PROVE  OwnAcqs'
    <3>1. CASE AcquireLock(p)
      BY <3>1 DEF AcquireLock
    <3>2. CASE AcquireRead(p)
      BY <3>2 DEF AcquireRead
    <3>3. CASE Prune(p)
      BY <3>3 DEF Prune
    <3>4. CASE Retry(p)
      BY <3>4 DEF Retry
    <3>5. CASE AcquireInsert(p)
      BY <3>5 DEF AcquireInsert
    <3>6. CASE AcquireRecord(p)
      BY <3>6 DEF AcquireRecord
    <3>7. CASE AcquireUnlock(p)
      BY <3>7 DEF AcquireUnlock
    <3>8. CASE AcquireFails(p)
      BY <3>8 DEF AcquireFails
    <3> QED
      BY <2>1, <3>1, <3>2, <3>3, <3>4, <3>5, <3>6, <3>7, <3>8 DEF AcquireStep
  <2>2. ASSUME NEW p \in Procs, Dispose(p) \/ DisposeLock(p) \/ DisposeStep(p)
        PROVE  OwnAcqs'
    <3>1. CASE Dispose(p)
      BY <3>1 DEF Dispose
    <3>2. CASE DisposeLock(p)
      BY <3>2 DEF DisposeLock
    <3>3. CASE DisposeRead(p)
      BY <3>3 DEF DisposeRead
    <3>4. CASE DisposeInsert(p)
      BY <3>4 DEF DisposeInsert
    <3>5. CASE DisposeRemove(p)
      BY <3>5 DEF DisposeRemove
    <3>6. CASE DisposeUnlock(p)
      BY <3>6 DEF DisposeUnlock
    <3> QED
      BY <2>2, <3>1, <3>2, <3>3, <3>4, <3>5, <3>6 DEF DisposeStep
  <2>3. ASSUME NEW p \in Procs, Crash(p)
        PROVE  OwnAcqs'
    BY <2>3 DEF Crash
  <2>4. CASE Tick
    BY <2>4 DEF Tick
  <2>5. CASE UNCHANGED vars
    BY <2>5 DEF vars, lockVars
  <2> QED
    BY <2>1, <2>2, <2>3, <2>4, <2>5 DEF Next
<1>3. ASSUME Prompt
      PROVE  Spec => []OwnAcqs
  <2>1. TypeOK /\ OwnAcqs /\ [Next]_vars => OwnAcqs'
    BY <1>2, <1>3
  <2> QED
    BY <1>1, <2>1, TypeCorrect, PTL DEF Spec
<1> QED
  BY <1>3

(* Nobody else changes the list under a caller that works on it, and only  *)
(* an acquisition without a record is taken off another's list.            *)
LEMMA HoldersAreCounted == Prompt => (Spec => []Counted)
<1> USE LeaseAssumption, SemaphoreAssumption
<1>1. Init => Counted
  BY DEF Init, LockInit, Counted
<1>2. Prompt /\ TypeOK /\ LockIsHeld /\ OwnAcqs /\ Counted /\ [Next]_vars => Counted'
  <2> SUFFICES ASSUME Prompt, TypeOK, LockIsHeld, OwnAcqs, Counted, [Next]_vars
               PROVE  Counted'
    OBVIOUS
  <2>0. /\ pc \in [Procs -> {"idle", "held", "dispose"} \cup Critical]
        /\ acq \in [Procs -> Acqs \cup {NoAcq}]
        /\ slots \subseteq Acqs
        /\ list \in [Procs -> SUBSET Acqs]
        /\ rec \in [Acqs -> 0 .. Lease]
    BY DEF TypeOK
  <2> USE <2>0 DEF LockIsHeld, OwnAcqs, Counted, Critical, AcquirePCs, DisposePCs,
                   Goto, Fresh, HasRecord, Dangling
  <2>1. ASSUME NEW p \in Procs, AcquireLock(p) \/ AcquireStep(p)
        PROVE  Counted'
    <3>1. CASE AcquireLock(p)
      BY <3>1 DEF AcquireLock
    <3>2. CASE AcquireRead(p)
      BY <3>2 DEF AcquireRead
    <3>3. CASE Prune(p)
      BY <3>3 DEF Prune
    <3>4. CASE Retry(p)
      BY <3>4 DEF Retry
    <3>5. CASE AcquireInsert(p)
      BY <3>5 DEF AcquireInsert
    <3>6. CASE AcquireRecord(p)
      BY <3>6 DEF AcquireRecord
    <3>7. CASE AcquireUnlock(p)
      BY <3>7 DEF AcquireUnlock
    <3>8. CASE AcquireFails(p)
      BY <3>8 DEF AcquireFails
    <3> QED
      BY <2>1, <3>1, <3>2, <3>3, <3>4, <3>5, <3>6, <3>7, <3>8 DEF AcquireStep
  <2>2. ASSUME NEW p \in Procs, Dispose(p) \/ DisposeLock(p) \/ DisposeStep(p)
        PROVE  Counted'
    <3>1. CASE Dispose(p)
      BY <3>1 DEF Dispose
    <3>2. CASE DisposeLock(p)
      BY <3>2 DEF DisposeLock
    <3>3. CASE DisposeRead(p)
      BY <3>3 DEF DisposeRead
    <3>4. CASE DisposeInsert(p)
      BY <3>4 DEF DisposeInsert
    <3>5. CASE DisposeRemove(p)
      BY <3>5 DEF DisposeRemove
    <3>6. CASE DisposeUnlock(p)
      BY <3>6 DEF DisposeUnlock
    <3> QED
      BY <2>2, <3>1, <3>2, <3>3, <3>4, <3>5, <3>6 DEF DisposeStep
  <2>3. ASSUME NEW p \in Procs, Crash(p)
        PROVE  Counted'
    BY <2>3 DEF Crash
  <2>4. CASE Tick
    BY <2>4 DEF Tick, Elapse
  <2>5. CASE UNCHANGED vars
    BY <2>5 DEF vars, lockVars
  <2> QED
    BY <2>1, <2>2, <2>3, <2>4, <2>5 DEF Next
<1>3. ASSUME Prompt
      PROVE  Spec => []Counted
  <2>1. TypeOK /\ LockIsHeld /\ OwnAcqs /\ Counted /\ [Next]_vars => Counted'
    BY <1>2, <1>3
  <2>2. Spec => []LockIsHeld
    BY <1>3, TheLockIsHeld
  <2>3. Spec => []OwnAcqs
    BY <1>3, TheAcqsAreOwn
  <2> QED
    BY <1>1, <2>1, <2>2, <2>3, TypeCorrect, PTL DEF Spec
<1> QED
  BY <1>3

(* With prompt callers every holder that still has its record is on the    *)
(* list that the others count.                                             *)
THEOREM HoldersAreListed == Prompt => (Spec => []HolderIsListed)
<1>1. Counted => HolderIsListed
  BY DEF Counted, HolderIsListed, Live
<1>2. ASSUME Prompt
      PROVE  Spec => []HolderIsListed
  <2>1. Spec => []Counted
    BY <1>2, HoldersAreCounted
  <2> QED
    BY <1>1, <2>1, PTL
<1> QED
  BY <1>2

(* With prompt callers at most Capacity holders have their record: their   *)
(* acquisitions are different ones and all of them are on the list.        *)
THEOREM HoldersStayWithinCapacity == Prompt => (Spec => []HoldersWithinCapacity)
<1>1. TypeOK /\ OwnAcqs /\ HolderIsListed /\ SlotsWithinCapacity => HoldersWithinCapacity
  <2> SUFFICES ASSUME TypeOK, OwnAcqs, HolderIsListed, SlotsWithinCapacity
               PROVE  Cardinality(Live) <= Capacity
    BY DEF HoldersWithinCapacity
  <2> DEFINE f == [p \in Live |-> acq[p]]
  <2>1. f \in Injection(Live, slots)
    BY DEF TypeOK, OwnAcqs, HolderIsListed, Live, Injection, IsInjective
  <2>2. IsFiniteSet(slots)
    BY SemaphoreAssumption, FS_Subset DEF TypeOK
  <2>3. Cardinality(slots) \in Nat
    BY <2>2, FS_CardinalityType
  <2>4. IsFiniteSet(Live) /\ Cardinality(Live) <= Cardinality(slots)
    BY <2>1, <2>2, FS_Injection
  <2>5. Cardinality(Live) \in Nat
    BY <2>4, FS_CardinalityType
  <2> QED
    BY <2>3, <2>4, <2>5, SemaphoreAssumption DEF SlotsWithinCapacity
<1>2. ASSUME Prompt
      PROVE  Spec => []HoldersWithinCapacity
  <2>1. Spec => []OwnAcqs
    BY <1>2, TheAcqsAreOwn
  <2>2. Spec => []HolderIsListed
    BY <1>2, HoldersAreListed
  <2> QED
    BY <1>1, <2>1, <2>2, TypeCorrect, SlotsStayWithinCapacity, PTL
<1> QED
  BY <1>2
=============================================================================
