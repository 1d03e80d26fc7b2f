---------------------------- MODULE KeyLockProofs ----------------------------
(***************************************************************************)
(* What KeyLock's runs show on three callers, for every set of callers and *)
(* lifetimes: its type invariant, the exclusion of callers, and that       *)
(* LockKey and UnlockKey implement the lease of LeaseLock.                 *)
(*                                                                         *)
(* The invariant behind the last two: a prompt caller that uses the lock   *)
(* still has its own token in the lock item.                               *)
(***************************************************************************)
EXTENDS KeyLock, TLAPS

OwnersHaveTheItem ==
  Prompt => \A p \in Procs : Using(p) => lock.owner = p

KeyLockInv == TypeOK /\ OwnersHaveTheItem

(* Every state has variables of the right type, whatever LockKey, UnlockKey *)
(* and the expiration of the lock item do.                                  *)
THEOREM TypeCorrect == Spec => []TypeOK
<1> USE KeyLockAssumption
<1>1. Init => TypeOK
  BY DEF Init, TypeOK, NoLock, PCs, Owning, Forever
<1>2. TypeOK /\ [Next]_vars => TypeOK'
  <2> SUFFICES ASSUME TypeOK, [Next]_vars
               PROVE  TypeOK'
    OBVIOUS
  <2> USE DEF TypeOK, NoLock, PCs, Owning, Forever, Goto
  <2>1. ASSUME NEW p \in Procs, Call(p)
        PROVE  TypeOK'
    <3>1. CASE ContainsKey(p)
      BY <3>1 DEF ContainsKey
    <3>2. CASE ContainsLock(p)
      BY <3>2 DEF ContainsLock
    <3>3. CASE AddLock(p)
      BY <3>3 DEF AddLock
    <3>4. CASE VerifyLock(p)
      BY <3>4 DEF VerifyLock
    <3>5. CASE UndoLock(p)
      BY <3>5 DEF UndoLock
    <3> QED
      BY <2>1, <3>1, <3>2, <3>3, <3>4, <3>5 DEF Call
  <2>2. ASSUME NEW p \in Procs, Unlock(p)
        PROVE  TypeOK'
    BY <2>2 DEF Unlock, UnlockWithoutToken, UnlockGet, UnlockRemove
  <2>3. ASSUME NEW p \in Procs, Crash(p)
        PROVE  TypeOK'
    BY <2>3 DEF Crash
  <2>4. CASE DataChanges
    BY <2>4 DEF DataChanges
  <2>5. CASE Tick
    BY <2>5 DEF Tick
  <2>6. CASE UNCHANGED vars
    BY <2>6 DEF vars
  <2> QED
    BY <2>1, <2>2, <2>3, <2>4, <2>5, <2>6 DEF Next
<1> QED
  BY <1>1, <1>2, PTL DEF Spec

(* The invariant is inductive: while a prompt caller uses the lock, no     *)
(* other caller can add, undo, remove or outlive its lock item.            *)
LEMMA KeyLockInvariant == Spec => []KeyLockInv
<1> USE KeyLockAssumption
<1>1. Init => OwnersHaveTheItem
  BY DEF Init, OwnersHaveTheItem, Using, Owning
<1>2. TypeOK /\ TypeOK' /\ OwnersHaveTheItem /\ [Next]_vars => OwnersHaveTheItem'
  <2> SUFFICES ASSUME TypeOK, TypeOK', OwnersHaveTheItem, [Next]_vars, Prompt
               PROVE  \A p \in Procs : Using(p)' => lock'.owner = p
    BY DEF OwnersHaveTheItem
  <2>0. \A p \in Procs : Using(p) => lock.owner = p
    BY DEF OwnersHaveTheItem
  <2> USE <2>0 DEF TypeOK, NoLock, PCs, Owning, Using, Goto
  <2>1. ASSUME NEW p \in Procs, Call(p)
        PROVE  \A q \in Procs : Using(q)' => lock'.owner = q
    <3>1. CASE ContainsKey(p)
      BY <3>1 DEF ContainsKey
    <3>2. CASE ContainsLock(p)
      BY <3>2 DEF ContainsLock
    <3>3. CASE AddLock(p)
      BY <3>3 DEF AddLock
    <3>4. CASE VerifyLock(p)
      BY <3>4 DEF VerifyLock
    <3>5. CASE UndoLock(p)
      BY <3>5 DEF UndoLock
    <3> QED
      BY <2>1, <3>1, <3>2, <3>3, <3>4, <3>5 DEF Call
  <2>2. ASSUME NEW p \in Procs, Unlock(p)
        PROVE  \A q \in Procs : Using(q)' => lock'.owner = q
    <3>1. CASE UnlockWithoutToken(p)
      BY <3>1 DEF UnlockWithoutToken
    <3>2. CASE UnlockGet(p)
      BY <3>2 DEF UnlockGet
    <3>3. CASE UnlockRemove(p)
      BY <3>3 DEF UnlockRemove
    <3> QED
      BY <2>2, <3>1, <3>2, <3>3 DEF Unlock
  <2>3. ASSUME NEW p \in Procs, Crash(p)
        PROVE  \A q \in Procs : Using(q)' => lock'.owner = q
    BY <2>3 DEF Crash
  <2>4. CASE DataChanges
    BY <2>4 DEF DataChanges
  <2>5. CASE Tick
    BY <2>5 DEF Tick
  <2>6. CASE UNCHANGED vars
    BY <2>6 DEF vars
  <2> QED
    BY <2>1, <2>2, <2>3, <2>4, <2>5, <2>6 DEF Next
<1> QED
  BY <1>1, <1>2, TypeCorrect, PTL DEF Spec, KeyLockInv

(* Prompt callers exclude each other from the moment LockKey confirms the  *)
(* token to the last cache call of UnlockKey.                              *)
THEOREM CallersExcludeEachOther == Spec => []MutualExclusion
<1>1. KeyLockInv => MutualExclusion
  BY DEF KeyLockInv, OwnersHaveTheItem, MutualExclusion
<1> QED
  BY <1>1, KeyLockInvariant, PTL

(* A prompt caller's UnlockKey removes no lock but its own: the item it    *)
(* removes in its second call still has the token it compared in the first. *)
THEOREM ForeignTokenIsRefused == Spec => ForeignTokenKeepsLock
<1> DEFINE Kept == Prompt => \A p \in Procs : pc[p] = "remove" /\ pc'[p] = "idle" =>
                     lock.owner \in {p, Nobody} \/ lock' # NoLock
<1>1. KeyLockInv /\ [Next]_vars => [Kept]_vars
  BY DEF KeyLockInv, OwnersHaveTheItem, Using, Owning
<1> QED
  BY <1>1, KeyLockInvariant, PTL DEF Spec, ForeignTokenKeepsLock

(* With prompt callers, LockKey and UnlockKey, made of several cache calls *)
(* each, implement the lease: one of those calls takes the lock or frees   *)
(* it, and the others do not change it.                                    *)
THEOREM KeyLockImplementsLease == Prompt => (Spec => ImplementsLease)
<1> USE KeyLockAssumption
<1>1. Init => Lease!LockInit
  BY DEF Init, NoLock, Lease!LockInit
<1>2. ASSUME Prompt, KeyLockInv, [Next]_vars
      PROVE  [Lease!LockNext]_(Lease!lockVars)
  <2>0. \A p \in Procs : Using(p) => lock.owner = p
    BY <1>2 DEF KeyLockInv, OwnersHaveTheItem
  <2> USE <1>2 DEF KeyLockInv, TypeOK, NoLock, Goto, Lease!lockVars
  <2>1. ASSUME NEW p \in Procs, Call(p)
        PROVE  Lease!LockKey(p) \/ Lease!UnlockKey(p) \/ UNCHANGED lock
    <3>1. CASE ContainsKey(p)
      BY <3>1 DEF ContainsKey
    <3>2. CASE ContainsLock(p)
      BY <3>2 DEF ContainsLock
    <3>3. CASE AddLock(p)
      BY <3>3 DEF AddLock, Lease!LockKey, Lease!Free
    <3>4. CASE VerifyLock(p)
      BY <3>4 DEF VerifyLock
    <3>5. CASE UndoLock(p)
      BY <3>5, <2>0 DEF UndoLock, Lease!UnlockKey, Using, Owning
    <3> QED
      BY <2>1, <3>1, <3>2, <3>3, <3>4, <3>5 DEF Call
  <2>2. ASSUME NEW p \in Procs, Unlock(p)
        PROVE  Lease!UnlockKey(p) \/ UNCHANGED lock
    <3>1. CASE UnlockWithoutToken(p)
      BY <3>1, <2>0 DEF UnlockWithoutToken, Lease!UnlockKey, Using, Owning
    <3>2. CASE UnlockGet(p)
      BY <3>2 DEF UnlockGet
    <3>3. CASE UnlockRemove(p)
      BY <3>3, <2>0 DEF UnlockRemove, Lease!UnlockKey, Using, Owning
    <3> QED
      BY <2>2, <3>1, <3>2, <3>3 DEF Unlock
  <2>3. ASSUME NEW p \in Procs, Crash(p)
        PROVE  Lease!Abandon(p)
    BY <2>3 DEF Crash, Lease!Abandon
  <2>4. CASE DataChanges
    BY <2>4 DEF DataChanges
  <2>5. CASE Tick
    <3>1. Lease!LeaseRuns
      BY <2>5 DEF Tick, Lease!LeaseRuns, Lease!Forever, Forever
    <3> QED
      BY <3>1 DEF Lease!LockNext
  <2>6. CASE UNCHANGED vars
    BY <2>6 DEF vars
  <2> QED
    BY <2>1, <2>2, <2>3, <2>4, <2>5, <2>6 DEF Next, Lease!LockNext
<1>3. ASSUME Prompt
      PROVE  Spec => ImplementsLease
  <2>1. KeyLockInv /\ [Next]_vars => [Lease!LockNext]_(Lease!lockVars)
    BY <1>2, <1>3
  <2> QED
    BY <1>1, <2>1, KeyLockInvariant, PTL DEF Spec, ImplementsLease, Lease!LockSpec
<1> QED
  BY <1>3
=============================================================================
