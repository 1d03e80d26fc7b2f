------------------------ MODULE DistributedLockProofs ------------------------
(***************************************************************************)
(* What the run of DistributedLock shows on two threads, for any number of *)
(* threads, any lease and any timeout: its type invariant, that at most    *)
(* one open handle has kept its record, and that HandleLostToken is never  *)
(* cancelled for nothing.                                                  *)
(*                                                                         *)
(* KeepersOwn ties the record to the thread that added it for as long as   *)
(* nothing took it away; MonitorIsQuiet and LossHasCause follow a check of *)
(* the monitor from the Get to the cancellation of the token.              *)
(***************************************************************************)
EXTENDS DistributedLock, TLAPS

WithRecord == {"added", "held"} \cup Disposing

KeepersOwn == \A p \in Procs : pc[p] \in WithRecord /\ ~gone[p] => record.owner = p

(* A thread without a handle has no monitor. *)
MonitorIsQuiet == \A p \in Procs : pc[p] \in Acquiring \cup {"added"} => mon[p] = "off"

(* A check that found the record missing while the token can still be      *)
(* cancelled was right, or was one that threw.                             *)
LossHasCause ==
  \A p \in Procs : mon[p] \in {"mark", "cancel"} /\ TokenAlive(p) => gone[p] \/ doubt[p]

(* Every state has variables of the right type: the record is there for as *)
(* long as its lifetime has not run out, and no longer.                    *)
THEOREM TypeCorrect == Spec => []TypeOK
<1> USE DistributedLockAssumption
<1>1. Init => TypeOK
  BY DEF Init, TypeOK, NoRecord, PCs, MonPCs
<1>2. TypeOK /\ [Next]_vars => TypeOK'
  <2> SUFFICES ASSUME TypeOK, [Next]_vars
               PROVE  TypeOK'
    OBVIOUS
  <2> USE DEF TypeOK, NoRecord, PCs, Acquiring, Disposing, MonPCs, Goto, Mine,
              TokenAlive, Unlimited, monVars, history
  <2>1. ASSUME NEW p \in Procs, StartAcquire(p)
        PROVE  TypeOK'
    BY <2>1 DEF StartAcquire
  <2>2. ASSUME NEW p \in Procs, AcquireStep(p)
        PROVE  TypeOK'
    <3>1. ASSUME AcquireStrategy(p)
          PROVE  TypeOK'
      BY <3>1 DEF AcquireStrategy
    <3>2. CASE AcquireAttempt(p) \/ TryAttempt(p)
      BY <3>1, <3>2 DEF AcquireAttempt, TryAttempt
    <3>3. CASE AcquireRefused(p)
      BY <3>3 DEF AcquireRefused, AddThrows
    <3>4. CASE AcquireWakes(p)
      BY <3>4 DEF AcquireWakes
    <3>5. CASE AcquireTimesOut(p)
      BY <3>5 DEF AcquireTimesOut
    <3>6. CASE TryRefused(p)
      BY <3>6 DEF TryRefused, AddThrows
    <3>7. CASE TryWakes(p)
      BY <3>7 DEF TryWakes
    <3>8. CASE MakeHandle(p)
      BY <3>8 DEF MakeHandle
    <3> QED
      BY <2>2, <3>2, <3>3, <3>4, <3>5, <3>6, <3>7, <3>8 DEF AcquireStep
  <2>3. ASSUME NEW p \in Procs, CancelAcquire(p)
        PROVE  TypeOK'
    BY <2>3 DEF CancelAcquire
  <2>4. ASSUME NEW p \in Procs, Dispose(p) \/ DisposeStep(p)
        PROVE  TypeOK'
    <3>1. CASE Dispose(p)
      BY <3>1 DEF Dispose
    <3>2. CASE DisposeSource(p)
      BY <3>2 DEF DisposeSource
    <3>3. CASE DisposeGet(p)
      BY <3>3 DEF DisposeGet
    <3>4. CASE DisposeRemove(p)
      BY <3>4 DEF DisposeRemove
    <3> QED
      BY <2>4, <3>1, <3>2, <3>3, <3>4 DEF DisposeStep
  <2>5. ASSUME NEW p \in Procs, MonitorStep(p)
        PROVE  TypeOK'
    <3>1. CASE MonitorFires(p) \/ MonitorChecks(p)
      BY <3>1 DEF MonitorFires, MonitorChecks
    <3>2. CASE MonitorCheckFails(p)
      BY <3>2 DEF MonitorCheckFails
    <3>3. CASE MarkLost(p)
      BY <3>3 DEF MarkLost
    <3>4. CASE MarkLostCancels(p)
      BY <3>4 DEF MarkLostCancels
    <3> QED
      BY <2>5, <3>1, <3>2, <3>3, <3>4 DEF MonitorStep
  <2>6. ASSUME NEW p \in Procs, Crash(p)
        PROVE  TypeOK'
    BY <2>6 DEF Crash
  <2>7. CASE Tick
    <3>1. record' \in [owner : Procs \cup {Nobody, Orphan}, ttl : 0 .. Lease]
      BY <2>7 DEF Tick
    <3>2. record'.owner = Nobody <=> record'.ttl = 0
      BY <2>7 DEF Tick
    <3>3. wait' \in [Procs -> 0 .. MaxWait \cup {Unlimited}]
      BY <2>7 DEF Tick
    <3>4. gone' \in [Procs -> BOOLEAN]
      BY <2>7, ZenonT(30) DEF Tick
    <3>5. UNCHANGED <<pc, mon, stopped, lost, doubt>>
      BY <2>7 DEF Tick
    <3> QED
      BY <3>1, <3>2, <3>3, <3>4, <3>5
  <2>8. CASE UNCHANGED vars
    BY <2>8 DEF vars
  <2> QED
    BY <2>1, <2>2, <2>3, <2>4, <2>5, <2>6, <2>7, <2>8 DEF Next
<1> QED
  BY <1>1, <1>2, PTL DEF Spec

(* A record that a thread added stays its own until gone says otherwise. *)
LEMMA KeepersOwnIsInvariant == Spec => []KeepersOwn
<1> USE DistributedLockAssumption
<1>1. Init => KeepersOwn
  BY DEF Init, KeepersOwn, WithRecord, Disposing
<1>2. TypeOK /\ KeepersOwn /\ [Next]_vars => KeepersOwn'
  <2> SUFFICES ASSUME TypeOK, KeepersOwn, [Next]_vars
               PROVE  KeepersOwn'
    OBVIOUS
  <2> USE DEF TypeOK, KeepersOwn, WithRecord, NoRecord, PCs, Acquiring, Disposing, Goto,
              Mine, monVars, history
  <2>1. ASSUME NEW p \in Procs, StartAcquire(p)
        PROVE  KeepersOwn'
    BY <2>1 DEF StartAcquire
  <2>2. ASSUME NEW p \in Procs, AcquireStep(p)
        PROVE  KeepersOwn'
    <3>1. CASE AcquireAttempt(p) \/ TryAttempt(p)
      BY <3>1 DEF AcquireAttempt, TryAttempt, AcquireStrategy
    <3>2. CASE AcquireRefused(p) \/ TryRefused(p)
      BY <3>2 DEF AcquireRefused, TryRefused, AddThrows
    <3>3. CASE AcquireWakes(p) \/ TryWakes(p)
      BY <3>3 DEF AcquireWakes, TryWakes
    <3>4. CASE AcquireTimesOut(p)
      BY <3>4 DEF AcquireTimesOut
    <3>5. CASE MakeHandle(p)
      BY <3>5 DEF MakeHandle
    <3> QED
      BY <2>2, <3>1, <3>2, <3>3, <3>4, <3>5 DEF AcquireStep
  <2>3. ASSUME NEW p \in Procs, CancelAcquire(p)
        PROVE  KeepersOwn'
    BY <2>3 DEF CancelAcquire
  <2>4. ASSUME NEW p \in Procs, Dispose(p) \/ DisposeSource(p) \/ DisposeGet(p)
        PROVE  KeepersOwn'
    BY <2>4 DEF Dispose, DisposeSource, DisposeGet
  <2>5. ASSUME NEW p \in Procs, DisposeRemove(p)
        PROVE  KeepersOwn'
    BY <2>5 DEF DisposeRemove
  <2>6. ASSUME NEW p \in Procs, MonitorStep(p)
        PROVE  KeepersOwn'
    BY <2>6 DEF MonitorStep, MonitorFires, MonitorChecks, MonitorCheckFails, MarkLost,
                MarkLostCancels
  <2>7. ASSUME NEW p \in Procs, Crash(p)
        PROVE  KeepersOwn'
    BY <2>7 DEF Crash
  <2>8. CASE Tick
    <3> SUFFICES ASSUME NEW q \in Procs, pc[q] \in WithRecord, ~gone'[q]
                 PROVE  record'.owner = q
      BY <2>8 DEF Tick
    <3>1. ~gone[q] /\ ~(record.owner = q /\ record.ttl = 1)
      BY <2>8 DEF Tick
    <3>2. record.owner = q /\ record.ttl > 1
      BY <3>1
    <3> QED
      BY <2>8, <3>2 DEF Tick
  <2>9. CASE UNCHANGED vars
    BY <2>9 DEF vars
  <2> QED
    BY <2>1, <2>2, <2>3, <2>4, <2>5, <2>6, <2>7, <2>8, <2>9 DEF Next, DisposeStep
<1> QED
  BY <1>1, <1>2, TypeCorrect, PTL DEF Spec

(* Of all the threads that are past Acquire on one name, at most one still *)
(* has the record it added.                                                *)
THEOREM AtMostOneKeepsItsRecord == Spec => []OneHandleKeepsItsRecord
<1>1. KeepersOwn => OneHandleKeepsItsRecord
  BY DEF KeepersOwn, WithRecord, OneHandleKeepsItsRecord
<1> QED
  BY <1>1, KeepersOwnIsInvariant, PTL

(* HandleLostToken is cancelled only for a handle that has lost its record *)
(* or whose ownership could not be checked: in Dispose, the monitor is     *)
(* stopped and the source of the token disposed before the record goes.    *)
THEOREM NoLossIsInvented == Spec => []NoFalseLoss
<1> USE DistributedLockAssumption
<1> DEFINE Inv == MonitorIsQuiet /\ LossHasCause /\ NoFalseLoss
<1>1. Init => Inv
  BY DEF Init, MonitorIsQuiet, LossHasCause, NoFalseLoss
<1>2. TypeOK /\ KeepersOwn /\ Inv /\ [Next]_vars => Inv'
  <2> SUFFICES ASSUME TypeOK, KeepersOwn, Inv, [Next]_vars
               PROVE  Inv'
    OBVIOUS
  <2> USE DEF TypeOK, MonitorIsQuiet, LossHasCause, NoFalseLoss, TokenAlive, PCs, Acquiring,
              Disposing, MonPCs, Goto, Mine, monVars, history
  <2>1. ASSUME NEW p \in Procs, StartAcquire(p)
        PROVE  Inv'
    BY <2>1 DEF StartAcquire
  <2>2. ASSUME NEW p \in Procs, AcquireStep(p)
        PROVE  Inv'
    <3>1. CASE AcquireAttempt(p) \/ TryAttempt(p)
      BY <3>1 DEF AcquireAttempt, TryAttempt, AcquireStrategy
    <3>2. CASE AcquireRefused(p) \/ TryRefused(p)
      BY <3>2 DEF AcquireRefused, TryRefused, AddThrows
    <3>3. CASE AcquireWakes(p) \/ TryWakes(p)
      BY <3>3 DEF AcquireWakes, TryWakes
    <3>4. CASE AcquireTimesOut(p)
      BY <3>4 DEF AcquireTimesOut
    <3>5. CASE MakeHandle(p)
      BY <3>5 DEF MakeHandle
    <3> QED
      BY <2>2, <3>1, <3>2, <3>3, <3>4, <3>5 DEF AcquireStep
  <2>3. ASSUME NEW p \in Procs, CancelAcquire(p)
        PROVE  Inv'
    BY <2>3 DEF CancelAcquire
  <2>4. ASSUME NEW p \in Procs, Dispose(p) \/ DisposeStep(p)
        PROVE  Inv'
    <3>1. CASE Dispose(p)
      BY <3>1 DEF Dispose
    <3>2. CASE DisposeSource(p)
      BY <3>2 DEF DisposeSource
    <3>3. CASE DisposeGet(p)
      BY <3>3 DEF DisposeGet
    <3>4. CASE DisposeRemove(p)
      BY <3>4 DEF DisposeRemove
    <3> QED
      BY <2>4, <3>1, <3>2, <3>3, <3>4 DEF DisposeStep
  <2>5. ASSUME NEW p \in Procs, MonitorChecks(p)
        PROVE  Inv'
    <3>1. TokenAlive(p) /\ ~gone[p] => Mine(p)
      BY DEF KeepersOwn, WithRecord
    <3> QED
      BY <2>5, <3>1 DEF MonitorChecks
  <2>6. ASSUME NEW p \in Procs, MonitorFires(p) \/ MonitorCheckFails(p)
        PROVE  Inv'
    BY <2>6 DEF MonitorFires, MonitorCheckFails
  <2>7. ASSUME NEW p \in Procs, MarkLost(p) \/ MarkLostCancels(p)
        PROVE  Inv'
    BY <2>7 DEF MarkLost, MarkLostCancels
  <2>8. ASSUME NEW p \in Procs, Crash(p)
        PROVE  Inv'
    BY <2>8 DEF Crash
  <2>9. CASE Tick
    BY <2>9 DEF Tick
  <2>10. CASE UNCHANGED vars
    BY <2>10 DEF vars
  <2> QED
    BY <2>1, <2>2, <2>3, <2>4, <2>5, <2>6, <2>7, <2>8, <2>9, <2>10 DEF Next, MonitorStep
<1> QED
  BY <1>1, <1>2, TypeCorrect, KeepersOwnIsInvariant, PTL DEF Spec

(* What LossIsSignalled rests on.  The monitor of an open handle never     *)
(* gives up quietly: it is armed, checks, or is about to decide, and       *)
(* nobody has stopped it; or it has decided and is about to cancel the     *)
(* token; or the token is cancelled.                                       *)
HandlesAreWatched ==
  \A p \in Procs :
    pc[p] = "held" =>
      \/ mon[p] \in {"armed", "check", "mark"} /\ ~stopped[p]
      \/ mon[p] = "cancel"
      \/ lost[p]

(* HandlesAreWatched, through every check and every exchange of _stopped.  *)
THEOREM WatchNeverEnds == Spec => []HandlesAreWatched
<1> USE DistributedLockAssumption
<1>1. Init => HandlesAreWatched
  BY DEF Init, HandlesAreWatched
<1>2. TypeOK /\ HandlesAreWatched /\ [Next]_vars => HandlesAreWatched'
  <2> SUFFICES ASSUME TypeOK, HandlesAreWatched, [Next]_vars
               PROVE  HandlesAreWatched'
    OBVIOUS
  <2> USE DEF TypeOK, HandlesAreWatched, TokenAlive, PCs, Acquiring, Disposing, MonPCs,
              Goto, Mine, monVars, history
  <2>1. ASSUME NEW p \in Procs, StartAcquire(p)
        PROVE  HandlesAreWatched'
    BY <2>1 DEF StartAcquire
  <2>2. ASSUME NEW p \in Procs, AcquireStep(p)
        PROVE  HandlesAreWatched'
    <3>1. CASE AcquireAttempt(p) \/ TryAttempt(p)
      BY <3>1 DEF AcquireAttempt, TryAttempt, AcquireStrategy
    <3>2. CASE AcquireRefused(p) \/ TryRefused(p)
      BY <3>2 DEF AcquireRefused, TryRefused
    <3>3. CASE AcquireWakes(p) \/ TryWakes(p) \/ AcquireTimesOut(p)
      BY <3>3 DEF AcquireWakes, TryWakes, AcquireTimesOut
    <3>4. CASE MakeHandle(p)
      BY <3>4 DEF MakeHandle
    <3> QED
      BY <2>2, <3>1, <3>2, <3>3, <3>4 DEF AcquireStep
  <2>3. ASSUME NEW p \in Procs, CancelAcquire(p)
        PROVE  HandlesAreWatched'
    BY <2>3 DEF CancelAcquire
  <2>4. ASSUME NEW p \in Procs, Dispose(p) \/ DisposeStep(p)
        PROVE  HandlesAreWatched'
    BY <2>4 DEF Dispose, DisposeStep, DisposeSource, DisposeGet, DisposeRemove
  <2>5. ASSUME NEW p \in Procs, MonitorFires(p) \/ MonitorChecks(p) \/ MonitorCheckFails(p)
        PROVE  HandlesAreWatched'
    BY <2>5 DEF MonitorFires, MonitorChecks, MonitorCheckFails
  <2>6. ASSUME NEW p \in Procs, MarkLost(p) \/ MarkLostCancels(p)
        PROVE  HandlesAreWatched'
    <3>1. CASE MarkLost(p)
      <4>1. pc' = pc /\ lost' = lost /\ mon[p] = "mark"
        BY <3>1 DEF MarkLost
      <4>2. \A q \in Procs \ {p} : mon'[q] = mon[q] /\ stopped'[q] = stopped[q]
        BY <3>1 DEF MarkLost
      <4>3. pc[p] = "held" => mon'[p] = "cancel" \/ lost[p]
        BY <3>1 DEF MarkLost
      <4> QED
        BY <4>1, <4>2, <4>3
    <3>2. CASE MarkLostCancels(p)
      <4>1. pc' = pc /\ stopped' = stopped
        BY <3>2 DEF MarkLostCancels
      <4>2. \A q \in Procs \ {p} : mon'[q] = mon[q] /\ lost'[q] = lost[q]
        BY <3>2 DEF MarkLostCancels
      <4>3. pc[p] = "held" => lost'[p]
        BY <3>2 DEF MarkLostCancels
      <4> QED
        BY <4>1, <4>2, <4>3
    <3> QED
      BY <2>6, <3>1, <3>2
  <2>7. ASSUME NEW p \in Procs, Crash(p)
        PROVE  HandlesAreWatched'
    BY <2>7 DEF Crash
  <2>8. CASE Tick
    BY <2>8 DEF Tick
  <2>9. CASE UNCHANGED vars
    BY <2>9 DEF vars
  <2> QED
    BY <2>1, <2>2, <2>3, <2>4, <2>5, <2>6, <2>7, <2>8, <2>9 DEF Next, MonitorStep
<1> QED
  BY <1>1, <1>2, TypeCorrect, PTL DEF Spec
=============================================================================
