----------------------- MODULE ConcurrencyLimiterProofs -----------------------
(***************************************************************************)
(* For every set of nodes and requests, every limit and any number of      *)
(* faults: nobody is overtaken, no more requests than there are permits    *)
(* hold a lease, no lease is left without an owner, and the types.         *)
(*                                                                         *)
(* The first needs no invariant: each operation of the manager reads the   *)
(* queue and writes the leases under one lock.  The others rest on Shape   *)
(* and on invariants about where a request can be: TicketsInLine,          *)
(* OwnRequests, HeadsWaitOrAreOver, and on what ties the cache to the      *)
(* calls: LeasesWithinLimit, HoldersHaveLeases, NumbersDrawn.              *)
(***************************************************************************)
EXTENDS ConcurrencyLimiter, FiniteSetTheorems, SequenceTheorems, TLAPS

InTurn(r) == \A s \in Queued \ {r} : r \in Queued /\ HeadOfLine(r)

(* A step that cleans up and writes the lease of a request whose turn it   *)
(* is gives nobody else a lease.                                           *)
LEMMA OneNewLease ==
  ASSUME NEW r, Lease(r), InTurn(r)
  PROVE  \A q \in leases' \ leases : InTurn(q)
BY DEF Lease, Current

(* TryAcquireLeaseAsync grants only when nothing is queued. *)
LEMMA TheDoorIsInTurn ==
  ASSUME NEW r, MayEnter
  PROVE  InTurn(r)
BY DEF MayEnter, InTurn

(* TryPromoteQueuedAsync compares with every entry of the queue. *)
LEMMA ThePromotedIsInTurn ==
  ASSUME NEW r, MayPromote(r)
  PROVE  InTurn(r)
BY DEF MayPromote, InTurn

(* Whoever gets a lease, at the door or from the queue, in a call that     *)
(* returns or one that throws after the write, no other queued request of  *)
(* any node has been waiting longer.                                       *)
THEOREM NobodyIsOvertaken == Spec => FirstComeFirstServed
<1> USE DEF InTurn
<1> DEFINE Fair == \A r \in leases' \ leases : \A s \in Queued \ {r} : r \in Queued /\ HeadOfLine(r)
<1>1. ASSUME NEW r \in Reqs, Acquire(r) \/ Cancel(r) \/ DisposeLease(r) \/ Continue(r)
      PROVE  Fair
  BY <1>1 DEF Acquire, Cancel, DisposeLease, Continue, Enqueue, CancelledLeaves,
              ReleaseAndPump, LeaveLease, shared
<1>2. ASSUME NEW n \in Nodes, AdmissionStep(n) \/ AdmitFails(n)
      PROVE  Fair
  <2>1. CASE AdmitLease(n)
    BY <2>1, OneNewLease, TheDoorIsInTurn DEF AdmitLease
  <2>2. CASE AdmitQueued(n) \/ AdmitRefused(n)
    BY <2>2 DEF AdmitQueued, AdmitRefused, Cleanup, Current
  <2>3. CASE AdmitFails(n)
    <3>1. PICK r \in Reqs : UNCHANGED leases \/ (MayEnter /\ Lease(r)) \/ Cleanup
      BY <2>3 DEF AdmitFails, shared
    <3> QED
      BY <3>1, OneNewLease, TheDoorIsInTurn DEF Cleanup, Current
  <2> QED
    BY <1>2, <2>1, <2>2, <2>3 DEF AdmissionStep
<1>3. ASSUME NEW n \in Nodes, PumpStep(n)
      PROVE  Fair
  <2>1. CASE Promote(n)
    BY <2>1, OneNewLease, ThePromotedIsInTurn DEF Promote
  <2>2. CASE PromoteFails(n)
    <3>1. UNCHANGED leases \/ Cleanup \/ (MayPromote(head[n]) /\ Lease(head[n]))
      BY <2>2 DEF PromoteFails, shared
    <3> QED
      BY <3>1, OneNewLease, ThePromotedIsInTurn DEF Cleanup, Current
  <2>3. CASE PromoteRefused(n) \/ Undo(n)
    BY <2>3 DEF PromoteRefused, Cleanup, Current, Undo, LeaveLease
  <2>4. CASE Peek(n) \/ Drop(n) \/ Grant(n)
    BY <2>4 DEF Peek, Drop, Grant, shared
  <2> QED
    BY <1>3, <2>1, <2>2, <2>3, <2>4 DEF PumpStep
<1>4. ASSUME NEW n \in Nodes, TimerFires(n) \/ Dispose(n) \/ Crash(n)
      PROVE  Fair
  BY <1>4 DEF TimerFires, Dispose, Crash, shared
<1>5. Tick => Fair
  BY DEF Tick
<1>6. [Next]_vars => [Fair]_vars
  BY <1>1, <1>2, <1>3, <1>4, <1>5 DEF Next
<1> QED
  BY <1>6, PTL DEF Spec, FirstComeFirstServed

-----------------------------------------------------------------------------
(* The elements and the distinctness of what the channels and the local    *)
(* queues do: append and take the first.                                   *)
LEMMA AppendedElements ==
  ASSUME NEW S, NEW s \in Seq(S), NEW e \in S
  PROVE  /\ Append(s, e) \in Seq(S)
         /\ ToSet(Append(s, e)) = ToSet(s) \cup {e}
         /\ IsInjective(s) /\ e \notin ToSet(s) => IsInjective(Append(s, e))
<1>1. /\ Append(s, e) \in Seq(S) /\ Len(s) \in Nat
      /\ Len(Append(s, e)) = Len(s) + 1
      /\ \A i \in 1 .. Len(s) : Append(s, e)[i] = s[i]
      /\ Append(s, e)[Len(s) + 1] = e
  BY AppendProperties, LenProperties
<1>2. DOMAIN s = 1 .. Len(s) /\ DOMAIN Append(s, e) = 1 .. (Len(s) + 1)
  BY <1>1, LenProperties
<1>3. ToSet(Append(s, e)) = ToSet(s) \cup {e}
  BY <1>1, <1>2 DEF ToSet
<1>4. IsInjective(s) /\ e \notin ToSet(s) => IsInjective(Append(s, e))
  BY <1>1, <1>2 DEF ToSet, IsInjective
<1> QED
  BY <1>1, <1>3, <1>4

LEMMA TakenElements ==
  ASSUME NEW S, NEW s \in Seq(S), s # <<>>
  PROVE  /\ Tail(s) \in Seq(S)
         /\ Head(s) \in S /\ Head(s) \in ToSet(s)
         /\ ToSet(Tail(s)) \subseteq ToSet(s)
         /\ IsInjective(s) => IsInjective(Tail(s)) /\ Head(s) \notin ToSet(Tail(s))
<1>1. /\ Tail(s) \in Seq(S) /\ Head(s) = s[1]
      /\ Len(s) \in Nat \ {0} /\ Len(Tail(s)) = Len(s) - 1
      /\ \A i \in 1 .. Len(Tail(s)) : Tail(s)[i] = s[i + 1]
  OBVIOUS
<1>2. DOMAIN s = 1 .. Len(s) /\ DOMAIN Tail(s) = 1 .. Len(Tail(s))
  BY <1>1
<1>3. s[1] \in S
  BY <1>1
<1> QED
  BY <1>1, <1>2, <1>3 DEF ToSet, IsInjective

-----------------------------------------------------------------------------
Lines == Seq(Reqs)

(* TypeOK but for the bounds of the sequence numbers. *)
CacheShape ==
  /\ leases \subseteq Reqs
  /\ left \in [Reqs -> 0 .. Timeout]
  /\ queue \in [Reqs -> Nat]
  /\ counter \in Nat

CallShape ==
  /\ st \in [Reqs -> ReqStates]
  /\ token \in [Reqs -> BOOLEAN]
  /\ leaving \subseteq Reqs
  /\ faults \in 0 .. MaxFaults
  /\ leaked \subseteq Reqs
  /\ jumbled \in BOOLEAN

NodeShape ==
  /\ channel \in [Nodes -> Lines]
  /\ waiting \in [Nodes -> Lines]
  /\ pump \in [Nodes -> PumpStates]
  /\ head \in [Nodes -> Reqs \cup {NoReq}]
  /\ \A n \in Nodes : pump[n] \in {"drop", "promote", "grant", "undo"} => head[n] \in Reqs
  /\ node \in [Nodes -> {"up", "disposed", "down"}]

Shape == CacheShape /\ CallShape /\ NodeShape

LEMMA LineElements ==
  ASSUME NEW s \in Lines
  PROVE  ToSet(s) \subseteq Reqs
BY DEF Lines, ToSet

(* What a step of the pump does to its node. *)
LEMMA PumpKeepsShape ==
  ASSUME NodeShape, NEW n \in Nodes, NEW s \in PumpStates, NEW h \in Reqs \cup {NoReq},
         s \in {"drop", "promote", "grant", "undo"} => h \in Reqs,
         Pump(n, s, h), UNCHANGED <<channel, node>>,
         UNCHANGED waiting \/ Dequeue(n)
  PROVE  NodeShape'
<1>1. waiting' \in [Nodes -> Lines]
  <2>1. CASE UNCHANGED waiting
    BY <2>1 DEF NodeShape
  <2>2. CASE Dequeue(n)
    <3>1. waiting[n] \in Lines
      BY DEF NodeShape
    <3>2. (IF waiting[n] = <<>> THEN waiting[n] ELSE Tail(waiting[n])) \in Lines
      BY <3>1, TakenElements DEF Lines
    <3> QED
      BY <2>2, <3>2 DEF Dequeue, NodeShape
  <2> QED
    BY <2>1, <2>2
<1>2. pump' \in [Nodes -> PumpStates] /\ head' \in [Nodes -> Reqs \cup {NoReq}]
  BY DEF NodeShape, Pump
<1>3. \A m \in Nodes : pump'[m] \in {"drop", "promote", "grant", "undo"} => head'[m] \in Reqs
  BY DEF NodeShape, Pump
<1> QED
  BY <1>1, <1>2, <1>3 DEF NodeShape

LEMMA ShapeIsInvariant == Spec => []Shape
<1> USE LimiterAssumption
<1>1. Init => Shape
  <2>1. <<>> \in Lines
    BY DEF Lines
  <2>2. Init => CacheShape
    BY DEF Init, CacheShape
  <2>3. ASSUME Init
        PROVE  CallShape
    <3>1. token \in [Reqs -> BOOLEAN] /\ jumbled \in BOOLEAN
      BY <2>3, Zenon DEF Init
    <3>2. st \in [Reqs -> ReqStates] /\ leaving \subseteq Reqs /\ leaked \subseteq Reqs
      BY <2>3 DEF Init, ReqStates
    <3>3. faults \in 0 .. MaxFaults
      BY <2>3 DEF Init
    <3> QED
      BY <3>1, <3>2, <3>3 DEF CallShape
  <2>4. Init => NodeShape
    BY <2>1 DEF Init, NodeShape, PumpStates
  <2> QED
    BY <2>2, <2>3, <2>4 DEF Shape
<1>2. Shape /\ [Next]_vars => Shape'
  <2> SUFFICES ASSUME Shape, [Next]_vars
               PROVE  Shape'
    OBVIOUS
  <2>0. \A s \in Lines :
          /\ s # <<>> => Tail(s) \in Lines /\ Head(s) \in Reqs
          /\ \A r \in Reqs : Append(s, r) \in Lines
    BY TakenElements, AppendedElements DEF Lines
  <2>00. <<>> \in Lines
    BY DEF Lines
  <2> USE <2>0, <2>00 DEF Shape, CacheShape, CallShape, NodeShape, ReqStates, PumpStates,
                          Becomes, Fault, shared, local, past
  <2>1. ASSUME NEW r \in Reqs, Acquire(r) \/ Cancel(r) \/ DisposeLease(r) \/ Continue(r)
        PROVE  Shape'
    <3>1. CASE Acquire(r)
      BY <3>1 DEF Acquire
    <3>2. CASE Cancel(r)
      <4>4. /\ token' = [token EXCEPT ![r] = TRUE]
            /\ UNCHANGED shared /\ UNCHANGED local /\ UNCHANGED past
        BY <3>2, Zenon DEF Cancel
      <4>5. \/ Becomes(r, "cancelled") /\ leaving' = leaving \cup {r}
            \/ UNCHANGED <<st, leaving>>
        BY <3>2, Zenon DEF Cancel
      <4>6. token' \in [Reqs -> BOOLEAN]
        BY <4>4, Zenon
      <4>7. st' \in [Reqs -> ReqStates] /\ leaving' \subseteq Reqs
        <5>1. CASE Becomes(r, "cancelled") /\ leaving' = leaving \cup {r}
          BY <5>1
        <5>2. CASE UNCHANGED <<st, leaving>>
          BY <5>2
        <5> QED
          BY <4>5, <5>1, <5>2, Zenon
      <4>1. CacheShape'
        BY <4>4
      <4>2. CallShape'
        BY <4>4, <4>6, <4>7
      <4>3. NodeShape'
        BY <4>4
      <4> QED
        BY <4>1, <4>2, <4>3
    <3>3. CASE DisposeLease(r)
      BY <3>3 DEF DisposeLease
    <3>4. CASE Enqueue(r)
      <4>4. jumbled' \in BOOLEAN
        BY <3>4, Zenon DEF Enqueue
      <4>5. st' \in [Reqs -> ReqStates] /\ leaving' \subseteq Reqs
        <5>1. \/ Becomes(r, "cancelled") /\ leaving' = leaving \cup {r}
              \/ Becomes(r, "waiting") /\ UNCHANGED leaving
          BY <3>4, Zenon DEF Enqueue
        <5>2. CASE Becomes(r, "cancelled") /\ leaving' = leaving \cup {r}
          BY <5>2
        <5>3. CASE Becomes(r, "waiting") /\ UNCHANGED leaving
          BY <5>3
        <5> QED
          BY <5>1, <5>2, <5>3, Zenon
      <4>1. CacheShape'
        BY <3>4 DEF Enqueue
      <4>2. CallShape'
        BY <3>4, <4>4, <4>5 DEF Enqueue
      <4>3. NodeShape'
        BY <3>4 DEF Enqueue
      <4> QED
        BY <4>1, <4>2, <4>3
    <3>5. CASE CancelledLeaves(r)
      <4>5. queue' = [queue EXCEPT ![r] = 0] \/ UNCHANGED queue
        BY <3>5, Zenon DEF CancelledLeaves, LeaveQueue
      <4>6. faults' \in 0 .. MaxFaults
        BY <3>5 DEF CancelledLeaves, LeaveQueue
      <4>7. leaving' = leaving \ {r} /\ UNCHANGED <<leases, left, counter, st, token, local, leaked, jumbled>>
        BY <3>5 DEF CancelledLeaves
      <4>1. CacheShape'
        <5>1. CASE queue' = [queue EXCEPT ![r] = 0]
          BY <4>7, <5>1
        <5>2. CASE UNCHANGED queue
          BY <4>7, <5>2
        <5> QED
          BY <4>5, <5>1, <5>2
      <4>2. CallShape'
        BY <4>6, <4>7
      <4>3. NodeShape'
        BY <4>7
      <4> QED
        BY <4>1, <4>2, <4>3
    <3>6. CASE ReleaseAndPump(r)
      <4>1. CacheShape'
        BY <3>6 DEF ReleaseAndPump, LeaveLease
      <4>2. CallShape'
        BY <3>6 DEF ReleaseAndPump, LeaveLease
      <4>3. NodeShape'
        <5>1. UNCHANGED <<channel, waiting, head, node>>
          BY <3>6 DEF ReleaseAndPump
        <5>2. CASE pump' = [pump EXCEPT ![NodeOf[r]] = IF @ = "idle" THEN "peek" ELSE @]
          BY <5>1, <5>2
        <5>3. CASE UNCHANGED pump
          BY <5>1, <5>3
        <5> QED
          BY <3>6, <5>2, <5>3, Zenon DEF ReleaseAndPump
      <4> QED
        BY <4>1, <4>2, <4>3
    <3> QED
      BY <2>1, <3>1, <3>2, <3>3, <3>4, <3>5, <3>6 DEF Continue
  <2>2. ASSUME NEW n \in Nodes, AdmissionStep(n) \/ AdmitFails(n)
        PROVE  Shape'
    <3>1. CASE AdmitLease(n)
      BY <3>1 DEF AdmitLease, Admitting, Lease, Cleanup, Current
    <3>2. CASE AdmitQueued(n)
      BY <3>2 DEF AdmitQueued, Admitting, Lease, Cleanup, Current
    <3>3. CASE AdmitRefused(n)
      BY <3>3 DEF AdmitRefused, Admitting, Lease, Cleanup, Current
    <3>4. CASE AdmitFails(n)
      <4>5. PICK r \in Reqs :
              /\ Admitting(n, r) /\ Fault
              /\ Becomes(r, "refused") \/ Becomes(r, "done")
              /\ leaked' = leaked \/ leaked' = leaked \cup {r}
              /\ UNCHANGED <<leases, left>> \/ Lease(r) \/ Cleanup
              /\ queue' = queue \/ queue' = [queue EXCEPT ![r] = counter + 1]
              /\ counter' = counter
        BY <3>4 DEF AdmitFails
      <4>1. CacheShape'
        <5>1. leases' \subseteq Reqs /\ left' \in [Reqs -> 0 .. Timeout]
          <6>1. CASE UNCHANGED <<leases, left>>
            BY <6>1
          <6>2. CASE Lease(r)
            BY <6>2 DEF Lease, Current
          <6>3. CASE Cleanup
            BY <6>3 DEF Cleanup, Current
          <6> QED
            BY <4>5, <6>1, <6>2, <6>3, Zenon
        <5>2. queue' \in [Reqs -> Nat] /\ counter' \in Nat
          BY <4>5
        <5> QED
          BY <5>1, <5>2
      <4>2. CallShape'
        <5>1. UNCHANGED <<token, leaving, jumbled>>
          BY <4>5 DEF Admitting
        <5>2. token' \in [Reqs -> BOOLEAN] /\ jumbled' \in BOOLEAN /\ leaving' \subseteq Reqs
          BY <5>1, Zenon
        <5>3. st' \in [Reqs -> ReqStates]
          BY <4>5
        <5>4. leaked' \subseteq Reqs /\ faults' \in 0 .. MaxFaults
          BY <4>5
        <5> QED
          BY <5>2, <5>3, <5>4
      <4>3. NodeShape'
        BY <4>5 DEF Admitting
      <4> QED
        BY <4>1, <4>2, <4>3
    <3> QED
      BY <2>2, <3>1, <3>2, <3>3, <3>4 DEF AdmissionStep
  <2>3. ASSUME NEW n \in Nodes, TimerFires(n) \/ PumpStep(n) \/ Dispose(n) \/ Crash(n)
        PROVE  Shape'
    <3>1. CASE TimerFires(n)
      BY <3>1 DEF TimerFires
    <3>2. CASE Peek(n)
      <4>4. PICK s \in PumpStates, h \in Reqs \cup {NoReq} :
              /\ s \in {"drop", "promote"} => h \in Reqs
              /\ s \notin {"grant", "undo"}
              /\ Pump(n, s, h)
              /\ UNCHANGED <<channel, waiting, node>>
        BY <3>2 DEF Peek, Pump
      <4>1. CacheShape'
        BY <3>2 DEF Peek
      <4>2. CallShape'
        BY <3>2 DEF Peek
      <4>3. NodeShape'
        BY <4>4 DEF Pump
      <4> QED
        BY <4>1, <4>2, <4>3
    <3>3. CASE Drop(n)
      <4>5. queue' = [queue EXCEPT ![head[n]] = 0] \/ queue' = queue
        BY <3>3 DEF Drop, LeaveQueue
      <4>6. UNCHANGED <<leases, left, counter>>
        BY <3>3 DEF Drop
      <4>7. Pump(n, "peek", NoReq) \/ Pump(n, "idle", NoReq)
        BY <3>3, Zenon DEF Drop, GoesOn
      <4>8. UNCHANGED <<channel, node>>
        BY <3>3 DEF Drop
      <4>9. head[n] \in Reqs
        BY <3>3 DEF Drop, At
      <4>1. CacheShape'
        BY <4>5, <4>6, <4>9
      <4>2. CallShape'
        BY <3>3 DEF Drop, LeaveQueue
      <4>3. NodeShape'
        <5>1. Dequeue(n)
          BY <3>3 DEF Drop
        <5>2. NodeShape
          OBVIOUS
        <5>3. CASE Pump(n, "peek", NoReq)
          BY <4>8, <5>1, <5>2, <5>3, PumpKeepsShape
        <5>4. CASE Pump(n, "idle", NoReq)
          BY <4>8, <5>1, <5>2, <5>4, PumpKeepsShape
        <5> QED
          BY <4>7, <5>3, <5>4
      <4> QED
        BY <4>1, <4>2, <4>3
    <3>4. CASE Promote(n)
      <4>1. CacheShape'
        BY <3>4 DEF Promote, At, Lease, Current
      <4>2. CallShape'
        BY <3>4 DEF Promote
      <4>3. NodeShape'
        BY <3>4 DEF Promote, At, Pump
      <4> QED
        BY <4>1, <4>2, <4>3
    <3>5. CASE PromoteRefused(n)
      <4>1. CacheShape'
        BY <3>5 DEF PromoteRefused, Cleanup, Current
      <4>2. CallShape'
        BY <3>5 DEF PromoteRefused
      <4>3. NodeShape'
        BY <3>5 DEF PromoteRefused, Pump
      <4> QED
        BY <4>1, <4>2, <4>3
    <3>6. CASE PromoteFails(n)
      <4>5. /\ head[n] \in Reqs
            /\ UNCHANGED <<leases, left>> \/ Cleanup \/ Lease(head[n])
            /\ queue' = queue \/ queue' = [queue EXCEPT ![head[n]] = 0]
            /\ counter' = counter
            /\ leaked' = leaked \/ leaked' = leaked \cup {head[n]}
        BY <3>6 DEF PromoteFails, At
      <4>1. CacheShape'
        <5>1. leases' \subseteq Reqs /\ left' \in [Reqs -> 0 .. Timeout]
          <6>1. CASE UNCHANGED <<leases, left>>
            BY <6>1
          <6>2. CASE Lease(head[n])
            BY <4>5, <6>2 DEF Lease, Current
          <6>3. CASE Cleanup
            BY <6>3 DEF Cleanup, Current
          <6> QED
            BY <4>5, <6>1, <6>2, <6>3, Zenon
        <5>2. queue' \in [Reqs -> Nat] /\ counter' \in Nat
          <6>1. CASE queue' = queue
            BY <4>5, <6>1
          <6>2. CASE queue' = [queue EXCEPT ![head[n]] = 0]
            BY <4>5, <6>2
          <6> QED
            BY <4>5, <6>1, <6>2, Zenon
        <5> QED
          BY <5>1, <5>2
      <4>2. CallShape'
        BY <3>6, <4>5 DEF PromoteFails
      <4>3. NodeShape'
        BY <3>6 DEF PromoteFails, Pump
      <4> QED
        BY <4>1, <4>2, <4>3
    <3>7. CASE Grant(n)
      <4>4. UNCHANGED waiting \/ Dequeue(n)
        BY <3>7, Zenon DEF Grant
      <4>5. /\ head[n] \in Reqs
            /\ \/ Pump(n, "peek", NoReq)
               \/ Pump(n, "undo", head[n])
            /\ UNCHANGED <<channel, node>>
        BY <3>7 DEF Grant, At
      <4>1. CacheShape'
        BY <3>7 DEF Grant
      <4>2. CallShape'
        BY <3>7 DEF Grant
      <4>3. NodeShape'
        <5>1. NodeShape
          OBVIOUS
        <5>2. CASE Pump(n, "peek", NoReq)
          BY <4>4, <4>5, <5>1, <5>2, PumpKeepsShape
        <5>3. CASE Pump(n, "undo", head[n])
          BY <4>4, <4>5, <5>1, <5>3, PumpKeepsShape
        <5> QED
          BY <4>5, <5>2, <5>3
      <4> QED
        BY <4>1, <4>2, <4>3
    <3>8. CASE Undo(n)
      <4>4. Pump(n, "peek", NoReq) \/ Pump(n, "idle", NoReq)
        BY <3>8, Zenon DEF Undo, GoesOn
      <4>5. UNCHANGED <<channel, node>> /\ Dequeue(n)
        BY <3>8 DEF Undo
      <4>1. CacheShape'
        BY <3>8 DEF Undo, LeaveLease
      <4>2. CallShape'
        BY <3>8 DEF Undo, LeaveLease, At
      <4>3. NodeShape'
        <5>1. NodeShape
          OBVIOUS
        <5>2. CASE Pump(n, "peek", NoReq)
          BY <4>5, <5>1, <5>2, PumpKeepsShape
        <5>3. CASE Pump(n, "idle", NoReq)
          BY <4>5, <5>1, <5>3, PumpKeepsShape
        <5> QED
          BY <4>4, <5>2, <5>3
      <4> QED
        BY <4>1, <4>2, <4>3
    <3>9. CASE Dispose(n)
      <4>4. leaving' \subseteq Reqs
        <5>1. ToSet(waiting[n]) \subseteq Reqs
          BY LineElements
        <5> QED
          BY <3>9, <5>1 DEF Dispose
      <4>5. st' \in [Reqs -> ReqStates]
        BY <3>9 DEF Dispose
      <4>1. CacheShape'
        BY <3>9 DEF Dispose
      <4>2. CallShape'
        BY <3>9, <4>4, <4>5 DEF Dispose
      <4>3. NodeShape'
        BY <3>9 DEF Dispose
      <4> QED
        BY <4>1, <4>2, <4>3
    <3>10. CASE Crash(n)
      <4>1. CacheShape'
        BY <3>10 DEF Crash
      <4>2. CallShape'
        BY <3>10 DEF Crash
      <4>3. NodeShape'
        BY <3>10 DEF Crash, Pump
      <4> QED
        BY <4>1, <4>2, <4>3
    <3> QED
      BY <2>3, <3>1, <3>2, <3>3, <3>4, <3>5, <3>6, <3>7, <3>8, <3>9, <3>10 DEF PumpStep
  <2>4. CASE Tick
    BY <2>4 DEF Tick
  <2>5. CASE UNCHANGED vars
    BY <2>5 DEF vars
  <2> QED
    BY <2>1, <2>2, <2>3, <2>4, <2>5 DEF Next
<1> QED
  BY <1>1, <1>2, PTL DEF Spec

-----------------------------------------------------------------------------
(* A channel holds tickets of its own node, each once. *)
TicketsInLine ==
  \A n \in Nodes :
    /\ \A r \in ToSet(channel[n]) : st[r] = "ticket" /\ NodeOf[r] = n
    /\ IsInjective(channel[n])

LEMMA TicketsAreInLine == Spec => []TicketsInLine
<1> USE LimiterAssumption
<1>1. Init => TicketsInLine
  BY DEF Init, TicketsInLine, ToSet, IsInjective
<1>2. Shape /\ TicketsInLine /\ [Next]_vars => TicketsInLine'
  <2> SUFFICES ASSUME Shape, TicketsInLine, [Next]_vars
               PROVE  TicketsInLine'
    OBVIOUS
  <2>1. st \in [Reqs -> ReqStates] /\ channel \in [Nodes -> Lines] /\ waiting \in [Nodes -> Lines]
    BY DEF Shape, CallShape, NodeShape
  <2>2. \A n \in Nodes : ToSet(channel[n]) \subseteq Reqs /\ ToSet(waiting[n]) \subseteq Reqs
    BY <2>1, LineElements
  <2>3. ASSUME UNCHANGED channel, \A r \in Reqs : st[r] = "ticket" => st'[r] = "ticket"
        PROVE  TicketsInLine'
    BY <2>2, <2>3 DEF TicketsInLine
  <2>4. ASSUME NEW n \in Nodes, NEW r \in Reqs, NEW s, Admitting(n, r), Becomes(r, s)
        PROVE  TicketsInLine'
    <3>1. channel[n] \in Seq(Reqs) /\ channel[n] # <<>> /\ r = Head(channel[n])
      BY <2>1, <2>4 DEF Lines, Admitting
    <3>2. /\ ToSet(Tail(channel[n])) \subseteq ToSet(channel[n])
          /\ IsInjective(Tail(channel[n])) /\ r \notin ToSet(Tail(channel[n]))
          /\ r \in ToSet(channel[n])
      BY <3>1, TakenElements DEF TicketsInLine
    <3>3. channel' = [channel EXCEPT ![n] = Tail(channel[n])]
      BY <2>4 DEF Admitting
    <3>4. ASSUME NEW m \in Nodes, NEW q \in ToSet(channel'[m])
          PROVE  st'[q] = "ticket" /\ NodeOf[q] = m
      <4>1. q \in ToSet(channel[m]) /\ q # r
        BY <2>1, <3>2, <3>3, <3>4 DEF TicketsInLine
      <4> QED
        BY <2>1, <2>2, <2>4, <4>1 DEF TicketsInLine, Becomes
    <3>5. ASSUME NEW m \in Nodes
          PROVE  IsInjective(channel'[m])
      BY <2>1, <3>2, <3>3 DEF TicketsInLine
    <3> QED
      BY <3>4, <3>5 DEF TicketsInLine
  <2>5. ASSUME NEW r \in Reqs, Acquire(r)
        PROVE  TicketsInLine'
    <3>1. st' = [st EXCEPT ![r] = "ticket"] /\ st[r] = "new"
      BY <2>5 DEF Acquire, Becomes
    <3>2. CASE UNCHANGED channel
      BY <2>1, <2>3, <3>1, <3>2
    <3>3. CASE channel' = [channel EXCEPT ![NodeOf[r]] = Append(@, r)]
      <4> DEFINE n == NodeOf[r]
      <4>1. n \in Nodes /\ r \notin ToSet(channel[n]) /\ channel[n] \in Seq(Reqs)
        BY <2>1, <3>1 DEF TicketsInLine, Lines
      <4>2. /\ ToSet(Append(channel[n], r)) = ToSet(channel[n]) \cup {r}
            /\ IsInjective(Append(channel[n], r))
        BY <4>1, AppendedElements DEF TicketsInLine
      <4>3. ASSUME NEW m \in Nodes
            PROVE  /\ \A q \in ToSet(channel'[m]) : st'[q] = "ticket" /\ NodeOf[q] = m
                   /\ IsInjective(channel'[m])
        <5>1. CASE m = n
          BY <2>1, <2>2, <3>1, <3>3, <4>1, <4>2, <5>1 DEF TicketsInLine
        <5>2. CASE m # n
          BY <2>1, <2>2, <3>1, <3>3, <4>1, <5>2 DEF TicketsInLine
        <5> QED
          BY <5>1, <5>2
      <4> QED
        BY <4>3 DEF TicketsInLine
    <3> QED
      BY <2>5, <3>2, <3>3, Zenon DEF Acquire
  <2>6. ASSUME NEW r \in Reqs, Cancel(r) \/ DisposeLease(r) \/ Continue(r)
        PROVE  TicketsInLine'
    <3>1. UNCHANGED channel
      BY <2>6
         DEF Cancel, DisposeLease, Continue, Enqueue, CancelledLeaves, ReleaseAndPump, local
    <3>2. st' = st \/ (st[r] # "ticket" /\ \E s \in ReqStates : Becomes(r, s))
      BY <2>6
         DEF Cancel, DisposeLease, Continue, Enqueue, CancelledLeaves, ReleaseAndPump,
             ReqStates
    <3> QED
      BY <2>1, <2>3, <3>1, <3>2 DEF Becomes
  <2>7. ASSUME NEW n \in Nodes, AdmissionStep(n) \/ AdmitFails(n)
        PROVE  TicketsInLine'
    <3>1. PICK r \in Reqs, s \in ReqStates : Admitting(n, r) /\ Becomes(r, s)
      BY <2>7
         DEF AdmissionStep, AdmitLease, AdmitQueued, AdmitRefused, AdmitFails, ReqStates
    <3> QED
      BY <2>4, <3>1
  <2>8. ASSUME NEW n \in Nodes, TimerFires(n) \/ PumpStep(n)
        PROVE  TicketsInLine'
    <3>1. UNCHANGED channel
      BY <2>8 DEF TimerFires, PumpStep, Peek, Drop, Promote, PromoteRefused, PromoteFails,
                  Grant, Undo
    <3>2. st' = st \/ (st[head[n]] # "ticket" /\ \E s \in ReqStates : Becomes(head[n], s))
      BY <2>8 DEF TimerFires, PumpStep, Peek, Drop, Promote, PromoteRefused, PromoteFails,
                  Grant, Undo, ReqStates
    <3> QED
      BY <2>1, <2>3, <3>1, <3>2 DEF Becomes
  <2>9. ASSUME NEW n \in Nodes, Dispose(n)
        PROVE  TicketsInLine'
    BY <2>1, <2>3, <2>9 DEF Dispose
  <2>10. ASSUME NEW n \in Nodes, Crash(n)
         PROVE  TicketsInLine'
    <3>1. /\ st' = [r \in Reqs |-> IF NodeOf[r] = n THEN "done" ELSE st[r]]
          /\ channel' = [channel EXCEPT ![n] = <<>>]
      BY <2>10 DEF Crash
    <3>2. ToSet(<<>>) = {} /\ IsInjective(<<>>)
      BY DEF ToSet, IsInjective
    <3>3. ASSUME NEW m \in Nodes
          PROVE  /\ \A q \in ToSet(channel'[m]) : st'[q] = "ticket" /\ NodeOf[q] = m
                 /\ IsInjective(channel'[m])
      <4>1. CASE m = n
        BY <2>1, <3>1, <3>2, <4>1
      <4>2. CASE m # n
        BY <2>1, <2>2, <3>1, <4>2 DEF TicketsInLine
      <4> QED
        BY <4>1, <4>2
    <3> QED
      BY <3>3 DEF TicketsInLine
  <2>11. CASE Tick \/ UNCHANGED vars
    BY <2>3, <2>11 DEF Tick, local, vars
  <2> QED
    BY <2>5, <2>6, <2>7, <2>8, <2>9, <2>10, <2>11 DEF Next
<1> QED
  BY <1>1, <1>2, ShapeIsInvariant, PTL DEF Spec

-----------------------------------------------------------------------------
HasHead(n) == pump[n] \in {"drop", "promote", "grant", "undo"}

(* A local queue and the pump of a node deal with the node's own requests. *)
OwnRequests ==
  \A n \in Nodes :
    /\ \A r \in ToSet(waiting[n]) : NodeOf[r] = n
    /\ HasHead(n) => NodeOf[head[n]] = n

LEMMA RequestsStayHome == Spec => []OwnRequests
<1> USE LimiterAssumption
<1>1. Init => OwnRequests
  BY DEF Init, OwnRequests, ToSet, HasHead
<1>2. Shape /\ OwnRequests /\ [Next]_vars => OwnRequests'
  <2> SUFFICES ASSUME Shape, OwnRequests, [Next]_vars
               PROVE  OwnRequests'
    OBVIOUS
  <2>1. /\ waiting \in [Nodes -> Lines]
        /\ pump \in [Nodes -> PumpStates] /\ head \in [Nodes -> Reqs \cup {NoReq}]
    BY DEF Shape, NodeShape
  <2>2. ASSUME UNCHANGED <<waiting, pump, head>>
        PROVE  OwnRequests'
    BY <2>2 DEF OwnRequests, HasHead
  <2>3. ASSUME NEW r \in Reqs, Enqueue(r)
        PROVE  OwnRequests'
    <3> DEFINE n == NodeOf[r]
    <3>1. waiting' = [waiting EXCEPT ![n] = Append(waiting[n], r)] /\ UNCHANGED <<pump, head>>
      BY <2>3 DEF Enqueue
    <3>2. n \in Nodes /\ waiting[n] \in Seq(Reqs)
      BY <2>1 DEF Lines
    <3>3. ToSet(Append(waiting[n], r)) = ToSet(waiting[n]) \cup {r}
      BY <3>2, AppendedElements
    <3> QED
      BY <2>1, <3>1, <3>2, <3>3 DEF OwnRequests, HasHead
  <2>4. ASSUME NEW r \in Reqs, ReleaseAndPump(r)
        PROVE  OwnRequests'
    <3>1. UNCHANGED <<waiting, head>>
      BY <2>4 DEF ReleaseAndPump
    <3>2. UNCHANGED pump \/ pump' = [pump EXCEPT ![NodeOf[r]] = IF @ = "idle" THEN "peek" ELSE @]
      BY <2>4, Zenon DEF ReleaseAndPump
    <3> QED
      BY <2>1, <3>1, <3>2 DEF OwnRequests, HasHead
  <2>5. ASSUME NEW r \in Reqs,
               Acquire(r) \/ Cancel(r) \/ DisposeLease(r) \/ CancelledLeaves(r)
        PROVE  OwnRequests'
    BY <2>2, <2>5 DEF Acquire, Cancel, DisposeLease, CancelledLeaves, local
  <2>6. ASSUME NEW n \in Nodes, AdmissionStep(n) \/ AdmitFails(n)
        PROVE  OwnRequests'
    BY <2>2, <2>6
       DEF AdmissionStep, AdmitLease, AdmitQueued, AdmitRefused, AdmitFails, Admitting
  <2>7. ASSUME NEW n \in Nodes, NEW s, NEW h, Pump(n, s, h),
               s \in {"drop", "promote", "grant", "undo"} => NodeOf[h] = n,
               UNCHANGED waiting \/ Dequeue(n)
        PROVE  OwnRequests'
    <3>1. ASSUME NEW m \in Nodes
          PROVE  HasHead(m)' => NodeOf[head'[m]] = m
      BY <2>1, <2>7 DEF Pump, OwnRequests, HasHead
    <3>2. ASSUME NEW m \in Nodes
          PROVE  \A r \in ToSet(waiting'[m]) : NodeOf[r] = m
      <4>1. CASE UNCHANGED waiting
        BY <4>1 DEF OwnRequests
      <4>2. CASE Dequeue(n)
        <5>1. waiting[n] \in Seq(Reqs)
          BY <2>1 DEF Lines
        <5>2. waiting[n] # <<>> => ToSet(Tail(waiting[n])) \subseteq ToSet(waiting[n])
          BY <5>1, TakenElements
        <5>3. waiting'[m] = waiting[m] \/ (m = n /\ waiting[n] # <<>> /\ waiting'[m] = Tail(waiting[n]))
          BY <2>1, <4>2 DEF Dequeue
        <5> QED
          BY <5>2, <5>3 DEF OwnRequests
      <4> QED
        BY <2>7, <4>1, <4>2
    <3> QED
      BY <3>1, <3>2 DEF OwnRequests
  <2>8. ASSUME NEW n \in Nodes, PumpStep(n)
        PROVE  OwnRequests'
    <3>1. UNCHANGED waiting \/ Dequeue(n)
      BY <2>8, Zenon
         DEF PumpStep, Peek, Drop, Promote, PromoteRefused, PromoteFails, Grant, Undo
    <3>2. CASE \E s \in {"peek", "idle"} : Pump(n, s, NoReq)
      BY <2>7, <3>1, <3>2
    <3>3. CASE Peek(n) /\ waiting[n] # <<>>
      <4>1. waiting[n] \in Seq(Reqs)
        BY <2>1 DEF Lines
      <4>2. NodeOf[Head(waiting[n])] = n
        BY <3>3, <4>1, TakenElements DEF OwnRequests
      <4>3. \E s \in {"promote", "drop"} : Pump(n, s, Head(waiting[n]))
        BY <3>3 DEF Peek
      <4> QED
        BY <2>7, <3>1, <4>2, <4>3
    <3>4. CASE HasHead(n) /\ \E s \in {"grant", "undo"} : Pump(n, s, head[n])
      BY <2>7, <3>1, <3>4 DEF OwnRequests
    <3> QED
      BY <2>8, <3>2, <3>3, <3>4, Zenon
         DEF PumpStep, Peek, Drop, Promote, PromoteRefused, PromoteFails, Grant, Undo,
             GoesOn, At, HasHead
  <2>9. ASSUME NEW n \in Nodes, TimerFires(n)
        PROVE  OwnRequests'
    BY <2>1, <2>9 DEF TimerFires, OwnRequests, HasHead
  <2>10. ASSUME NEW n \in Nodes, Dispose(n) \/ Crash(n)
         PROVE  OwnRequests'
    <3>1. ToSet(<<>>) = {}
      BY DEF ToSet
    <3>2. waiting' = [waiting EXCEPT ![n] = <<>>] /\ (UNCHANGED <<pump, head>> \/ Pump(n, "idle", NoReq))
      BY <2>10 DEF Dispose, Crash
    <3> QED
      BY <2>1, <3>1, <3>2 DEF OwnRequests, HasHead, Pump
  <2>11. CASE Tick \/ UNCHANGED vars
    BY <2>2, <2>11 DEF Tick, local, vars
  <2> QED
    BY <2>3, <2>4, <2>5, <2>6, <2>8, <2>9, <2>10, <2>11 DEF Next, Continue
<1> QED
  BY <1>1, <1>2, ShapeIsInvariant, PTL DEF Spec

-----------------------------------------------------------------------------
(* Whoever is admitted leaves the state of a ticket. *)
LEMMA AdmittedWasATicket ==
  ASSUME Shape, TicketsInLine, NEW n \in Nodes, NEW r \in Reqs, Admitting(n, r)
  PROVE  st[r] = "ticket"
<1>1. channel[n] \in Seq(Reqs) /\ channel[n] # <<>> /\ r = Head(channel[n])
  BY DEF Shape, NodeShape, Lines, Admitting
<1> QED
  BY <1>1, TakenElements DEF TicketsInLine

Over == {"cancelled", "done"}

(* What the pump promotes is waiting or over, never held; what it takes    *)
(* back is over.                                                           *)
HeadsWaitOrAreOver ==
  \A n \in Nodes :
    /\ pump[n] \in {"promote", "grant"} => st[head[n]] \in Over \cup {"waiting"}
    /\ pump[n] = "undo" => st[head[n]] \in Over

LEMMA HeadsAreNotHeld == Spec => []HeadsWaitOrAreOver
<1> USE LimiterAssumption
<1>1. Init => HeadsWaitOrAreOver
  BY DEF Init, HeadsWaitOrAreOver
<1>2. Shape /\ TicketsInLine /\ OwnRequests /\ HeadsWaitOrAreOver /\ [Next]_vars => HeadsWaitOrAreOver'
  <2> SUFFICES ASSUME Shape, TicketsInLine, OwnRequests, HeadsWaitOrAreOver, [Next]_vars
               PROVE  HeadsWaitOrAreOver'
    OBVIOUS
  <2>1. /\ st \in [Reqs -> ReqStates]
        /\ pump \in [Nodes -> PumpStates] /\ head \in [Nodes -> Reqs \cup {NoReq}]
        /\ \A n \in Nodes : HasHead(n) => head[n] \in Reqs
    BY DEF Shape, CallShape, NodeShape, HasHead
  <2>2. ASSUME \A n \in Nodes : \/ pump'[n] \notin {"promote", "grant", "undo"}
                                \/ pump'[n] = pump[n] /\ head'[n] = head[n],
               \A r \in Reqs : st[r] \in Over => st'[r] \in Over,
               \A r \in Reqs : st[r] = "waiting" => st'[r] \in Over \cup {"waiting"}
        PROVE  HeadsWaitOrAreOver'
    BY <2>1, <2>2 DEF HeadsWaitOrAreOver, HasHead
  <2>3. ASSUME NEW r \in Reqs, Acquire(r) \/ Cancel(r) \/ DisposeLease(r) \/ Enqueue(r)
                                 \/ CancelledLeaves(r)
        PROVE  HeadsWaitOrAreOver'
    <3>1. UNCHANGED <<pump, head>>
      BY <2>3 DEF Acquire, Cancel, DisposeLease, Enqueue, CancelledLeaves, local
    <3>2. \/ UNCHANGED st
          \/ st[r] \in {"new", "held", "refused", "answered"} /\ \E s \in ReqStates : Becomes(r, s)
          \/ st[r] = "waiting" /\ Becomes(r, "cancelled")
      BY <2>3, Zenon DEF Acquire, Cancel, DisposeLease, Enqueue, CancelledLeaves, ReqStates
    <3> QED
      BY <2>1, <2>2, <3>1, <3>2 DEF Becomes, Over
  <2>4. ASSUME NEW r \in Reqs, ReleaseAndPump(r)
        PROVE  HeadsWaitOrAreOver'
    <3>1. UNCHANGED head /\ st[r] = "closing" /\ Becomes(r, "done")
      BY <2>4 DEF ReleaseAndPump
    <3>2. UNCHANGED pump \/ pump' = [pump EXCEPT ![NodeOf[r]] = IF @ = "idle" THEN "peek" ELSE @]
      BY <2>4, Zenon DEF ReleaseAndPump
    <3> QED
      BY <2>1, <2>2, <3>1, <3>2 DEF Becomes, Over
  <2>5. ASSUME NEW n \in Nodes, AdmissionStep(n) \/ AdmitFails(n)
        PROVE  HeadsWaitOrAreOver'
    <3>1. PICK r \in Reqs, s \in ReqStates : Admitting(n, r) /\ Becomes(r, s)
      BY <2>5
         DEF AdmissionStep, AdmitLease, AdmitQueued, AdmitRefused, AdmitFails, ReqStates
    <3>2. st[r] = "ticket" /\ UNCHANGED <<pump, head>>
      BY <3>1, AdmittedWasATicket DEF Admitting
    <3> QED
      BY <2>1, <2>2, <3>1, <3>2 DEF Becomes, Over
  <2>6. ASSUME NEW n \in Nodes, Drop(n) \/ PromoteRefused(n) \/ PromoteFails(n) \/ Undo(n)
        PROVE  HeadsWaitOrAreOver'
    <3>1. UNCHANGED st /\ \E s \in {"peek", "idle"} : Pump(n, s, NoReq)
      BY <2>6 DEF Drop, PromoteRefused, PromoteFails, Undo, GoesOn
    <3> QED
      BY <2>1, <2>2, <3>1 DEF Pump
  <2>7. ASSUME NEW n \in Nodes, Peek(n)
        PROVE  HeadsWaitOrAreOver'
    <3>1. UNCHANGED st /\ \E s \in PumpStates, h \in Reqs \cup {NoReq} :
            /\ Pump(n, s, h)
            /\ s \notin {"grant", "undo"}
            /\ s = "promote" => st[h] = "waiting"
      <4>1. waiting[n] # <<>> => Head(waiting[n]) \in Reqs
        BY TakenElements DEF Shape, NodeShape, Lines
      <4>2. CASE waiting[n] = <<>>
        BY <2>7, <4>2 DEF Peek, PumpStates
      <4>3. CASE waiting[n] # <<>>
        BY <2>7, <4>1, <4>3 DEF Peek, PumpStates
      <4> QED
        BY <4>2, <4>3
    <3> QED
      BY <2>1, <3>1 DEF Pump, HeadsWaitOrAreOver, Over
  <2>8. ASSUME NEW n \in Nodes, Promote(n)
        PROVE  HeadsWaitOrAreOver'
    <3>1. UNCHANGED st /\ Pump(n, "grant", head[n]) /\ pump[n] = "promote"
      BY <2>8 DEF Promote, At
    <3> QED
      BY <2>1, <3>1 DEF Pump, HeadsWaitOrAreOver
  <2>9. ASSUME NEW n \in Nodes, Grant(n)
        PROVE  HeadsWaitOrAreOver'
    <3>1. pump[n] = "grant" /\ head[n] \in Reqs
      BY <2>1, <2>9 DEF Grant, At, HasHead
    <3>2. CASE st[head[n]] = "waiting"
      <4>1. Becomes(head[n], "held") /\ Pump(n, "peek", NoReq)
        BY <2>9, <3>2 DEF Grant
      <4>2. \A m \in Nodes \ {n} : HasHead(m) => head[m] # head[n]
        BY <3>1 DEF OwnRequests, HasHead
      <4>3. ASSUME NEW m \in Nodes, HasHead(m)'
            PROVE  m # n /\ pump'[m] = pump[m] /\ head'[m] = head[m] /\ st'[head[m]] = st[head[m]]
        BY <2>1, <3>1, <4>1, <4>2, <4>3 DEF Pump, HasHead, Becomes
      <4> QED
        BY <4>3 DEF HeadsWaitOrAreOver, HasHead
    <3>3. CASE st[head[n]] # "waiting"
      <4>1. UNCHANGED st /\ Pump(n, "undo", head[n])
        BY <2>9, <3>3 DEF Grant
      <4> QED
        BY <2>1, <3>1, <3>3, <4>1 DEF Pump, HeadsWaitOrAreOver
    <3> QED
      BY <3>2, <3>3
  <2>10. ASSUME NEW n \in Nodes, TimerFires(n) \/ Dispose(n) \/ Crash(n)
         PROVE  HeadsWaitOrAreOver'
    <3>1. \A m \in Nodes : \/ pump'[m] \notin {"promote", "grant", "undo"}
                           \/ pump'[m] = pump[m] /\ head'[m] = head[m]
      BY <2>1, <2>10 DEF TimerFires, Dispose, Crash, Pump
    <3>2. \A r \in Reqs : st'[r] = st[r] \/ (st'[r] = "done")
      BY <2>10 DEF TimerFires, Dispose, Crash
    <3> QED
      BY <2>2, <3>1, <3>2 DEF Over
  <2>11. CASE Tick \/ UNCHANGED vars
    BY <2>2, <2>11 DEF Tick, local, vars
  <2> QED
    BY <2>3, <2>4, <2>5, <2>6, <2>7, <2>8, <2>9, <2>10, <2>11
       DEF Next, Continue, PumpStep
<1> QED
  BY <1>1, <1>2, ShapeIsInvariant, TicketsAreInLine, RequestsStayHome, PTL DEF Spec

-----------------------------------------------------------------------------
(* The cache never counts more leases than there are permits. *)
LeasesWithinLimit == Cardinality(Current) <= PermitLimit

LEMMA OneMoreLease ==
  ASSUME Shape, NEW r \in Reqs, Lease(r), Cardinality(Current) < PermitLimit
  PROVE  LeasesWithinLimit'
<1>1. IsFiniteSet(Current) /\ Current' \subseteq Current \cup {r}
  <2>1. Current \subseteq Reqs
    BY DEF Shape, CacheShape, Current
  <2>2. IsFiniteSet(Current)
    BY <2>1, LimiterAssumption, FS_Subset
  <2> QED
    BY <2>2 DEF Shape, CacheShape, Current, Lease
<1>2. /\ IsFiniteSet(Current \cup {r})
      /\ Cardinality(Current \cup {r}) = Cardinality(Current) \/ Cardinality(Current \cup {r}) = Cardinality(Current) + 1
  BY <1>1, FS_AddElement
<1>3. /\ Cardinality(Current') <= Cardinality(Current \cup {r})
      /\ Cardinality(Current') \in Nat /\ Cardinality(Current) \in Nat
  BY <1>1, <1>2, FS_Subset, FS_CardinalityType
<1> HIDE DEF Current
<1>4. PermitLimit \in Nat
  BY LimiterAssumption
<1> QED
  BY <1>2, <1>3, <1>4 DEF LeasesWithinLimit

LEMMA NoMoreLeases ==
  ASSUME Shape, LeasesWithinLimit, Current' \subseteq Current
  PROVE  LeasesWithinLimit'
<1>1. IsFiniteSet(Current)
  BY LimiterAssumption, FS_Subset DEF Shape, CacheShape, Current
<1>2. /\ Cardinality(Current') <= Cardinality(Current)
      /\ Cardinality(Current') \in Nat /\ Cardinality(Current) \in Nat
  BY <1>1, FS_Subset, FS_CardinalityType
<1>3. PermitLimit \in Nat
  BY LimiterAssumption
<1> QED
  BY <1>2, <1>3 DEF LeasesWithinLimit

LEMMA TheLimitIsKept == Spec => []LeasesWithinLimit
<1>1. Init => LeasesWithinLimit
  BY LimiterAssumption, FS_EmptySet DEF Init, LeasesWithinLimit, Current
<1>2. Shape /\ LeasesWithinLimit /\ [Next]_vars => LeasesWithinLimit'
  <2> SUFFICES ASSUME Shape, LeasesWithinLimit, [Next]_vars
               PROVE  LeasesWithinLimit'
    OBVIOUS
  <2>1. ASSUME UNCHANGED left, leases' \subseteq leases
        PROVE  LeasesWithinLimit'
    BY <2>1, NoMoreLeases DEF Current
  <2>2. Cleanup => LeasesWithinLimit'
    BY <2>1 DEF Cleanup, Current
  <2>3. ASSUME NEW r \in Reqs, Acquire(r) \/ Cancel(r) \/ DisposeLease(r) \/ Continue(r)
        PROVE  LeasesWithinLimit'
    BY <2>1, <2>3 DEF Acquire, Cancel, DisposeLease, Continue, Enqueue, CancelledLeaves,
                      ReleaseAndPump, LeaveLease, shared
  <2>4. ASSUME NEW n \in Nodes, AdmissionStep(n) \/ AdmitFails(n)
        PROVE  LeasesWithinLimit'
    <3>1. \/ UNCHANGED <<leases, left>>
          \/ Cleanup
          \/ \E r \in Reqs : MayEnter /\ Lease(r)
      BY <2>4 DEF AdmissionStep, AdmitLease, AdmitQueued, AdmitRefused, AdmitFails, shared
    <3> QED
      BY <2>1, <2>2, <3>1, OneMoreLease DEF MayEnter
  <2>5. ASSUME NEW n \in Nodes, PumpStep(n)
        PROVE  LeasesWithinLimit'
    <3>1. CASE Promote(n) \/ PromoteFails(n)
      <4>1. head[n] \in Reqs
        BY <3>1 DEF Shape, NodeShape, Promote, PromoteFails, At
      <4>2. \/ UNCHANGED <<leases, left>>
            \/ Cleanup
            \/ MayPromote(head[n]) /\ Lease(head[n])
        BY <3>1, Zenon DEF Promote, PromoteFails, shared
      <4> QED
        BY <2>1, <2>2, <4>1, <4>2, OneMoreLease DEF MayPromote
    <3>2. CASE Peek(n) \/ Drop(n) \/ PromoteRefused(n) \/ Grant(n) \/ Undo(n)
      BY <2>1, <2>2, <3>2 DEF Peek, Drop, PromoteRefused, Grant, Undo, LeaveLease, shared
    <3> QED
      BY <2>5, <3>1, <3>2 DEF PumpStep
  <2>6. ASSUME NEW n \in Nodes, TimerFires(n) \/ Dispose(n) \/ Crash(n)
        PROVE  LeasesWithinLimit'
    BY <2>1, <2>6 DEF TimerFires, Dispose, Crash, shared
  <2>7. CASE Tick
    BY <2>7, NoMoreLeases DEF Tick, Current, Shape, CacheShape
  <2>8. CASE UNCHANGED vars
    BY <2>1, <2>8 DEF vars, shared
  <2> QED
    BY <2>3, <2>4, <2>5, <2>6, <2>7, <2>8 DEF Next
<1> QED
  BY <1>1, <1>2, ShapeIsInvariant, PTL DEF Spec

-----------------------------------------------------------------------------
Granting(n, r) == pump[n] = "grant" /\ head[n] = r

(* Who holds a lease, or is about to be told, has it in the cache until it *)
(* times out.                                                              *)
HoldersHaveLeases ==
  \A r \in Reqs :
    (st[r] = "held" \/ \E n \in Nodes : Granting(n, r)) => left[r] = 0 \/ r \in leases

(* What a step has to leave alone for that. *)
LEMMA HoldersKeepLeases ==
  ASSUME Shape, Shape', HoldersHaveLeases,
         NEW S, S \subseteq leases', \A r \in Reqs \ S : left'[r] = 0 \/ left[r] # 0,
         \A r \in leases \ leases' : \/ left'[r] = 0
                                     \/ st'[r] # "held" /\ \A n \in Nodes : ~Granting(n, r)',
         \A r \in Reqs \ S : st'[r] = "held" => st[r] = "held" \/ \E n \in Nodes : Granting(n, r),
         \A r \in Reqs \ S, n \in Nodes : Granting(n, r)' => Granting(n, r)
  PROVE  HoldersHaveLeases'
<1> SUFFICES ASSUME NEW r \in Reqs, st'[r] = "held" \/ \E n \in Nodes : Granting(n, r)',
                    left'[r] # 0, r \notin leases'
             PROVE  FALSE
  BY DEF HoldersHaveLeases
<1>1. r \notin S /\ left[r] # 0
  OBVIOUS
<1>2. st[r] = "held" \/ \E n \in Nodes : Granting(n, r)
  BY <1>1
<1>3. r \in leases
  BY <1>1, <1>2 DEF HoldersHaveLeases
<1> QED
  BY <1>3

LEMMA HoldersAreBacked == Spec => []HoldersHaveLeases
<1> USE LimiterAssumption
<1>1. Init => HoldersHaveLeases
  BY DEF Init, HoldersHaveLeases, Granting
<1>2. Shape /\ Shape' /\ TicketsInLine /\ OwnRequests /\ HeadsWaitOrAreOver
      /\ HoldersHaveLeases /\ [Next]_vars => HoldersHaveLeases'
  <2> SUFFICES ASSUME Shape, Shape', TicketsInLine, OwnRequests, HeadsWaitOrAreOver,
                      HoldersHaveLeases, [Next]_vars
               PROVE  HoldersHaveLeases'
    OBVIOUS
  <2>0. /\ leases \subseteq Reqs /\ left \in [Reqs -> 0 .. Timeout] /\ st \in [Reqs -> ReqStates]
        /\ pump \in [Nodes -> PumpStates] /\ head \in [Nodes -> Reqs \cup {NoReq}]
        /\ \A n \in Nodes : HasHead(n) => head[n] \in Reqs
    BY DEF Shape, CacheShape, CallShape, NodeShape, HasHead
  <2> DEFINE SameCache == UNCHANGED <<leases, left>> \/ Cleanup
             NoNewHolder == \A r \in Reqs : st'[r] = "held" => st[r] = "held"
             NoNewGrant == \A r \in Reqs, n \in Nodes : Granting(n, r)' => Granting(n, r)
  <2>1. ASSUME SameCache,
               \A r \in Reqs : st'[r] = "held" => st[r] = "held" \/ \E n \in Nodes : Granting(n, r),
               NoNewGrant
        PROVE  HoldersHaveLeases'
    <3>1. UNCHANGED left /\ \A r \in leases \ leases' : left'[r] = 0
      BY <2>0, <2>1 DEF Cleanup, Current
    <3> QED
      BY <2>1, <3>1, HoldersKeepLeases
  <2>2. ASSUME NEW r \in Reqs,
               Acquire(r) \/ Cancel(r) \/ DisposeLease(r) \/ Enqueue(r) \/ CancelledLeaves(r)
        PROVE  HoldersHaveLeases'
    <3>1. UNCHANGED <<leases, left, pump, head>>
      BY <2>2 DEF Acquire, Cancel, DisposeLease, Enqueue, CancelledLeaves, shared, local
    <3>2. UNCHANGED st \/ \E s \in ReqStates \ {"held"} : Becomes(r, s)
      BY <2>2, Zenon DEF Acquire, Cancel, DisposeLease, Enqueue, CancelledLeaves, ReqStates
    <3>3. NoNewHolder
      BY <2>0, <3>2 DEF Becomes
    <3> QED
      BY <2>1, <3>1, <3>3 DEF Granting
  <2>3. ASSUME NEW r \in Reqs, ReleaseAndPump(r)
        PROVE  HoldersHaveLeases'
    <3>1. UNCHANGED <<left, head>> /\ st[r] = "closing" /\ Becomes(r, "done")
      BY <2>3 DEF ReleaseAndPump
    <3>2. UNCHANGED pump \/ pump' = [pump EXCEPT ![NodeOf[r]] = IF @ = "idle" THEN "peek" ELSE @]
      BY <2>3, Zenon DEF ReleaseAndPump
    <3>3. leases' = leases \/ leases' = leases \ {r}
      BY <2>3 DEF ReleaseAndPump, LeaveLease
    <3>4. NoNewGrant
      BY <2>0, <3>1, <3>2 DEF Granting
    <3>5. NoNewHolder /\ st'[r] # "held"
      BY <2>0, <3>1 DEF Becomes
    <3>6. \A n \in Nodes : ~Granting(n, r)'
      BY <3>1, <3>4 DEF HeadsWaitOrAreOver, Over, Granting
    <3> HIDE DEF NoNewGrant
    <3>7. \A q \in leases \ leases' : st'[q] # "held" /\ \A n \in Nodes : ~Granting(n, q)'
      BY <3>3, <3>5, <3>6
    <3> QED
      BY <3>1, <3>4, <3>5, <3>7, HoldersKeepLeases DEF NoNewGrant
  <2>4. ASSUME NEW n \in Nodes, AdmissionStep(n) \/ AdmitFails(n)
        PROVE  HoldersHaveLeases'
    <3>1. NoNewGrant
      BY <2>4
         DEF AdmissionStep, AdmitLease, AdmitQueued, AdmitRefused, AdmitFails, Admitting,
             Granting
    <3>2. PICK r \in Reqs :
            \/ SameCache /\ \E s \in ReqStates \ {"held"} : Becomes(r, s)
            \/ Lease(r) /\ \E s \in ReqStates : Becomes(r, s)
      BY <2>4
         DEF AdmissionStep, AdmitLease, AdmitQueued, AdmitRefused, AdmitFails, ReqStates,
             shared
    <3>3. CASE SameCache /\ \E s \in ReqStates \ {"held"} : Becomes(r, s)
      <4>1. NoNewHolder
        BY <2>0, <3>3 DEF Becomes
      <4> QED
        BY <2>1, <3>1, <3>3, <4>1
    <3>4. CASE Lease(r) /\ \E s \in ReqStates : Becomes(r, s)
      <4>1. /\ {r} \subseteq leases'
            /\ \A q \in Reqs \ {r} : left'[q] = left[q]
            /\ \A q \in leases \ leases' : left'[q] = 0
        BY <2>0, <3>4 DEF Lease, Current
      <4>2. \A q \in Reqs \ {r} : st'[q] = st[q]
        BY <2>0, <3>4 DEF Becomes
      <4> QED
        BY <3>1, <4>1, <4>2, HoldersKeepLeases
    <3> QED
      BY <3>2, <3>3, <3>4
  <2>5. ASSUME NEW n \in Nodes, Promote(n)
        PROVE  HoldersHaveLeases'
    <3> DEFINE r == head[n]
    <3>1. r \in Reqs /\ Lease(r) /\ Pump(n, "grant", r) /\ UNCHANGED st
      BY <2>0, <2>5 DEF Promote, At, HasHead
    <3>2. /\ {r} \subseteq leases'
          /\ \A q \in Reqs \ {r} : left'[q] = left[q]
          /\ \A q \in leases \ leases' : left'[q] = 0
      BY <2>0, <3>1 DEF Lease, Current
    <3>3. \A q \in Reqs \ {r}, m \in Nodes : Granting(m, q)' => Granting(m, q)
      BY <2>0, <3>1 DEF Pump, Granting
    <3> QED
      BY <3>1, <3>2, <3>3, HoldersKeepLeases
  <2>6. ASSUME NEW n \in Nodes, NEW s \in {"peek", "idle", "promote", "drop", "undo"},
               NEW h, Pump(n, s, h)
        PROVE  NoNewGrant
    BY <2>0, <2>6 DEF Pump, Granting
  <2> HIDE DEF NoNewGrant
  <2>7. ASSUME NEW n \in Nodes, Peek(n) \/ Drop(n) \/ PromoteRefused(n) \/ Grant(n)
        PROVE  HoldersHaveLeases'
    <3>1. NoNewGrant
      BY <2>6, <2>7 DEF Peek, Drop, PromoteRefused, Grant, GoesOn
    <3>2. SameCache
      BY <2>7 DEF Peek, Drop, PromoteRefused, Grant, shared
    <3>3. st' = st \/ (Becomes(head[n], "held") /\ Granting(n, head[n]))
      BY <2>7 DEF Peek, Drop, PromoteRefused, Grant, At, Granting
    <3>4. \A r \in Reqs : st'[r] = "held" => st[r] = "held" \/ \E m \in Nodes : Granting(m, r)
      BY <2>0, <3>3 DEF Becomes
    <3> QED
      BY <2>1, <3>1, <3>2, <3>4
  <2>8. ASSUME NEW n \in Nodes, PromoteFails(n)
        PROVE  HoldersHaveLeases'
    <3>1. NoNewGrant
      BY <2>6, <2>8 DEF PromoteFails
    <3>2. head[n] \in Reqs /\ UNCHANGED st
      BY <2>0, <2>8 DEF PromoteFails, At, HasHead
    <3>3. CASE SameCache
      BY <2>1, <3>1, <3>2, <3>3
    <3>4. CASE Lease(head[n])
      <4>1. /\ {head[n]} \subseteq leases'
            /\ \A q \in Reqs \ {head[n]} : left'[q] = left[q]
            /\ \A q \in leases \ leases' : left'[q] = 0
        BY <2>0, <3>2, <3>4 DEF Lease, Current
      <4> QED
        BY <3>1, <3>2, <4>1, HoldersKeepLeases DEF NoNewGrant
    <3> QED
      BY <2>8, <3>3, <3>4, Zenon DEF PromoteFails, shared
  <2>9. ASSUME NEW n \in Nodes, Undo(n)
        PROVE  HoldersHaveLeases'
    <3> DEFINE r == head[n]
    <3>1. pump[n] = "undo" /\ r \in Reqs /\ NodeOf[r] = n /\ UNCHANGED <<st, left>>
      BY <2>0, <2>9 DEF Undo, At, HasHead, OwnRequests
    <3>2. st[r] # "held"
      BY <3>1 DEF HeadsWaitOrAreOver, Over
    <3>3. \A m \in Nodes : ~Granting(m, r)
      BY <3>1 DEF OwnRequests, HasHead, Granting
    <3>4. NoNewGrant
      BY <2>6, <2>9 DEF Undo, GoesOn
    <3>5. leases' = leases \/ leases' = leases \ {r}
      BY <2>9 DEF Undo, LeaveLease
    <3>6. \A q \in leases \ leases' : st'[q] # "held" /\ \A m \in Nodes : ~Granting(m, q)'
      BY <3>1, <3>2, <3>3, <3>4, <3>5 DEF NoNewGrant
    <3> QED
      BY <3>1, <3>4, <3>6, HoldersKeepLeases DEF NoNewGrant
  <2>10. ASSUME NEW n \in Nodes, TimerFires(n) \/ Dispose(n) \/ Crash(n)
         PROVE  HoldersHaveLeases'
    <3>1. NoNewGrant
      BY <2>0, <2>6, <2>10 DEF TimerFires, Dispose, Crash, Granting, NoNewGrant
    <3>2. NoNewHolder
      BY <2>10 DEF TimerFires, Dispose, Crash
    <3> QED
      BY <2>1, <2>10, <3>1, <3>2 DEF TimerFires, Dispose, Crash, shared
  <2>11. CASE Tick
    <3>1. \A r \in Reqs : left[r] = 0 => left'[r] = 0
      BY <2>11 DEF Tick
    <3> QED
      BY <2>11, <3>1, HoldersKeepLeases DEF Tick, local, Granting
  <2>12. CASE UNCHANGED vars
    BY <2>1, <2>12 DEF vars, shared, local, Granting, NoNewGrant
  <2> QED
    BY <2>2, <2>3, <2>4, <2>5, <2>7, <2>8, <2>9, <2>10, <2>11, <2>12
       DEF Next, Continue, PumpStep
<1> QED
  BY <1>1, <1>2, ShapeIsInvariant, TicketsAreInLine, RequestsStayHome, HeadsAreNotHeld,
     PTL DEF Spec

(* On all nodes together no more than PermitLimit requests hold a lease    *)
(* that has not timed out, whatever is cancelled, disposed, crashes or     *)
(* throws: a holder's lease is in the cache, and the cache's are counted   *)
(* in the operation that adds one.                                         *)
THEOREM NoMoreThanThePermits == Spec => []PermitsWithinLimit
<1>1. ASSUME Shape, LeasesWithinLimit, HoldersHaveLeases
      PROVE  PermitsWithinLimit
  <2>1. Holding \subseteq Current
    BY <1>1 DEF Holding, Current, HoldersHaveLeases
  <2>2. IsFiniteSet(Current)
    BY <1>1, LimiterAssumption, FS_Subset DEF Shape, CacheShape, Current
  <2>3. /\ Cardinality(Holding) <= Cardinality(Current)
        /\ Cardinality(Holding) \in Nat /\ Cardinality(Current) \in Nat
    BY <2>1, <2>2, FS_Subset, FS_CardinalityType
  <2>4. PermitLimit \in Nat
    BY LimiterAssumption
  <2> QED
    BY <1>1, <2>3, <2>4 DEF PermitsWithinLimit, LeasesWithinLimit
<1> QED
  BY <1>1, ShapeIsInvariant, TheLimitIsKept, HoldersAreBacked, PTL

-----------------------------------------------------------------------------
Promoted(n, r) == pump[n] \in {"grant", "undo"} /\ head[n] = r

Owned(r) == st[r] \in {"held", "closing"} \/ \E n \in Nodes : Promoted(n, r)

(* A step may give leases that have an owner from then on, and may take    *)
(* the owner of no other.                                                  *)
LEMMA OwnersStay ==
  ASSUME NoLeakedLease, NEW S, \A r \in S : Owned(r)' \/ r \in leaked',
         Current' \subseteq Current \cup S, leaked \subseteq leaked',
         \A r \in (Current \cap Current') \ (leaked' \cup S) : Owned(r) => Owned(r)'
  PROVE  NoLeakedLease'
<1> SUFFICES ASSUME NEW r \in Current' \ leaked'
             PROVE  Owned(r)'
  BY DEF NoLeakedLease, Owned, Promoted
<1>1. CASE r \in S
  BY <1>1
<1>2. CASE r \notin S
  <2>1. r \in Current \ leaked
    BY <1>2
  <2>2. Owned(r)
    BY <2>1 DEF NoLeakedLease, Owned, Promoted
  <2> QED
    BY <1>2, <2>1, <2>2
<1> QED
  BY <1>1, <1>2

LEMMA OneOwnerComes ==
  ASSUME NoLeakedLease, NEW r, Owned(r)' \/ r \in leaked',
         Current' \subseteq Current \cup {r}, leaked \subseteq leaked',
         \A q \in Current : Owned(q) => Owned(q)'
  PROVE  NoLeakedLease'
<1>1. \A q \in {r} : Owned(q)' \/ q \in leaked'
  OBVIOUS
<1> QED
  BY <1>1, OwnersStay

(* A lease in the cache has an owner unless a fault or a crash left it     *)
(* behind: a cancellation that races the promotion, a disposal, and a      *)
(* release that another node's operation overlaps leave none.              *)
THEOREM NoLeaseIsForgotten == Spec => []NoLeakedLease
<1> USE LimiterAssumption
<1>1. Init => NoLeakedLease
  BY DEF Init, NoLeakedLease, Current
<1>2. Shape /\ Shape' /\ TicketsInLine /\ OwnRequests /\ NoLeakedLease /\ [Next]_vars => NoLeakedLease'
  <2> SUFFICES ASSUME Shape, Shape', TicketsInLine, OwnRequests, NoLeakedLease, [Next]_vars
               PROVE  NoLeakedLease'
    OBVIOUS
  <2>0. /\ leases \subseteq Reqs /\ left \in [Reqs -> 0 .. Timeout] /\ st \in [Reqs -> ReqStates]
        /\ pump \in [Nodes -> PumpStates] /\ head \in [Nodes -> Reqs \cup {NoReq}]
        /\ \A n \in Nodes : HasHead(n) => head[n] \in Reqs
        /\ Current \subseteq Reqs
    BY DEF Shape, CacheShape, CallShape, NodeShape, HasHead, Current
  <2> DEFINE SameCache == UNCHANGED <<leases, left>> \/ Cleanup
             CallsGoOn == \A r \in Reqs : st[r] \in {"held", "closing"} => st'[r] \in {"held", "closing"}
             PumpsGoOn == \A r \in Reqs, n \in Nodes : Promoted(n, r) => Promoted(n, r)'
  <2>1. SameCache => Current' = Current
    BY <2>0 DEF Cleanup, Current
  <2>2. ASSUME NEW r \in Reqs, Lease(r)
        PROVE  Current' \subseteq Current \cup {r}
    BY <2>0, <2>2 DEF Lease, Current
  <2>3. ASSUME CallsGoOn, PumpsGoOn, Current' \subseteq Current, leaked \subseteq leaked'
        PROVE  NoLeakedLease'
    <3>1. \A r \in Reqs : Owned(r) => Owned(r)'
      BY <2>3 DEF Owned
    <3> QED
      BY <2>0, <2>3, <3>1, OwnersStay
  <2>4. ASSUME NEW r \in Reqs,
               Acquire(r) \/ Cancel(r) \/ DisposeLease(r) \/ Enqueue(r) \/ CancelledLeaves(r)
        PROVE  NoLeakedLease'
    <3>1. UNCHANGED <<leases, left, pump, head, leaked>>
      BY <2>4
         DEF Acquire, Cancel, DisposeLease, Enqueue, CancelledLeaves, shared, local, past
    <3>2. \/ UNCHANGED st
          \/ st[r] \notin {"held", "closing"} /\ \E s \in ReqStates : Becomes(r, s)
          \/ Becomes(r, "closing")
      BY <2>4, Zenon DEF Acquire, Cancel, DisposeLease, Enqueue, CancelledLeaves, ReqStates
    <3>3. CallsGoOn
      BY <2>0, <3>2 DEF Becomes
    <3> QED
      BY <2>1, <2>3, <3>1, <3>3 DEF Promoted
  <2>5. ASSUME NEW r \in Reqs, ReleaseAndPump(r)
        PROVE  NoLeakedLease'
    <3>1. UNCHANGED <<left, head>> /\ Becomes(r, "done")
      BY <2>5 DEF ReleaseAndPump
    <3>2. UNCHANGED pump \/ pump' = [pump EXCEPT ![NodeOf[r]] = IF @ = "idle" THEN "peek" ELSE @]
      BY <2>5, Zenon DEF ReleaseAndPump
    <3>3. PumpsGoOn
      BY <2>0, <3>1, <3>2 DEF Promoted
    <3>4. \/ leases' = leases \ {r} /\ leaked' = leaked
          \/ leases' = leases /\ leaked' = leaked \cup {r}
      BY <2>5 DEF ReleaseAndPump, LeaveLease
    <3>5. Current' \subseteq Current /\ leaked \subseteq leaked' /\ (r \notin Current' \/ r \in leaked')
      BY <3>1, <3>4 DEF Current
    <3>6. \A q \in Reqs \ {r} : st'[q] = st[q]
      BY <2>0, <3>1 DEF Becomes
    <3>7. \A q \in Reqs \ {r} : Owned(q) => Owned(q)'
      BY <3>3, <3>6 DEF Owned
    <3> QED
      BY <2>0, <3>5, <3>7, OwnersStay
  <2>6. ASSUME NEW n \in Nodes, AdmissionStep(n) \/ AdmitFails(n)
        PROVE  NoLeakedLease'
    <3>1. PICK r \in Reqs :
            /\ Admitting(n, r)
            /\ \E s \in ReqStates : Becomes(r, s)
            /\ \/ SameCache /\ UNCHANGED leaked
               \/ Lease(r) /\ Becomes(r, "held") /\ UNCHANGED leaked
               \/ Lease(r) /\ leaked' = leaked \cup {r}
      BY <2>6
         DEF AdmissionStep, AdmitLease, AdmitQueued, AdmitRefused, AdmitFails, ReqStates,
             shared
    <3>2. st[r] = "ticket" /\ UNCHANGED <<pump, head>>
      BY <3>1, AdmittedWasATicket DEF Admitting
    <3>3. CallsGoOn
      BY <2>0, <3>1, <3>2 DEF Becomes
    <3>4. PumpsGoOn
      BY <3>2 DEF Promoted
    <3>5. \A q \in Reqs : Owned(q) => Owned(q)'
      BY <3>3, <3>4 DEF Owned
    <3>6. CASE SameCache /\ UNCHANGED leaked
      BY <2>1, <2>3, <3>3, <3>4, <3>6
    <3>7. CASE Lease(r) /\ leaked \subseteq leaked' /\ (st'[r] = "held" \/ r \in leaked')
      <4>1. Owned(r)' \/ r \in leaked'
        BY <3>7 DEF Owned
      <4>2. Current' \subseteq Current \cup {r}
        BY <2>2, <3>7
      <4> QED
        BY <2>0, <3>5, <3>7, <4>1, <4>2, OneOwnerComes
    <3>8. Becomes(r, "held") => st'[r] = "held"
      BY <2>0 DEF Becomes
    <3> QED
      BY <3>1, <3>6, <3>7, <3>8
  <2>7. ASSUME NEW n \in Nodes, pump[n] \notin {"grant", "undo"}, NEW s, NEW h, Pump(n, s, h)
        PROVE  PumpsGoOn
    BY <2>0, <2>7 DEF Pump, Promoted
  <2> HIDE DEF PumpsGoOn
  <2>8. ASSUME NEW n \in Nodes, Peek(n) \/ Drop(n) \/ PromoteRefused(n)
        PROVE  NoLeakedLease'
    <3>1. PumpsGoOn
      BY <2>7, <2>8 DEF Peek, Drop, PromoteRefused, GoesOn, At
    <3>2. SameCache /\ UNCHANGED <<st, leaked>>
      BY <2>8 DEF Peek, Drop, PromoteRefused, shared, past
    <3> QED
      BY <2>1, <2>3, <3>1, <3>2
  <2>9. ASSUME NEW n \in Nodes, Promote(n) \/ PromoteFails(n)
        PROVE  NoLeakedLease'
    <3>1. PumpsGoOn
      BY <2>7, <2>9 DEF Promote, PromoteFails, At
    <3>2. PICK r \in Reqs : r = head[n] /\ UNCHANGED st
      BY <2>0, <2>9 DEF Promote, PromoteFails, At, HasHead
    <3>3. \/ SameCache /\ UNCHANGED leaked
          \/ Lease(r) /\ Pump(n, "grant", r) /\ UNCHANGED leaked
          \/ Lease(r) /\ leaked' = leaked \cup {r}
      BY <2>9, <3>2, Zenon DEF Promote, PromoteFails, shared, past
    <3>4. CASE SameCache /\ UNCHANGED leaked
      BY <2>1, <2>3, <3>1, <3>2, <3>4
    <3>5. CASE Lease(r) /\ leaked \subseteq leaked' /\ (Promoted(n, r)' \/ r \in leaked')
      <4>1. Owned(r)' \/ r \in leaked'
        BY <3>5 DEF Owned
      <4>2. Current' \subseteq Current \cup {r}
        BY <2>2, <3>2, <3>5
      <4>3. \A q \in Reqs : Owned(q) => Owned(q)'
        BY <3>1, <3>2 DEF Owned, PumpsGoOn
      <4> QED
        BY <2>0, <3>5, <4>1, <4>2, <4>3, OneOwnerComes
    <3>6. Pump(n, "grant", r) => Promoted(n, r)'
      BY <2>0 DEF Pump, Promoted
    <3> QED
      BY <3>3, <3>4, <3>5, <3>6
  <2>10. ASSUME NEW n \in Nodes, Grant(n)
         PROVE  NoLeakedLease'
    <3>1. PICK r \in Reqs : r = head[n] /\ UNCHANGED <<leases, left, leaked>>
      BY <2>0, <2>10 DEF Grant, At, HasHead, shared, past
    <3>2. \/ Becomes(r, "held") /\ Pump(n, "peek", NoReq)
          \/ UNCHANGED st /\ Pump(n, "undo", r)
      BY <2>10, <3>1, Zenon DEF Grant
    <3>3. \A q \in Reqs \ {r}, m \in Nodes : Promoted(m, q) => Promoted(m, q)'
      BY <2>0, <3>1, <3>2 DEF Pump, Promoted
    <3>4. \A q \in Reqs \ {r} : st'[q] = st[q]
      BY <2>0, <3>2 DEF Becomes
    <3>5. \A q \in Reqs \ {r} : Owned(q) => Owned(q)'
      BY <3>3, <3>4 DEF Owned
    <3>6. st'[r] = "held" \/ Promoted(n, r)'
      BY <2>0, <3>1, <3>2 DEF Becomes, Pump, Promoted
    <3>7. Owned(r)'
      BY <3>6 DEF Owned
    <3> QED
      BY <2>0, <2>1, <3>1, <3>5, <3>7, OwnersStay
  <2>11. ASSUME NEW n \in Nodes, Undo(n)
         PROVE  NoLeakedLease'
    <3>1. PICK r \in Reqs : r = head[n] /\ UNCHANGED <<st, left>>
      BY <2>0, <2>11 DEF Undo, At, HasHead
    <3>2. Pump(n, "peek", NoReq) \/ Pump(n, "idle", NoReq)
      BY <2>11, Zenon DEF Undo, GoesOn
    <3>3. \A q \in Reqs \ {r}, m \in Nodes : Promoted(m, q) => Promoted(m, q)'
      BY <2>0, <3>1, <3>2 DEF Pump, Promoted
    <3>4. \A q \in Reqs \ {r} : Owned(q) => Owned(q)'
      BY <3>1, <3>3 DEF Owned
    <3>5. \/ leases' = leases \ {r} /\ leaked' = leaked
          \/ leases' = leases /\ leaked' = leaked \cup {r}
      BY <2>11, <3>1 DEF Undo, LeaveLease
    <3>6. Current' \subseteq Current /\ leaked \subseteq leaked' /\ (r \notin Current' \/ r \in leaked')
      BY <3>1, <3>5 DEF Current
    <3>7. \A q \in {} : Owned(q)' \/ q \in leaked'
      OBVIOUS
    <3>8. \A q \in (Current \cap Current') \ (leaked' \cup {}) : Owned(q) => Owned(q)'
      <4> SUFFICES ASSUME NEW q \in (Current \cap Current') \ leaked', Owned(q)
                   PROVE  Owned(q)'
        OBVIOUS
      <4>1. q # r /\ q \in Reqs
        BY <2>0, <3>6 DEF Current
      <4> QED
        BY <3>4, <4>1
    <3> HIDE DEF Owned, Current, NoLeakedLease
    <3> QED
      BY <2>0, <3>6, <3>7, <3>8, OwnersStay
  <2>12. ASSUME NEW n \in Nodes, TimerFires(n) \/ Dispose(n)
         PROVE  NoLeakedLease'
    <3>1. UNCHANGED <<leases, left, leaked, head>>
      BY <2>12 DEF TimerFires, Dispose, shared, past
    <3>2. CallsGoOn
      BY <2>12 DEF TimerFires, Dispose
    <3>3. PumpsGoOn
      BY <2>0, <2>12 DEF TimerFires, Dispose, Promoted, PumpsGoOn
    <3> QED
      BY <2>1, <2>3, <3>1, <3>2, <3>3
  <2>13. ASSUME NEW n \in Nodes, Crash(n)
         PROVE  NoLeakedLease'
    <3>1. UNCHANGED <<leases, left>> /\ leaked' = leaked \cup {r \in leases : NodeOf[r] = n}
      BY <2>13 DEF Crash, shared
    <3>2. \A r \in Reqs : NodeOf[r] # n => st'[r] = st[r]
      BY <2>13 DEF Crash
    <3>3. \A r \in Reqs, m \in Nodes : NodeOf[r] # n /\ Promoted(m, r) => Promoted(m, r)'
      BY <2>0, <2>13 DEF Crash, Pump, Promoted, OwnRequests, HasHead
    <3>4. \A r \in Reqs : NodeOf[r] # n /\ Owned(r) => Owned(r)'
      BY <3>2, <3>3 DEF Owned
    <3>5. Current' = Current /\ \A r \in Current \ leaked' : NodeOf[r] # n
      BY <3>1 DEF Current
    <3> QED
      BY <2>0, <3>1, <3>4, <3>5, OwnersStay
  <2>14. CASE Tick
    <3>1. Current' \subseteq Current
      BY <2>0, <2>14 DEF Tick, Current
    <3> QED
      BY <2>3, <2>14, <3>1 DEF Tick, local, past, Promoted, PumpsGoOn
  <2>15. CASE UNCHANGED vars
    BY <2>1, <2>3, <2>15 DEF vars, shared, local, past, Promoted, PumpsGoOn
  <2> QED
    BY <2>4, <2>5, <2>6, <2>8, <2>9, <2>10, <2>11, <2>12, <2>13, <2>14, <2>15
       DEF Next, Continue, PumpStep
<1> QED
  BY <1>1, <1>2, ShapeIsInvariant, TicketsAreInLine, RequestsStayHome, PTL DEF Spec

-----------------------------------------------------------------------------
Answered == {r \in Reqs : st[r] \notin {"new", "ticket"}}

(* A sequence number is drawn by a request that is answered with it, also  *)
(* when the counter was not saved.                                         *)
NumbersDrawn ==
  /\ counter <= Cardinality(Answered)
  /\ \A r \in Reqs : queue[r] <= Cardinality(Answered)

LEMMA OneMoreAnswered ==
  ASSUME Shape, NEW r \in Reqs, st[r] = "ticket",
         NEW s \in ReqStates \ {"new", "ticket"}, Becomes(r, s)
  PROVE  Cardinality(Answered') = Cardinality(Answered) + 1 /\ Cardinality(Answered) \in Nat
<1>1. Answered' = Answered \cup {r} /\ r \notin Answered
  BY DEF Answered, Becomes, Shape, CallShape
<1>2. IsFiniteSet(Answered)
  BY LimiterAssumption, FS_Subset DEF Answered
<1> HIDE DEF Answered
<1> QED
  BY <1>1, <1>2, FS_AddElement, FS_CardinalityType

LEMMA AnsweredStays ==
  ASSUME Answered \subseteq Answered'
  PROVE  /\ Cardinality(Answered) \in Nat /\ Cardinality(Answered') \in Nat
         /\ Cardinality(Answered) <= Cardinality(Answered')
         /\ Cardinality(Answered') <= Cardinality(Reqs) /\ Cardinality(Reqs) \in Nat
<1>1. IsFiniteSet(Reqs) /\ IsFiniteSet(Answered') /\ Answered' \subseteq Reqs
  BY LimiterAssumption, FS_Subset DEF Answered
<1> QED
  BY <1>1, FS_Subset, FS_CardinalityType

LEMMA NumbersAreDrawnOnce == Spec => []NumbersDrawn
<1> USE LimiterAssumption
<1>1. Init => NumbersDrawn
  <2> SUFFICES ASSUME Init
               PROVE  NumbersDrawn
    OBVIOUS
  <2>1. Answered = {} /\ counter = 0 /\ queue = [r \in Reqs |-> 0]
    BY DEF Init, Answered
  <2> QED
    BY <2>1, FS_EmptySet DEF NumbersDrawn
<1>2. Shape /\ TicketsInLine /\ NumbersDrawn /\ [Next]_vars => NumbersDrawn'
  <2> SUFFICES ASSUME Shape, TicketsInLine, NumbersDrawn, [Next]_vars
               PROVE  NumbersDrawn'
    OBVIOUS
  <2>0. /\ queue \in [Reqs -> Nat] /\ counter \in Nat /\ st \in [Reqs -> ReqStates]
        /\ \A n \in Nodes : HasHead(n) => head[n] \in Reqs
    BY DEF Shape, CacheShape, CallShape, NodeShape, HasHead
  <2>1. ASSUME UNCHANGED counter,
               UNCHANGED queue \/ \E r \in Reqs : queue' = [queue EXCEPT ![r] = 0],
               \A r \in Reqs : st[r] \notin {"new", "ticket"} => st'[r] \notin {"new", "ticket"}
        PROVE  NumbersDrawn'
    <3>1. Answered \subseteq Answered'
      BY <2>1 DEF Answered
    <3>2. \A r \in Reqs : queue'[r] = queue[r] \/ queue'[r] = 0
      BY <2>0, <2>1
    <3> HIDE DEF Answered
    <3> QED
      BY <2>0, <2>1, <3>1, <3>2, AnsweredStays DEF NumbersDrawn
  <2>2. ASSUME NEW r \in Reqs, Acquire(r) \/ Cancel(r) \/ DisposeLease(r) \/ Continue(r)
        PROVE  NumbersDrawn'
    <3>1. /\ UNCHANGED counter
          /\ UNCHANGED queue \/ queue' = [queue EXCEPT ![r] = 0]
      BY <2>2, Zenon
         DEF Acquire, Cancel, DisposeLease, Continue, Enqueue, CancelledLeaves, LeaveQueue,
                         ReleaseAndPump, shared
    <3>2. \/ UNCHANGED st
          \/ st[r] = "new" /\ Becomes(r, "ticket")
          \/ \E s \in ReqStates \ {"new", "ticket"} : Becomes(r, s)
      BY <2>2, Zenon DEF Acquire, Cancel, DisposeLease, Continue, Enqueue, CancelledLeaves,
                         ReleaseAndPump, ReqStates
    <3> QED
      BY <2>0, <2>1, <3>1, <3>2 DEF Becomes
  <2>3. ASSUME NEW n \in Nodes, AdmissionStep(n) \/ AdmitFails(n)
        PROVE  NumbersDrawn'
    <3>1. PICK r \in Reqs, s \in ReqStates \ {"new", "ticket"} :
            /\ Admitting(n, r)
            /\ Becomes(r, s)
            /\ counter' = counter \/ counter' = counter + 1
            /\ queue' = queue \/ queue' = [queue EXCEPT ![r] = counter + 1]
      BY <2>3
         DEF AdmissionStep, AdmitLease, AdmitQueued, AdmitRefused, AdmitFails, ReqStates,
             shared
    <3>2. Cardinality(Answered') = Cardinality(Answered) + 1 /\ Cardinality(Answered) \in Nat
      BY <3>1, AdmittedWasATicket, OneMoreAnswered
    <3>3. \A q \in Reqs : queue'[q] = queue[q] \/ queue'[q] = counter + 1
      BY <2>0, <3>1
    <3> HIDE DEF Answered
    <3> QED
      BY <2>0, <3>1, <3>2, <3>3 DEF NumbersDrawn
  <2>4. ASSUME NEW n \in Nodes, PumpStep(n)
        PROVE  NumbersDrawn'
    <3>1. st' = st \/ Becomes(head[n], "held")
      BY <2>4, Zenon
         DEF PumpStep, Peek, Drop, Promote, PromoteRefused, PromoteFails, Grant, Undo
    <3>2. UNCHANGED counter /\ (UNCHANGED queue \/ (HasHead(n) /\ queue' = [queue EXCEPT ![head[n]] = 0]))
      BY <2>4, Zenon
         DEF PumpStep, Peek, Drop, Promote, PromoteRefused, PromoteFails, Grant, Undo,
                         LeaveQueue, shared, At, HasHead
    <3>3. \A r \in Reqs : st[r] \notin {"new", "ticket"} => st'[r] \notin {"new", "ticket"}
      BY <2>0, <3>1 DEF Becomes
    <3> QED
      BY <2>0, <2>1, <3>2, <3>3
  <2>5. ASSUME NEW n \in Nodes, TimerFires(n) \/ Dispose(n) \/ Crash(n)
        PROVE  NumbersDrawn'
    <3>1. UNCHANGED <<queue, counter>>
      BY <2>5 DEF TimerFires, Dispose, Crash, shared
    <3>2. \A r \in Reqs : st'[r] = st[r] \/ st'[r] = "done"
      BY <2>5 DEF TimerFires, Dispose, Crash
    <3> QED
      BY <2>1, <3>1, <3>2
  <2>6. CASE Tick \/ UNCHANGED vars
    BY <2>1, <2>6 DEF Tick, vars, shared
  <2> QED
    BY <2>2, <2>3, <2>4, <2>5, <2>6 DEF Next
<1> QED
  BY <1>1, <1>2, ShapeIsInvariant, TicketsAreInLine, PTL DEF Spec

(* Every variable keeps its type; what is not plain is that a sequence     *)
(* number never exceeds the number of requests, lost writes of the counter *)
(* included, and that the pump never works on a request there is not.      *)
THEOREM TypeCorrect == Spec => []TypeOK
<1>1. ASSUME Shape, NumbersDrawn
      PROVE  TypeOK
  <2>1. Cardinality(Answered) \in Nat /\ Cardinality(Reqs) \in Nat /\ Cardinality(Answered) <= Cardinality(Reqs)
    <3>1. IsFiniteSet(Reqs) /\ Answered \subseteq Reqs
      BY LimiterAssumption DEF Answered
    <3> QED
      BY <3>1, FS_Subset, FS_CardinalityType
  <2>2. queue \in [Reqs -> 0 .. Cardinality(Reqs)] /\ counter \in 0 .. Cardinality(Reqs)
    <3> HIDE DEF Answered
    <3> QED
      BY <1>1, <2>1 DEF Shape, CacheShape, NumbersDrawn
  <2> QED
    BY <1>1, <2>2 DEF TypeOK, Shape, CacheShape, CallShape, NodeShape, Lines
<1> QED
  BY <1>1, ShapeIsInvariant, NumbersAreDrawnOnce, PTL

-----------------------------------------------------------------------------
(* What QueuedIsServed rests on: as long as nothing failed, each entry of  *)
(* the cache's queue whose node is up is somebody's business there.  Its   *)
(* continuation will enqueue it, or it waits in the node's local queue,    *)
(* which the timer pumps, or ReleaseQueueLeaseAsync is on its way to it.   *)
(* However cancellations, promotions, a pump that drops what it peeked at  *)
(* and the continuations are interleaved, no entry is left that stands in  *)
(* the line of all nodes and that nobody will try.                         *)
Attended(r) ==
  \/ st[r] = "answered"
  \/ st[r] = "waiting" /\ r \in ToSet(waiting[NodeOf[r]])
  \/ r \in leaving

Concerned(r) == queue[r] > 0 /\ faults = 0 /\ node[NodeOf[r]] = "up"

EntriesAreAttended == \A r \in Reqs : Concerned(r) => Attended(r)

(* What the pump peeked at stays the first of the local queue until the    *)
(* pump takes it off.                                                      *)
HeadIsFirst ==
  \A n \in Nodes :
    node[n] = "up" /\ HasHead(n) => waiting[n] # <<>> /\ Head(waiting[n]) = head[n]

(* The entry goes before the lease comes. *)
PromotedHasNoEntry == \A n \in Nodes : pump[n] = "grant" => queue[head[n]] = 0

LEMMA OthersStayInLine ==
  ASSUME NEW S, NEW s \in Seq(S), s # <<>>, NEW e \in ToSet(s), e # Head(s)
  PROVE  e \in ToSet(Tail(s))
<1>1. /\ Tail(s) \in Seq(S) /\ Head(s) = s[1]
      /\ Len(s) \in Nat \ {0} /\ Len(Tail(s)) = Len(s) - 1
      /\ \A i \in 1 .. Len(Tail(s)) : Tail(s)[i] = s[i + 1]
  OBVIOUS
<1>2. DOMAIN s = 1 .. Len(s) /\ DOMAIN Tail(s) = 1 .. Len(Tail(s))
  BY <1>1
<1>3. PICK i \in 1 .. Len(s) : s[i] = e
  BY <1>2 DEF ToSet
<1>4. i - 1 \in 1 .. Len(Tail(s)) /\ Tail(s)[i - 1] = e
  BY <1>1, <1>3
<1> QED
  BY <1>2, <1>4 DEF ToSet

LEMMA FirstStaysFirst ==
  ASSUME NEW S, NEW s \in Seq(S), s # <<>>, NEW e \in S
  PROVE  Append(s, e) # <<>> /\ Head(Append(s, e)) = Head(s)
<1>1. /\ Len(s) \in Nat \ {0} /\ Len(Append(s, e)) = Len(s) + 1
      /\ Append(s, e)[1] = s[1] /\ Append(s, e) \in Seq(S)
  BY AppendProperties, LenProperties
<1> QED
  BY <1>1

LEMMA HeadsAreFirst == Spec => []HeadIsFirst
<1> USE LimiterAssumption
<1>1. Init => HeadIsFirst
  BY DEF Init, HeadIsFirst, HasHead
<1>2. Shape /\ HeadIsFirst /\ [Next]_vars => HeadIsFirst'
  <2> SUFFICES ASSUME Shape, HeadIsFirst, [Next]_vars
               PROVE  HeadIsFirst'
    OBVIOUS
  <2>1. /\ waiting \in [Nodes -> Lines] /\ node \in [Nodes -> {"up", "disposed", "down"}]
        /\ pump \in [Nodes -> PumpStates] /\ head \in [Nodes -> Reqs \cup {NoReq}]
    BY DEF Shape, NodeShape
  <2>2. ASSUME UNCHANGED <<waiting, head, node>>,
               \A n \in Nodes : HasHead(n)' => HasHead(n)
        PROVE  HeadIsFirst'
    BY <2>2 DEF HeadIsFirst
  <2>3. ASSUME NEW r \in Reqs, Enqueue(r)
        PROVE  HeadIsFirst'
    <3> DEFINE n == NodeOf[r]
    <3>1. /\ waiting' = [waiting EXCEPT ![n] = Append(waiting[n], r)]
          /\ UNCHANGED <<pump, head, node>>
      BY <2>3 DEF Enqueue
    <3>2. n \in Nodes /\ waiting[n] \in Seq(Reqs)
      BY <2>1 DEF Lines
    <3>3. waiting[n] # <<>> => /\ Append(waiting[n], r) # <<>>
                               /\ Head(Append(waiting[n], r)) = Head(waiting[n])
      BY <3>2, FirstStaysFirst
    <3> QED
      BY <2>1, <3>1, <3>2, <3>3 DEF HeadIsFirst, HasHead
  <2>4. ASSUME NEW r \in Reqs, ReleaseAndPump(r)
        PROVE  HeadIsFirst'
    <3>1. UNCHANGED <<waiting, head, node>>
      BY <2>4 DEF ReleaseAndPump
    <3>2. UNCHANGED pump \/ pump' = [pump EXCEPT ![NodeOf[r]] = IF @ = "idle" THEN "peek" ELSE @]
      BY <2>4, Zenon DEF ReleaseAndPump
    <3>3. \A n \in Nodes : HasHead(n)' => HasHead(n)
      BY <2>1, <3>2 DEF HasHead
    <3> QED
      BY <2>2, <3>1, <3>3
  <2>5. ASSUME NEW r \in Reqs,
               Acquire(r) \/ Cancel(r) \/ DisposeLease(r) \/ CancelledLeaves(r)
        PROVE  HeadIsFirst'
    BY <2>2, <2>5 DEF Acquire, Cancel, DisposeLease, CancelledLeaves, local, HasHead
  <2>6. ASSUME NEW n \in Nodes, AdmissionStep(n) \/ AdmitFails(n)
        PROVE  HeadIsFirst'
    BY <2>2, <2>6
       DEF AdmissionStep, AdmitLease, AdmitQueued, AdmitRefused, AdmitFails, Admitting, HasHead
  <2>7. ASSUME NEW n \in Nodes, \E s \in {"peek", "idle"} : Pump(n, s, NoReq),
               UNCHANGED node, \A m \in Nodes \ {n} : waiting'[m] = waiting[m]
        PROVE  HeadIsFirst'
    BY <2>1, <2>7 DEF Pump, HeadIsFirst, HasHead
  <2>8. ASSUME NEW n \in Nodes, PumpStep(n)
        PROVE  HeadIsFirst'
    <3>1. UNCHANGED node /\ (UNCHANGED waiting \/ Dequeue(n))
      BY <2>8, Zenon
         DEF PumpStep, Peek, Drop, Promote, PromoteRefused, PromoteFails, Grant, Undo
    <3>2. \A m \in Nodes \ {n} : waiting'[m] = waiting[m]
      BY <2>1, <3>1 DEF Dequeue
    <3>3. CASE \E s \in {"peek", "idle"} : Pump(n, s, NoReq)
      BY <2>7, <3>1, <3>2, <3>3
    <3>4. CASE Peek(n) /\ waiting[n] # <<>>
      <4>1. UNCHANGED waiting /\ \E s \in PumpStates : Pump(n, s, Head(waiting[n]))
        BY <3>4 DEF Peek, PumpStates
      <4> QED
        BY <2>1, <3>1, <3>4, <4>1 DEF Pump, HeadIsFirst, HasHead
    <3>5. CASE /\ HasHead(n) /\ UNCHANGED waiting
               /\ \E s \in {"grant", "undo"} : Pump(n, s, head[n])
      BY <2>1, <3>1, <3>5 DEF Pump, HeadIsFirst, HasHead
    <3> QED
      BY <2>8, <3>3, <3>4, <3>5, Zenon
         DEF PumpStep, Peek, Drop, Promote, PromoteRefused, PromoteFails, Grant, Undo,
             GoesOn, At, HasHead
  <2>9. ASSUME NEW n \in Nodes, TimerFires(n)
        PROVE  HeadIsFirst'
    BY <2>1, <2>2, <2>9 DEF TimerFires, HasHead
  <2>10. ASSUME NEW n \in Nodes, Dispose(n) \/ Crash(n)
         PROVE  HeadIsFirst'
    <3>1. /\ node' = [node EXCEPT ![n] = "disposed"] \/ node' = [node EXCEPT ![n] = "down"]
          /\ waiting' = [waiting EXCEPT ![n] = <<>>]
          /\ UNCHANGED <<pump, head>> \/ Pump(n, "idle", NoReq)
      BY <2>10 DEF Dispose, Crash
    <3> QED
      BY <2>1, <3>1 DEF HeadIsFirst, HasHead, Pump
  <2>11. CASE Tick \/ UNCHANGED vars
    BY <2>2, <2>11 DEF Tick, local, vars, HasHead
  <2> QED
    BY <2>3, <2>4, <2>5, <2>6, <2>8, <2>9, <2>10, <2>11 DEF Next, Continue
<1> QED
  BY <1>1, <1>2, ShapeIsInvariant, PTL DEF Spec

LEMMA PromotedLeftTheQueue == Spec => []PromotedHasNoEntry
<1> USE LimiterAssumption
<1>1. Init => PromotedHasNoEntry
  BY DEF Init, PromotedHasNoEntry
<1>2. /\ Shape /\ TicketsInLine /\ OwnRequests /\ HeadsWaitOrAreOver /\ PromotedHasNoEntry
      /\ [Next]_vars
      => PromotedHasNoEntry'
  <2> SUFFICES ASSUME Shape, TicketsInLine, OwnRequests, HeadsWaitOrAreOver,
                      PromotedHasNoEntry, [Next]_vars
               PROVE  PromotedHasNoEntry'
    OBVIOUS
  <2>1. /\ queue \in [Reqs -> Nat] /\ st \in [Reqs -> ReqStates]
        /\ pump \in [Nodes -> PumpStates] /\ head \in [Nodes -> Reqs \cup {NoReq}]
        /\ \A n \in Nodes : HasHead(n) => head[n] \in Reqs
    BY DEF Shape, CacheShape, CallShape, NodeShape, HasHead
  <2>2. ASSUME \A n \in Nodes : pump'[n] = "grant" => pump[n] = "grant" /\ head'[n] = head[n],
               \A r \in Reqs : queue[r] = 0 => queue'[r] = 0
        PROVE  PromotedHasNoEntry'
    BY <2>1, <2>2 DEF PromotedHasNoEntry, HasHead
  <2>3. ASSUME NEW r \in Reqs, Acquire(r) \/ Cancel(r) \/ DisposeLease(r) \/ Enqueue(r)
        PROVE  PromotedHasNoEntry'
    BY <2>2, <2>3 DEF Acquire, Cancel, DisposeLease, Enqueue, local, shared
  <2>4. ASSUME NEW r \in Reqs, CancelledLeaves(r)
        PROVE  PromotedHasNoEntry'
    <3>1. UNCHANGED <<pump, head>> /\ (UNCHANGED queue \/ queue' = [queue EXCEPT ![r] = 0])
      BY <2>4 DEF CancelledLeaves, LeaveQueue, local
    <3> QED
      BY <2>1, <2>2, <3>1
  <2>5. ASSUME NEW r \in Reqs, ReleaseAndPump(r)
        PROVE  PromotedHasNoEntry'
    <3>1. UNCHANGED <<queue, head>>
      BY <2>5 DEF ReleaseAndPump
    <3>2. UNCHANGED pump \/ pump' = [pump EXCEPT ![NodeOf[r]] = IF @ = "idle" THEN "peek" ELSE @]
      BY <2>5, Zenon DEF ReleaseAndPump
    <3>3. \A n \in Nodes : pump'[n] = "grant" => pump[n] = "grant"
      BY <2>1, <3>2
    <3> QED
      BY <2>2, <3>1, <3>3
  <2>6. ASSUME NEW n \in Nodes, AdmissionStep(n) \/ AdmitFails(n)
        PROVE  PromotedHasNoEntry'
    <3>1. PICK r \in Reqs : /\ Admitting(n, r)
                            /\ UNCHANGED queue \/ queue' = [queue EXCEPT ![r] = counter + 1]
      BY <2>6
         DEF AdmissionStep, AdmitLease, AdmitQueued, AdmitRefused, AdmitFails, shared
    <3>2. st[r] = "ticket" /\ UNCHANGED <<pump, head>>
      BY <3>1, AdmittedWasATicket DEF Admitting
    <3>3. \A m \in Nodes : pump[m] = "grant" => head[m] \in Reqs /\ head[m] # r
      BY <2>1, <3>2 DEF HeadsWaitOrAreOver, Over, HasHead
    <3> QED
      BY <2>1, <3>1, <3>2, <3>3 DEF PromotedHasNoEntry
  <2>7. ASSUME NEW n \in Nodes, PumpStep(n)
        PROVE  PromotedHasNoEntry'
    <3>1. CASE Drop(n) \/ PromoteRefused(n) \/ PromoteFails(n) \/ Undo(n)
      <4>1. \E s \in {"peek", "idle"} : Pump(n, s, NoReq)
        BY <3>1 DEF Drop, PromoteRefused, PromoteFails, Undo, GoesOn
      <4>2. UNCHANGED queue \/ queue' = [queue EXCEPT ![head[n]] = 0]
        BY <3>1 DEF Drop, PromoteRefused, PromoteFails, Undo, LeaveQueue, shared
      <4> QED
        BY <2>1, <2>2, <4>1, <4>2 DEF Pump
    <3>2. CASE Peek(n) \/ Grant(n)
      <4>1. UNCHANGED queue /\ \E s \in PumpStates \ {"grant"} : \E h : Pump(n, s, h)
        BY <3>2 DEF Peek, Grant, shared, PumpStates
      <4> QED
        BY <2>1, <2>2, <4>1 DEF Pump
    <3>3. CASE Promote(n)
      <4>1. /\ queue' = [queue EXCEPT ![head[n]] = 0] /\ Pump(n, "grant", head[n])
            /\ pump[n] = "promote"
        BY <3>3 DEF Promote, At
      <4>2. head[n] \in Reqs
        BY <2>1, <4>1 DEF HasHead
      <4> QED
        BY <2>1, <4>1, <4>2 DEF Pump, PromotedHasNoEntry, HasHead
    <3> QED
      BY <2>7, <3>1, <3>2, <3>3 DEF PumpStep
  <2>8. ASSUME NEW n \in Nodes, TimerFires(n) \/ Dispose(n) \/ Crash(n)
        PROVE  PromotedHasNoEntry'
    <3>1. UNCHANGED queue
      BY <2>8 DEF TimerFires, Dispose, Crash, shared
    <3>2. \A m \in Nodes : pump'[m] = "grant" => pump[m] = "grant" /\ head'[m] = head[m]
      BY <2>1, <2>8 DEF TimerFires, Dispose, Crash, Pump
    <3> QED
      BY <2>2, <3>1, <3>2
  <2>9. CASE Tick \/ UNCHANGED vars
    BY <2>2, <2>9 DEF Tick, local, vars, shared
  <2> QED
    BY <2>3, <2>4, <2>5, <2>6, <2>7, <2>8, <2>9 DEF Next, Continue
<1> QED
  BY <1>1, <1>2, ShapeIsInvariant, TicketsAreInLine, RequestsStayHome, HeadsAreNotHeld,
     PTL DEF Spec

(* EntriesAreAttended, for any number of nodes and requests, whoever       *)
(* cancels, disposes or crashes.                                           *)
THEOREM NoEntryIsForgotten == Spec => []EntriesAreAttended
<1> USE LimiterAssumption
<1>1. Init => EntriesAreAttended
  BY DEF Init, EntriesAreAttended, Concerned
<1>2. /\ Shape /\ TicketsInLine /\ OwnRequests /\ HeadsWaitOrAreOver /\ HeadIsFirst
      /\ PromotedHasNoEntry /\ EntriesAreAttended /\ [Next]_vars
      => EntriesAreAttended'
  <2> SUFFICES ASSUME Shape, TicketsInLine, OwnRequests, HeadsWaitOrAreOver, HeadIsFirst,
                      PromotedHasNoEntry, EntriesAreAttended, [Next]_vars
               PROVE  EntriesAreAttended'
    OBVIOUS
  <2>1. /\ queue \in [Reqs -> Nat] /\ st \in [Reqs -> ReqStates] /\ leaving \subseteq Reqs
        /\ waiting \in [Nodes -> Lines] /\ node \in [Nodes -> {"up", "disposed", "down"}]
        /\ pump \in [Nodes -> PumpStates] /\ head \in [Nodes -> Reqs \cup {NoReq}]
        /\ \A n \in Nodes : HasHead(n) => head[n] \in Reqs
        /\ faults \in Nat
    BY DEF Shape, CacheShape, CallShape, NodeShape, HasHead
  <2>2. ASSUME Fault
        PROVE  EntriesAreAttended'
    BY <2>1, <2>2 DEF EntriesAreAttended, Concerned, Fault
  <2>3. ASSUME NEW r \in Reqs, st[r] \notin {"answered", "waiting"},
               UNCHANGED <<queue, leaving, waiting, node, faults>>,
               \A q \in Reqs \ {r} : st'[q] = st[q]
        PROVE  EntriesAreAttended'
    BY <2>3 DEF EntriesAreAttended, Concerned, Attended
  <2>4. ASSUME NEW r \in Reqs, Acquire(r) \/ DisposeLease(r)
        PROVE  EntriesAreAttended'
    <3>1. /\ st[r] \notin {"answered", "waiting"}
          /\ UNCHANGED <<queue, leaving, waiting, node, faults>>
          /\ \E s : Becomes(r, s)
      BY <2>4 DEF Acquire, DisposeLease, shared, local, past
    <3>2. \A q \in Reqs \ {r} : st'[q] = st[q]
      BY <2>1, <3>1 DEF Becomes
    <3> QED
      BY <2>3, <3>1, <3>2
  <2>5. ASSUME NEW r \in Reqs, Cancel(r)
        PROVE  EntriesAreAttended'
    <3>1. UNCHANGED <<queue, waiting, node, faults>>
      BY <2>5 DEF Cancel, shared, local, past
    <3>2. \/ UNCHANGED <<st, leaving>>
          \/ Becomes(r, "cancelled") /\ leaving' = leaving \cup {r}
      BY <2>5, Zenon DEF Cancel
    <3>3. ASSUME NEW q \in Reqs, Attended(q)
          PROVE  Attended(q)'
      BY <2>1, <3>1, <3>2, <3>3 DEF Attended, Becomes
    <3> QED
      BY <3>1, <3>3 DEF EntriesAreAttended, Concerned
  <2>6. ASSUME NEW r \in Reqs, Enqueue(r)
        PROVE  EntriesAreAttended'
    <3> DEFINE n == NodeOf[r]
    <3>1. /\ waiting' = [waiting EXCEPT ![n] = Append(waiting[n], r)]
          /\ UNCHANGED <<queue, node, faults>>
      BY <2>6 DEF Enqueue, shared
    <3>2. \/ Becomes(r, "cancelled") /\ leaving' = leaving \cup {r}
          \/ Becomes(r, "waiting") /\ UNCHANGED leaving
      BY <2>6, Zenon DEF Enqueue
    <3>3. n \in Nodes /\ waiting[n] \in Seq(Reqs)
      BY <2>1 DEF Lines
    <3>4. ToSet(Append(waiting[n], r)) = ToSet(waiting[n]) \cup {r}
      BY <3>3, AppendedElements
    <3>5. \A m \in Nodes : ToSet(waiting[m]) \subseteq ToSet(waiting'[m])
      BY <2>1, <3>1, <3>3, <3>4
    <3>6. r \in ToSet(waiting'[n])
      BY <2>1, <3>1, <3>3, <3>4
    <3>7. Attended(r)'
      BY <2>1, <3>2, <3>6 DEF Attended, Becomes
    <3>8. ASSUME NEW q \in Reqs \ {r}, Attended(q)
          PROVE  Attended(q)'
      BY <2>1, <3>2, <3>5, <3>8 DEF Attended, Becomes
    <3> QED
      BY <3>1, <3>7, <3>8 DEF EntriesAreAttended, Concerned
  <2>7. ASSUME NEW r \in Reqs, CancelledLeaves(r)
        PROVE  EntriesAreAttended'
    <3>1. UNCHANGED <<st, waiting, node>> /\ leaving' = leaving \ {r}
      BY <2>7 DEF CancelledLeaves, local
    <3>2. CASE queue' = [queue EXCEPT ![r] = 0] /\ UNCHANGED faults
      BY <2>1, <3>1, <3>2 DEF EntriesAreAttended, Concerned, Attended
    <3>3. CASE Fault
      BY <2>2, <3>3
    <3> QED
      BY <2>7, <3>2, <3>3 DEF CancelledLeaves, LeaveQueue
  <2>8. ASSUME NEW r \in Reqs, ReleaseAndPump(r)
        PROVE  EntriesAreAttended'
    <3>1. /\ st[r] = "closing" /\ Becomes(r, "done")
          /\ UNCHANGED <<queue, leaving, waiting, node>>
      BY <2>8 DEF ReleaseAndPump
    <3>2. CASE UNCHANGED faults
      <4>1. \A q \in Reqs \ {r} : st'[q] = st[q]
        BY <2>1, <3>1 DEF Becomes
      <4> QED
        BY <2>3, <3>1, <3>2, <4>1
    <3>3. CASE Fault
      BY <2>2, <3>3
    <3> QED
      BY <2>8, <3>2, <3>3 DEF ReleaseAndPump, LeaveLease
  <2>9. ASSUME NEW n \in Nodes, AdmissionStep(n)
        PROVE  EntriesAreAttended'
    <3>1. PICK r \in Reqs :
            /\ Admitting(n, r) /\ UNCHANGED faults
            /\ \/ UNCHANGED queue /\ \E s : Becomes(r, s)
               \/ queue' = [queue EXCEPT ![r] = counter + 1] /\ Becomes(r, "answered")
      BY <2>9 DEF AdmissionStep, AdmitLease, AdmitQueued, AdmitRefused
    <3>2. UNCHANGED <<leaving, waiting, node>> /\ st[r] = "ticket"
      BY <3>1, AdmittedWasATicket DEF Admitting
    <3>3. CASE UNCHANGED queue /\ \E s : Becomes(r, s)
      <4>1. \A q \in Reqs \ {r} : st'[q] = st[q]
        BY <2>1, <3>3 DEF Becomes
      <4> QED
        BY <2>3, <3>1, <3>2, <3>3, <4>1
    <3>4. CASE queue' = [queue EXCEPT ![r] = counter + 1] /\ Becomes(r, "answered")
      BY <2>1, <3>1, <3>2, <3>4 DEF EntriesAreAttended, Concerned, Attended, Becomes
    <3> QED
      BY <3>1, <3>3, <3>4
  <2>10. ASSUME NEW n \in Nodes, AdmitFails(n)
         PROVE  EntriesAreAttended'
    BY <2>2, <2>10 DEF AdmitFails
  <2>11. ASSUME NEW n \in Nodes, TimerFires(n) \/ Peek(n) \/ PromoteRefused(n)
         PROVE  EntriesAreAttended'
    BY <2>11 DEF TimerFires, Peek, PromoteRefused, EntriesAreAttended, Concerned,
                 Attended, shared, past
  <2>12. ASSUME NEW n \in Nodes, Promote(n)
         PROVE  EntriesAreAttended'
    <3>1. /\ queue' = [queue EXCEPT ![head[n]] = 0]
          /\ UNCHANGED <<st, leaving, waiting, node, faults>>
      BY <2>12 DEF Promote, past
    <3> QED
      BY <2>1, <3>1 DEF EntriesAreAttended, Concerned, Attended
  <2>13. ASSUME NEW n \in Nodes, NEW h \in Reqs, h = head[n], HasHead(n), Dequeue(n),
                UNCHANGED <<leaving, node, faults>>,
                \A q \in Reqs \ {h} : st'[q] = st[q] /\ queue'[q] = queue[q],
                Concerned(h)' => Attended(h)'
         PROVE  EntriesAreAttended'
    <3> SUFFICES ASSUME NEW q \in Reqs, q # h, Concerned(q)'
                 PROVE  Attended(q)'
      BY <2>13 DEF EntriesAreAttended
    <3>1. Attended(q) /\ st'[q] = st[q] /\ node[NodeOf[q]] = "up"
      BY <2>13 DEF EntriesAreAttended, Concerned
    <3>2. CASE NodeOf[q] # n
      <4>1. waiting'[NodeOf[q]] = waiting[NodeOf[q]]
        BY <2>1, <2>13, <3>2 DEF Dequeue
      <4> QED
        BY <2>13, <3>1, <4>1 DEF Attended
    <3>3. CASE NodeOf[q] = n
      <4>1. waiting[n] # <<>> /\ Head(waiting[n]) = h /\ waiting[n] \in Seq(Reqs)
        BY <2>1, <2>13, <3>1, <3>3 DEF HeadIsFirst, Lines
      <4>2. waiting'[n] = Tail(waiting[n])
        BY <2>1, <2>13, <4>1 DEF Dequeue
      <4>3. q \in ToSet(waiting[n]) => q \in ToSet(waiting'[n])
        BY <4>1, <4>2, OthersStayInLine
      <4> QED
        BY <2>13, <3>1, <3>3, <4>3 DEF Attended
    <3> QED
      BY <3>2, <3>3
  <2>14. ASSUME NEW n \in Nodes, Drop(n)
         PROVE  EntriesAreAttended'
    <3>1. HasHead(n) /\ Dequeue(n) /\ UNCHANGED <<leaving, node, st>>
      BY <2>14 DEF Drop, At, HasHead
    <3>2. CASE queue' = [queue EXCEPT ![head[n]] = 0] /\ UNCHANGED faults
      <4>1. PICK h \in Reqs : h = head[n]
        BY <2>1, <3>1
      <4>2. ~Concerned(h)' /\ \A q \in Reqs \ {h} : queue'[q] = queue[q]
        BY <2>1, <3>2, <4>1 DEF Concerned
      <4> QED
        BY <2>13, <3>1, <3>2, <4>1, <4>2
    <3>3. CASE Fault
      BY <2>2, <3>3
    <3> QED
      BY <2>14, <3>2, <3>3 DEF Drop, LeaveQueue
  <2>15. ASSUME NEW n \in Nodes, PromoteFails(n)
         PROVE  EntriesAreAttended'
    BY <2>2, <2>15 DEF PromoteFails
  <2>16. ASSUME NEW n \in Nodes, Grant(n)
         PROVE  EntriesAreAttended'
    <3>1. HasHead(n) /\ pump[n] = "grant" /\ UNCHANGED <<queue, leaving, node, faults>>
      BY <2>16 DEF Grant, At, HasHead, shared, past
    <3>2. CASE st[head[n]] = "waiting"
      <4>1. Dequeue(n) /\ Becomes(head[n], "held")
        BY <2>16, <3>2 DEF Grant
      <4>2. PICK h \in Reqs : h = head[n]
        BY <2>1, <3>1
      <4>3. ~Concerned(h)'
        BY <2>1, <3>1, <4>2 DEF PromotedHasNoEntry, Concerned
      <4>4. \A q \in Reqs \ {h} : st'[q] = st[q]
        BY <2>1, <4>1, <4>2 DEF Becomes
      <4> QED
        BY <2>13, <3>1, <4>1, <4>2, <4>3, <4>4
    <3>3. CASE st[head[n]] # "waiting"
      BY <2>16, <3>1, <3>3 DEF Grant, EntriesAreAttended, Concerned, Attended
    <3> QED
      BY <3>2, <3>3
  <2>17. ASSUME NEW n \in Nodes, Undo(n)
         PROVE  EntriesAreAttended'
    <3>1. HasHead(n) /\ pump[n] = "undo" /\ Dequeue(n) /\ UNCHANGED <<queue, leaving, node, st>>
      BY <2>17 DEF Undo, At, HasHead
    <3>2. CASE UNCHANGED faults
      <4>1. PICK h \in Reqs : h = head[n]
        BY <2>1, <3>1
      <4>2. st[h] \in Over
        BY <2>1, <3>1, <4>1 DEF HeadsWaitOrAreOver
      <4>3. Attended(h) => h \in leaving
        BY <4>2 DEF Attended, Over
      <4>4. Concerned(h)' => Attended(h)'
        BY <3>1, <3>2, <4>2, <4>3 DEF EntriesAreAttended, Concerned, Attended
      <4> QED
        BY <2>13, <3>1, <3>2, <4>1, <4>4
    <3>3. CASE Fault
      BY <2>2, <3>3
    <3> QED
      BY <2>17, <3>2, <3>3 DEF Undo, LeaveLease
  <2>18. ASSUME NEW n \in Nodes, Dispose(n) \/ Crash(n)
         PROVE  EntriesAreAttended'
    <3>1. /\ node' = [node EXCEPT ![n] = "disposed"] \/ node' = [node EXCEPT ![n] = "down"]
          /\ waiting' = [waiting EXCEPT ![n] = <<>>]
          /\ UNCHANGED <<queue, faults>>
      BY <2>18 DEF Dispose, Crash, shared, past
    <3>2. \A q \in Reqs : NodeOf[q] # n => st'[q] = st[q]
      BY <2>18 DEF Dispose, Crash, OwnRequests
    <3>3. \A q \in Reqs : NodeOf[q] # n => (q \in leaving => q \in leaving')
      BY <2>18 DEF Dispose, Crash
    <3> SUFFICES ASSUME NEW q \in Reqs, Concerned(q)'
                 PROVE  Attended(q)'
      BY DEF EntriesAreAttended
    <3>4. NodeOf[q] \in Nodes /\ NodeOf[q] # n /\ Concerned(q)
      BY <2>1, <3>1 DEF Concerned
    <3>5. waiting'[NodeOf[q]] = waiting[NodeOf[q]]
      BY <2>1, <3>1, <3>4
    <3> QED
      BY <3>2, <3>3, <3>4, <3>5 DEF EntriesAreAttended, Attended
  <2>19. CASE Tick \/ UNCHANGED vars
    BY <2>19 DEF Tick, local, past, vars, shared, EntriesAreAttended, Concerned, Attended
  <2> QED
    BY <2>4, <2>5, <2>6, <2>7, <2>8, <2>9, <2>10, <2>11, <2>12, <2>14, <2>15, <2>16,
       <2>17, <2>18, <2>19
       DEF Next, Continue, PumpStep
<1> QED
  BY <1>1, <1>2, ShapeIsInvariant, TicketsAreInLine, RequestsStayHome, HeadsAreNotHeld,
     HeadsAreFirst, PromotedLeftTheQueue, PTL DEF Spec
=============================================================================
