-------------------------- MODULE ConcurrencyLimiter --------------------------
(***************************************************************************)
(* The concurrency rate limiter: ConcurrencyManager, which keeps the       *)
(* leases, the queue and its sequence counter in the cache for all nodes,  *)
(* and on every node ConcurrencyRateLimiter, which keeps the callers       *)
(* waiting: an admission loop that hands tickets to the manager in order   *)
(* of arrival, a local queue of the requests that were queued, and a pump  *)
(* that promotes the head of the local queue.                              *)
(*                                                                         *)
(* An operation of the manager is one step: it runs under LockKey, whose   *)
(* exclusion is KeyLock's MutualExclusion.  It can fail to get that lock   *)
(* (it gives up after three seconds) and a write of it can throw when      *)
(* earlier ones were done; both are faults, of which there are MaxFaults.  *)
(* A request is made once (its id is a GUID), so behaviours may end.       *)
(***************************************************************************)
EXTENDS Integers, Sequences, FiniteSets, SequencesExt

CONSTANTS
  Nodes,
  Reqs,
  NodeOf,        \* the node of each request
  Ordinal,       \* the order of the requests' ids, which breaks ties
  NoReq,
  PermitLimit,
  QueueLimit,
  Timeout,       \* ExpectedRequestTimeout in ticks
  MaxFaults,
  Stopping       \* the nodes that may be disposed or crash

ASSUME LimiterAssumption ==
  /\ IsFiniteSet(Reqs)
  /\ NoReq \notin Reqs
  /\ NodeOf \in [Reqs -> Nodes]
  /\ Ordinal \in [Reqs -> Nat]
  /\ \A r, s \in Reqs : Ordinal[r] = Ordinal[s] => r = s
  /\ PermitLimit \in Nat \ {0}
  /\ QueueLimit \in Nat \ {0}
  /\ Timeout \in Nat \ {0}
  /\ MaxFaults \in Nat
  /\ Stopping \subseteq Nodes

VARIABLES
  leases,    \* cache: the requests in the LeaseCollection
  left,      \* cache: what is left until a lease is older than Timeout
  queue,     \* cache: the Sequence of each QueueEntry, 0 when it is not there
  counter,   \* cache: SequenceCounter
  st,        \* each request: the state of its AcquireAsync call, its lease
  token,     \* has its CancellationToken been cancelled?
  leaving,   \* the requests whose ReleaseQueueLeaseAsync is on its way
  channel,   \* each node: the tickets of its admission channel
  waiting,   \* each node: _queue
  pump,      \* each node: where TryDequeueRequestsAsync is
  head,      \* each node: the request it has peeked at
  node,      \* each node: up, disposed, or down
  faults,    \* history: faults so far
  leaked,    \* history: the requests whose lease a fault left behind
  jumbled    \* history: some local queue was not in order of Sequence

shared == <<leases, left, queue, counter>>
local  == <<channel, waiting, pump, head, node>>
past   == <<faults, leaked, jumbled>>
vars   == <<shared, st, token, leaving, local, past>>

(* ticket: waits for the admission loop; answered: queued, but the         *)
(* continuation that enqueues it locally has not run; waiting: its         *)
(* TaskCompletionSource is pending; closing: its lease was disposed and    *)
(* ReleaseLeaseAsync is on its way; refused: it has a lease that is not    *)
(* acquired and can be disposed all the same; done: nothing more happens.  *)
ReqStates == {"new", "ticket", "answered", "waiting", "held", "refused", "closing",
              "cancelled", "done"}

PumpStates == {"idle", "peek", "drop", "promote", "grant", "undo"}

TypeOK ==
  /\ leases \subseteq Reqs
  /\ left \in [Reqs -> 0 .. Timeout]
  /\ queue \in [Reqs -> 0 .. Cardinality(Reqs)]
  /\ counter \in 0 .. Cardinality(Reqs)
  /\ st \in [Reqs -> ReqStates]
  /\ token \in [Reqs -> BOOLEAN]
  /\ leaving \subseteq Reqs
  /\ channel \in [Nodes -> Seq(Reqs)]
  /\ waiting \in [Nodes -> Seq(Reqs)]
  /\ pump \in [Nodes -> PumpStates]
  /\ head \in [Nodes -> Reqs \cup {NoReq}]
  /\ node \in [Nodes -> {"up", "disposed", "down"}]
  /\ faults \in 0 .. MaxFaults
  /\ leaked \subseteq Reqs
  /\ jumbled \in BOOLEAN

Queued == {r \in Reqs : queue[r] > 0}

Up(r) == node[NodeOf[r]] # "down"

Becomes(r, s) == st' = [st EXCEPT ![r] = s]

Fault == faults < MaxFaults /\ faults' = faults + 1

-----------------------------------------------------------------------------
Init ==
  /\ leases = {}
  /\ left = [r \in Reqs |-> 0]
  /\ queue = [r \in Reqs |-> 0]
  /\ counter = 0
  /\ st = [r \in Reqs |-> "new"]
  /\ token = [r \in Reqs |-> FALSE]
  /\ leaving = {}
  /\ channel = [n \in Nodes |-> <<>>]
  /\ waiting = [n \in Nodes |-> <<>>]
  /\ pump = [n \in Nodes |-> "idle"]
  /\ head = [n \in Nodes |-> NoReq]
  /\ node = [n \in Nodes |-> "up"]
  /\ faults = 0
  /\ leaked = {}
  /\ jumbled = FALSE

-----------------------------------------------------------------------------
(* The manager's operations, on the state in the cache. *)

(* Wrong on purpose: nothing is cleaned up. *)
CurrentForever == leases

(* CleanupExpiredEntries comes first: leases past the timeout go, queue    *)
(* entries stay.                                                           *)
Current == {r \in leases : left[r] > 0}

(* The longest waiting entry of all nodes. *)
HeadOfLine(r) ==
  \A s \in Queued \ {r} :
    queue[r] < queue[s] \/ (queue[r] = queue[s] /\ Ordinal[r] < Ordinal[s])

Lease(r) ==
  /\ leases' = Current \cup {r}
  /\ left' = [left EXCEPT ![r] = Timeout]

Cleanup ==
  /\ leases' = Current
  /\ UNCHANGED left

(* Wrong on purpose: newcomers are let in past the queue. *)
MayEnterPastQueue == Cardinality(Current) < PermitLimit

MayEnter == Queued = {} /\ Cardinality(Current) < PermitLimit

MayQueue == ~MayEnter /\ Cardinality(Queued) < QueueLimit

(* Wrong on purpose: only the order of the queue is looked at. *)
MayPromotePastLimit(r) == r \in Queued /\ HeadOfLine(r)

MayPromote(r) ==
  /\ r \in Queued
  /\ HeadOfLine(r)
  /\ Cardinality(Current) < PermitLimit

-----------------------------------------------------------------------------
(* AcquireAsyncCoreInternal: write a ticket.  The channel of a disposed    *)
(* limiter takes none, and nobody completes the ticket.                    *)
Acquire(r) ==
  /\ st[r] = "new"
  /\ Up(r)
  /\ Becomes(r, "ticket")
  /\ channel' = IF node[NodeOf[r]] = "up"
                THEN [channel EXCEPT ![NodeOf[r]] = Append(@, r)]
                ELSE channel
  /\ UNCHANGED <<shared, token, leaving, waiting, pump, head, node, past>>

Admitting(n, r) ==
  /\ node[n] # "down"
  /\ channel[n] # <<>>
  /\ r = Head(channel[n])
  /\ channel' = [channel EXCEPT ![n] = Tail(@)]
  /\ UNCHANGED <<token, leaving, waiting, pump, head, node, jumbled>>

(* ProcessAdmissionsAsync takes the tickets in order; TryAcquireLeaseAsync *)
(* lets the request in, ...                                                *)
AdmitLease(n) ==
  \E r \in Reqs :
    /\ Admitting(n, r)
    /\ MayEnter
    /\ Lease(r)
    /\ Becomes(r, "held")
    /\ UNCHANGED <<queue, counter, faults, leaked>>

(* ... queues it, ... *)
AdmitQueued(n) ==
  \E r \in Reqs :
    /\ Admitting(n, r)
    /\ MayQueue
    /\ Cleanup
    /\ counter' = counter + 1
    /\ queue' = [queue EXCEPT ![r] = counter + 1]
    /\ Becomes(r, "answered")
    /\ UNCHANGED <<faults, leaked>>

(* ... or refuses it. *)
AdmitRefused(n) ==
  \E r \in Reqs :
    /\ Admitting(n, r)
    /\ ~MayEnter
    /\ ~MayQueue
    /\ Cleanup
    /\ Becomes(r, "refused")
    /\ UNCHANGED <<queue, counter, faults, leaked>>

(* No lock, so it is refused; or SaveStats throws after the lease or the   *)
(* entry was written, and so does the caller's AcquireAsync.               *)
AdmitFails(n) ==
  \E r \in Reqs :
    /\ Admitting(n, r)
    /\ Fault
    /\ \/ /\ Becomes(r, "refused")
          /\ UNCHANGED <<shared, leaked>>
       \/ /\ MayEnter
          /\ Becomes(r, "done")
          /\ Lease(r)
          /\ leaked' = leaked \cup {r}
          /\ UNCHANGED <<queue, counter>>
       \/ /\ MayQueue
          /\ Becomes(r, "done")
          /\ Cleanup
          /\ queue' = [queue EXCEPT ![r] = counter + 1]
          /\ UNCHANGED <<counter, leaked>>

(* The continuation of a queued request registers for cancellation, which  *)
(* fires at once when the token is cancelled already, and enqueues it.     *)
(* Continuations run on the thread pool, in any order.                     *)
Enqueue(r) ==
  LET n == NodeOf[r] IN
  /\ st[r] = "answered"
  /\ Up(r)
  /\ waiting' = [waiting EXCEPT ![n] = Append(@, r)]
  /\ jumbled' = (jumbled \/ \E s \in ToSet(waiting[n]) : queue[s] > queue[r])
  /\ IF token[r]
     THEN Becomes(r, "cancelled") /\ leaving' = leaving \cup {r}
     ELSE Becomes(r, "waiting") /\ UNCHANGED leaving
  /\ UNCHANGED <<shared, token, channel, pump, head, node, faults, leaked>>

(* The caller cancels: when the request waits, TrySetCanceled and          *)
(* ReleaseQueueLeaseAsync, which nobody awaits.                            *)
Cancel(r) ==
  /\ st[r] \in {"ticket", "answered", "waiting"}
  /\ ~token[r]
  /\ Up(r)
  /\ token' = [token EXCEPT ![r] = TRUE]
  /\ IF st[r] = "waiting"
     THEN Becomes(r, "cancelled") /\ leaving' = leaving \cup {r}
     ELSE UNCHANGED <<st, leaving>>
  /\ UNCHANGED <<shared, local, past>>

(* ReleaseQueueLeaseAsync, unless it does not get the lock. *)
LeaveQueue(r) ==
  \/ queue' = [queue EXCEPT ![r] = 0] /\ UNCHANGED faults
  \/ Fault /\ UNCHANGED queue

CancelledLeaves(r) ==
  /\ r \in leaving
  /\ Up(r)
  /\ leaving' = leaving \ {r}
  /\ LeaveQueue(r)
  /\ UNCHANGED <<leases, left, counter, st, token, local, leaked, jumbled>>

(* ReleaseLeaseAsync, unless it does not get the lock. *)
LeaveLease(r) ==
  \/ leases' = leases \ {r} /\ UNCHANGED <<faults, leaked>>
  \/ Fault /\ leaked' = leaked \cup {r} /\ UNCHANGED leases

(* The caller disposes its lease, acquired or not ... *)
DisposeLease(r) ==
  /\ st[r] \in {"held", "refused"}
  /\ Up(r)
  /\ Becomes(r, "closing")
  /\ UNCHANGED <<shared, token, leaving, local, past>>

(* ... and ReleaseAndPumpQueueAsync runs, without anybody awaiting it.     *)
(* The pump does not run when the release threw.                           *)
ReleaseAndPump(r) ==
  /\ st[r] = "closing"
  /\ Up(r)
  /\ LeaveLease(r)
  /\ Becomes(r, "done")
  /\ \/ pump' = [pump EXCEPT ![NodeOf[r]] = IF @ = "idle" THEN "peek" ELSE @]
     \/ faults' # faults /\ UNCHANGED pump
  /\ UNCHANGED <<left, queue, counter, token, leaving, channel, waiting, head, node, jumbled>>

-----------------------------------------------------------------------------
(* The timer starts the pump; _dequeueRunning keeps it to one at a time. *)
TimerFires(n) ==
  /\ node[n] = "up"
  /\ pump[n] = "idle"
  /\ waiting[n] # <<>>
  /\ pump' = [pump EXCEPT ![n] = "peek"]
  /\ UNCHANGED <<shared, st, token, leaving, channel, waiting, head, node, past>>

At(n, s) == node[n] # "down" /\ pump[n] = s

Pump(n, s, h) ==
  /\ pump' = [pump EXCEPT ![n] = s]
  /\ head' = [head EXCEPT ![n] = h]

(* The pump goes on with the next request, unless the call threw. *)
GoesOn(n) ==
  \/ Pump(n, "peek", NoReq)
  \/ faults' # faults /\ Pump(n, "idle", NoReq)

(* TryDequeue takes whatever is first by now, if anything. *)
Dequeue(n) == waiting' = [waiting EXCEPT ![n] = IF @ = <<>> THEN @ ELSE Tail(@)]

(* Peek at the local queue: is the request completed already? *)
Peek(n) ==
  /\ At(n, "peek")
  /\ IF waiting[n] = <<>>
     THEN Pump(n, "idle", NoReq)
     ELSE LET r == Head(waiting[n]) IN
          Pump(n, IF st[r] = "waiting" THEN "promote" ELSE "drop", r)
  /\ UNCHANGED <<shared, st, token, leaving, channel, waiting, node, past>>

(* It is: make sure that its entry is gone, and drop it. *)
Drop(n) ==
  /\ At(n, "drop")
  /\ LeaveQueue(head[n])
  /\ Dequeue(n)
  /\ GoesOn(n)
  /\ UNCHANGED <<leases, left, counter, st, token, leaving, channel, node, leaked, jumbled>>

(* TryPromoteQueuedAsync: the head of the line moves to the leases ... *)
Promote(n) ==
  LET r == head[n] IN
  /\ At(n, "promote")
  /\ MayPromote(r)
  /\ queue' = [queue EXCEPT ![r] = 0]
  /\ Lease(r)
  /\ Pump(n, "grant", r)
  /\ UNCHANGED <<counter, st, token, leaving, channel, waiting, node, past>>

(* ... and any other request ends this round of the pump, ... *)
PromoteRefused(n) ==
  /\ At(n, "promote")
  /\ ~MayPromote(head[n])
  /\ Cleanup
  /\ Pump(n, "idle", NoReq)
  /\ UNCHANGED <<queue, counter, st, token, leaving, channel, waiting, node, past>>

(* ... as do a lock it does not get, and a write that throws when the      *)
(* entry is gone or the lease is written as well.                          *)
PromoteFails(n) ==
  LET r == head[n] IN
  /\ At(n, "promote")
  /\ Fault
  /\ \/ UNCHANGED <<shared, leaked>>
     \/ /\ MayPromote(r)
        /\ queue' = [queue EXCEPT ![r] = 0]
        /\ \/ Cleanup /\ UNCHANGED leaked
           \/ Lease(r) /\ leaked' = leaked \cup {r}
        /\ UNCHANGED counter
  /\ Pump(n, "idle", NoReq)
  /\ UNCHANGED <<st, token, leaving, channel, waiting, node, jumbled>>

(* Wrong on purpose: the lease of a cancelled request is forgotten. *)
GrantForgets(n) ==
  LET r == head[n] IN
  /\ At(n, "grant")
  /\ IF st[r] = "waiting" THEN Becomes(r, "held") ELSE UNCHANGED st
  /\ Pump(n, "peek", NoReq)
  /\ Dequeue(n)
  /\ UNCHANGED <<shared, token, leaving, channel, node, past>>

(* TrySetResult hands the lease over, unless the request was cancelled     *)
(* meanwhile, ...                                                          *)
Grant(n) ==
  LET r == head[n] IN
  /\ At(n, "grant")
  /\ IF st[r] = "waiting"
     THEN /\ Becomes(r, "held")
          /\ Pump(n, "peek", NoReq)
          /\ Dequeue(n)
     ELSE /\ Pump(n, "undo", r)
          /\ UNCHANGED <<st, waiting>>
  /\ UNCHANGED <<shared, token, leaving, channel, node, past>>

(* ... in which case it is given back. *)
Undo(n) ==
  /\ At(n, "undo")
  /\ LeaveLease(head[n])
  /\ Dequeue(n)
  /\ GoesOn(n)
  /\ UNCHANGED <<left, queue, counter, st, token, leaving, channel, node, jumbled>>

-----------------------------------------------------------------------------
(* Dispose of a node's limiter: no timer and no new tickets any more, and  *)
(* every request in the local queue fails and gives up its entry.          *)
Dispose(n) ==
  /\ n \in Stopping
  /\ node[n] = "up"
  /\ node' = [node EXCEPT ![n] = "disposed"]
  /\ waiting' = [waiting EXCEPT ![n] = <<>>]
  /\ leaving' = leaving \cup ToSet(waiting[n])
  /\ st' = [r \in Reqs |->
              IF r \in ToSet(waiting[n]) /\ st[r] = "waiting" THEN "done" ELSE st[r]]
  /\ UNCHANGED <<shared, token, channel, pump, head, past>>

(* The node dies; what it has in the cache stays. *)
Crash(n) ==
  /\ n \in Stopping
  /\ node[n] # "down"
  /\ node' = [node EXCEPT ![n] = "down"]
  /\ st' = [r \in Reqs |-> IF NodeOf[r] = n THEN "done" ELSE st[r]]
  /\ leaving' = {r \in leaving : NodeOf[r] # n}
  /\ leaked' = leaked \cup {r \in leases : NodeOf[r] = n}
  /\ channel' = [channel EXCEPT ![n] = <<>>]
  /\ waiting' = [waiting EXCEPT ![n] = <<>>]
  /\ Pump(n, "idle", NoReq)
  /\ UNCHANGED <<shared, token, faults, jumbled>>

(* Wrong on purpose: what is over goes on. *)
TickPastZero ==
  /\ left' = [r \in Reqs |-> left[r] - 1]
  /\ UNCHANGED <<leases, queue, counter, st, token, leaving, local, past>>

Tick ==
  /\ left' = [r \in Reqs |-> IF left[r] = 0 THEN 0 ELSE left[r] - 1]
  /\ UNCHANGED <<leases, queue, counter, st, token, leaving, local, past>>

AdmissionStep(n) == AdmitLease(n) \/ AdmitQueued(n) \/ AdmitRefused(n)

PumpStep(n) ==
  \/ Peek(n) \/ Drop(n)
  \/ Promote(n) \/ PromoteRefused(n) \/ PromoteFails(n)
  \/ Grant(n) \/ Undo(n)

Continue(r) == Enqueue(r) \/ CancelledLeaves(r) \/ ReleaseAndPump(r)

Next ==
  \/ \E r \in Reqs : Acquire(r) \/ Cancel(r) \/ DisposeLease(r) \/ Continue(r)
  \/ \E n \in Nodes :
       \/ AdmissionStep(n) \/ AdmitFails(n)
       \/ TimerFires(n) \/ PumpStep(n)
       \/ Dispose(n) \/ Crash(n)
  \/ Tick

(* Loops and continuations that can run do, the timer fires, time passes.  *)
(* No holder has to dispose its lease.                                     *)
Fairness ==
  /\ \A n \in Nodes : WF_vars(AdmissionStep(n)) /\ WF_vars(TimerFires(n)) /\ WF_vars(PumpStep(n))
  /\ \A r \in Reqs : WF_vars(Continue(r))
  /\ WF_vars(Tick)

Spec == Init /\ [][Next]_vars
FairSpec == Spec /\ Fairness

-----------------------------------------------------------------------------
Holding == {r \in Reqs : st[r] = "held" /\ left[r] > 0}

(* Across all nodes, no more than PermitLimit requests run at a time, not  *)
(* counting those that run longer than ExpectedRequestTimeout.             *)
PermitsWithinLimit == Cardinality(Holding) <= PermitLimit

(* Whoever is let in, at the door or from the queue, nobody on any node    *)
(* has been waiting longer.                                                *)
FirstComeFirstServed ==
  [][\A r \in leases' \ leases : \A s \in Queued \ {r} : r \in Queued /\ HeadOfLine(r)]_vars

(* A lease in the cache has an owner: its request holds it, is about to be *)
(* told or is giving it back.  Only a fault or a crash leaves one behind   *)
(* until it times out; a cancellation that races the promotion does not.   *)
NoLeakedLease ==
  \A r \in Current \ leaked :
    \/ st[r] \in {"held", "closing"}
    \/ \E n \in Nodes : pump[n] \in {"grant", "undo"} /\ head[n] = r

Undisturbed == faults = 0 /\ \A n \in Nodes : node[n] = "up"

(* A queued request leaves the queue in the end, served or cancelled, also *)
(* when no holder ever disposes its lease, as long as no node goes away,   *)
(* nothing fails and the local queues are in the order of the cache's.     *)
QueuedIsServed ==
  \A r \in Reqs : (queue[r] > 0) ~> (queue[r] = 0 \/ jumbled \/ ~Undisturbed)

(* The same whatever order the continuations run in, as the readme's       *)
(* "strict, cross-node FIFO order" would have it.                          *)
QueuedIsServedInAnyOrder ==
  \A r \in Reqs : (queue[r] > 0) ~> (queue[r] = 0 \/ ~Undisturbed)
=============================================================================
