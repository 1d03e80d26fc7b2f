------------------------------- MODULE JobQueue -------------------------------
(***************************************************************************)
(* The job queue of the Hangfire storage: NCacheJobQueue, the fetching of  *)
(* jobs by NCacheConnection, NCacheFetchedJob, and FetchedJobsWatcher,     *)
(* which recovers the jobs of crashed servers.                             *)
(*                                                                         *)
(* A queue is an item per slot and two counters, the slots from head to    *)
(* tail - 1 being queued.  Enqueue holds the lock on the tail, TryDequeue  *)
(* and Requeue the one on the head (NCacheLockGuard, on top of LockKey);   *)
(* each write to the cache is a step.  A server's processing set is one    *)
(* item, written once in each critical section: one step.                  *)
(*                                                                         *)
(* Time is left out: an entry of the processing set may go stale at any    *)
(* time, a dead server may be taken off the registry at any time.  What    *)
(* fails without a crash is a fault, of which there are MaxFaults.         *)
(***************************************************************************)
EXTENDS Integers, FiniteSets

CONSTANTS
  Jobs,        \* each is enqueued once, by a client that has its name
  Servers,     \* each runs one FetchedJobsWatcher, that has its name
  Workers,
  ServerOf,    \* the server of each worker
  Nobody, Orphan, NoJob,
  Stopping,    \* the servers that may crash
  MaxFaults,
  MaxRequeues  \* bound: how far Requeue moves the head below 0 or adds to the tail

ASSUME JobQueueAssumption ==
  /\ IsFiniteSet(Jobs) /\ IsFiniteSet(Servers) /\ IsFiniteSet(Workers)
  /\ Jobs \cap Servers = {} /\ Jobs \cap Workers = {} /\ Servers \cap Workers = {}
  /\ {Nobody, Orphan} \cap (Jobs \cup Servers \cup Workers) = {}
  /\ Nobody # Orphan
  /\ NoJob \notin Jobs
  /\ ServerOf \in [Workers -> Servers]
  /\ Stopping \subseteq Servers
  /\ MaxFaults \in Nat
  /\ MaxRequeues \in Nat

VARIABLES
  head, tail,  \* cache: the counters
  item,        \* cache: the job in each slot
  headLock,    \* cache: the holder of the lock on the head
  tailLock,    \* cache: the holder of the lock on the tail
  processing,  \* cache: the entry of each job in each server's processing set
  known,       \* cache: the servers in the registry
  server,      \* each server: not announced yet, up, or crashed
  pc,          \* where each client, worker and watcher is
  hand,        \* the job each worker or watcher is busy with
  marked,      \* does the worker have an NCacheFetchedJob for it?
  todo,        \* the jobs each watcher took off a processing set
  done,        \* history: the jobs that were performed
  dropped,     \* history: the jobs whose carrier crashed or failed while
               \* neither the queue nor a processing set had them for it, or
               \* whose entry another worker of the server took away
  faults       \* history: faults so far

queueVars  == <<head, tail, item>>
lockVars   == <<headLock, tailLock>>
serverVars == <<known, server>>
actorVars  == <<pc, hand, marked, todo>>
past       == <<done, dropped, faults>>
vars       == <<queueVars, lockVars, processing, serverVars, actorVars, past>>

Actors == Jobs \cup Workers \cup Servers

up == {s \in Servers : server[s] = "up"}

Slots == -MaxRequeues .. Cardinality(Jobs) + MaxRequeues

ClientPCs  == {"new", "sent", "failed"}
DequeuePCs == {"woken", "dequeue", "remove", "advance", "mark", "run", "clear", "unmark"}
RequeuePCs == {"reqLock", "reqItem", "reqHead", "enqLock", "enqItem", "enqTail"}

TypeOK ==
  /\ head \in Slots
  /\ tail \in Slots
  /\ item \in [Slots -> Jobs \cup {NoJob}]
  /\ headLock \in Workers \cup Servers \cup {Nobody, Orphan}
  /\ tailLock \in Actors \cup {Nobody, Orphan}
  /\ processing \in [Servers -> [Jobs -> {"none", "fresh", "stale"}]]
  /\ known \subseteq Servers
  /\ server \in [Servers -> {"new", "up", "crashed"}]
  /\ pc \in [Actors -> {"idle"} \cup ClientPCs \cup DequeuePCs \cup RequeuePCs]
  /\ hand \in [Workers \cup Servers -> Jobs \cup {NoJob}]
  /\ marked \in [Workers -> BOOLEAN]
  /\ todo \in [Servers -> SUBSET Jobs]
  /\ done \subseteq Jobs
  /\ dropped \subseteq Jobs
  /\ faults \in 0 .. MaxFaults

Goto(a, l) == pc' = [pc EXCEPT ![a] = l]

Runs(a) ==
  \/ a \in Jobs
  \/ a \in Workers /\ ServerOf[a] \in up
  \/ a \in Servers /\ a \in up

JobOf(a) == IF a \in Jobs THEN a ELSE hand[a]

Fault == faults < MaxFaults /\ faults' = faults + 1

Queued(j) == \E k \in head .. tail - 1 : item[k] = j

InProcessing(j) == \E s \in Servers : processing[s][j] # "none"

Entry(s, j, e) == processing' = [processing EXCEPT ![s][j] = e]

-----------------------------------------------------------------------------
Init ==
  /\ head = 0
  /\ tail = 0
  /\ item = [k \in Slots |-> NoJob]
  /\ headLock = Nobody
  /\ tailLock = Nobody
  /\ processing = [s \in Servers |-> [j \in Jobs |-> "none"]]
  /\ known = {}
  /\ server = [s \in Servers |-> "new"]
  /\ pc = [a \in Actors |-> IF a \in Jobs THEN "new" ELSE "idle"]
  /\ hand = [a \in Workers \cup Servers |-> NoJob]
  /\ marked = [w \in Workers |-> FALSE]
  /\ todo = [s \in Servers |-> {}]
  /\ done = {}
  /\ dropped = {}
  /\ faults = 0

(* AnnounceServer: the server joins the registry and starts its processes. *)
(* A server that starts again does so under another id.                    *)
AnnounceServer(s) ==
  /\ server[s] = "new"
  /\ server' = [server EXCEPT ![s] = "up"]
  /\ known' = known \cup {s}
  /\ UNCHANGED <<queueVars, lockVars, processing, actorVars, past>>

-----------------------------------------------------------------------------
(* Enqueue, of a client or as the last resort of Requeue. *)
StartEnqueue(j) ==
  /\ pc[j] = "new"
  /\ Goto(j, "enqLock")
  /\ UNCHANGED <<queueVars, lockVars, processing, serverVars, hand, marked, todo, past>>

EnqueueLock(a) ==
  /\ pc[a] = "enqLock"
  /\ tailLock = Nobody
  /\ tailLock' = a
  /\ Goto(a, "enqItem")
  /\ UNCHANGED <<queueVars, headLock, processing, serverVars, hand, marked, todo, past>>

(* The item is written before the counter that publishes it. *)
EnqueueItem(a) ==
  /\ pc[a] = "enqItem"
  /\ tail + 1 \in Slots
  /\ item' = [item EXCEPT ![tail] = JobOf(a)]
  /\ Goto(a, "enqTail")
  /\ UNCHANGED <<head, tail, lockVars, processing, serverVars, hand, marked, todo, past>>

(* What follows when the job is back in the queue: a fetched job leaves    *)
(* the processing set, the watcher goes on with its list.                  *)
PutBack(a) ==
  /\ Goto(a, IF a \in Jobs THEN "sent"
             ELSE IF a \in Workers /\ marked[a] THEN "unmark" ELSE "idle")
  /\ hand' = IF a \in Jobs \/ (a \in Workers /\ marked[a]) THEN hand
             ELSE [hand EXCEPT ![a] = NoJob]

EnqueueTail(a) ==
  /\ pc[a] = "enqTail"
  /\ tail' = tail + 1
  /\ tailLock' = Nobody
  /\ PutBack(a)
  /\ UNCHANGED <<head, item, headLock, processing, serverVars, marked, todo, past>>

-----------------------------------------------------------------------------
(* FetchNextJob: a worker is woken by a message, by the backlog watcher or *)
(* by the poll when there are jobs, ...                                    *)
Wake(w) ==
  /\ pc[w] = "idle"
  /\ head < tail
  /\ Goto(w, "woken")
  /\ UNCHANGED <<queueVars, lockVars, processing, serverVars, hand, marked, todo, past>>

(* Wrong on purpose: it goes on without the lock. *)
DequeueLockUnchecked(w) ==
  /\ pc[w] = "woken"
  /\ headLock' = w
  /\ Goto(w, "dequeue")
  /\ UNCHANGED <<queueVars, tailLock, processing, serverVars, hand, marked, todo, past>>

(* ... and TryDequeue locks the head, ... *)
DequeueLock(w) ==
  /\ pc[w] = "woken"
  /\ headLock = Nobody
  /\ headLock' = w
  /\ Goto(w, "dequeue")
  /\ UNCHANGED <<queueVars, tailLock, processing, serverVars, hand, marked, todo, past>>

(* ... or does not get the lock in time.  It finds the queue empty, ... *)
DequeueTimesOut(w) ==
  /\ pc[w] = "woken"
  /\ headLock # Nobody
  /\ Goto(w, "idle")
  /\ UNCHANGED <<queueVars, lockVars, processing, serverVars, hand, marked, todo, past>>

DequeueEmpty(w) ==
  /\ pc[w] = "dequeue"
  /\ head >= tail
  /\ headLock' = Nobody
  /\ Goto(w, "idle")
  /\ UNCHANGED <<queueVars, tailLock, processing, serverVars, hand, marked, todo, past>>

(* Wrong on purpose: it returns at a slot without an item. *)
DequeueSkipStays(w) ==
  /\ pc[w] = "dequeue"
  /\ head < tail
  /\ item[head] = NoJob
  /\ headLock' = Nobody
  /\ Goto(w, "idle")
  /\ UNCHANGED <<queueVars, tailLock, processing, serverVars, hand, marked, todo, past>>

(* ... skips a slot without an item, ... *)
DequeueSkip(w) ==
  /\ pc[w] = "dequeue"
  /\ head < tail
  /\ item[head] = NoJob
  /\ head' = head + 1
  /\ headLock' = Nobody
  /\ Goto(w, "idle")
  /\ UNCHANGED <<tail, item, tailLock, processing, serverVars, hand, marked, todo, past>>

(* ... or reads the job, *)
DequeueGet(w) ==
  /\ pc[w] = "dequeue"
  /\ head < tail
  /\ item[head] # NoJob
  /\ hand' = [hand EXCEPT ![w] = item[head]]
  /\ Goto(w, "remove")
  /\ UNCHANGED <<queueVars, lockVars, processing, serverVars, marked, todo, past>>

(* Wrong on purpose: the item stays, only the counter moves. *)
DequeueRemoveNothing(w) ==
  /\ pc[w] = "remove"
  /\ Goto(w, "advance")
  /\ UNCHANGED <<queueVars, lockVars, processing, serverVars, hand, marked, todo, past>>

(* removes its item, *)
DequeueRemove(w) ==
  /\ pc[w] = "remove"
  /\ item' = [item EXCEPT ![head] = NoJob]
  /\ Goto(w, "advance")
  /\ UNCHANGED <<head, tail, lockVars, processing, serverVars, hand, marked, todo, past>>

(* and moves the head. *)
DequeueAdvance(w) ==
  /\ pc[w] = "advance"
  /\ head' = head + 1
  /\ headLock' = Nobody
  /\ Goto(w, "mark")
  /\ UNCHANGED <<tail, item, tailLock, processing, serverVars, hand, marked, todo, past>>

(* CompleteAndWrap: MarkAsProcessing, ... *)
MarkAsProcessing(w) ==
  /\ pc[w] = "mark"
  /\ Entry(ServerOf[w], hand[w], "fresh")
  /\ marked' = [marked EXCEPT ![w] = TRUE]
  /\ Goto(w, "run")
  /\ UNCHANGED <<queueVars, lockVars, serverVars, hand, todo, past>>

(* ... or back with the job when that throws, before or after it wrote. *)
MarkFails(w) ==
  /\ pc[w] = "mark"
  /\ Fault
  /\ UNCHANGED processing \/ Entry(ServerOf[w], hand[w], "fresh")
  /\ Goto(w, "reqLock")
  /\ UNCHANGED <<queueVars, lockVars, serverVars, hand, marked, todo, done, dropped>>

(* The worker performs the job and calls RemoveFromQueue. *)
Perform(w) ==
  /\ pc[w] = "run"
  /\ done' = done \cup {hand[w]}
  /\ Goto(w, "clear")
  /\ UNCHANGED <<queueVars, lockVars, processing, serverVars, hand, marked, todo, dropped, faults>>

(* It does not, and Dispose requeues the job. *)
GiveUp(w) ==
  /\ pc[w] = "run"
  /\ Fault
  /\ Goto(w, "reqLock")
  /\ UNCHANGED <<queueVars, lockVars, processing, serverVars, hand, marked, todo, done, dropped>>

(* Another worker of the server has fetched the job too. *)
Shares(w, v) ==
  v # w /\ ServerOf[v] = ServerOf[w] /\ hand[v] = hand[w]

(* RemoveFromProcessingSet, unless it does not get the lock, ends          *)
(* RemoveFromQueue and Requeue.  After Requeue the entry may be another    *)
(* worker's: the set is the server's, and the job was back in the queue.   *)
Clear(w) ==
  /\ pc[w] \in {"clear", "unmark"}
  /\ \/ /\ Entry(ServerOf[w], hand[w], "none")
        /\ dropped' = IF /\ pc[w] = "unmark"
                          /\ \E v \in Workers : Shares(w, v) /\ marked[v] /\ pc[v] # "unmark"
                       THEN dropped \cup {hand[w]} ELSE dropped
        /\ UNCHANGED faults
     \/ Fault /\ UNCHANGED <<processing, dropped>>
  /\ hand' = [hand EXCEPT ![w] = NoJob]
  /\ marked' = [marked EXCEPT ![w] = FALSE]
  /\ Goto(w, "idle")
  /\ UNCHANGED <<queueVars, lockVars, serverVars, todo, done>>

(* When it throws in RemoveFromQueue, Dispose requeues the job. *)
ClearThrows(w) ==
  /\ pc[w] = "clear"
  /\ Fault
  /\ Goto(w, "reqLock")
  /\ UNCHANGED <<queueVars, lockVars, processing, serverVars, hand, marked, todo, done, dropped>>

-----------------------------------------------------------------------------
(* Requeue writes the job below the head, and then moves the head down. *)
RequeueLock(a) ==
  /\ pc[a] = "reqLock"
  /\ headLock = Nobody
  /\ headLock' = a
  /\ Goto(a, "reqItem")
  /\ UNCHANGED <<queueVars, tailLock, processing, serverVars, hand, marked, todo, past>>

(* Wrong on purpose: it goes into the head's own slot. *)
RequeueItemOver(a) ==
  /\ pc[a] = "reqItem"
  /\ item' = [item EXCEPT ![head] = hand[a]]
  /\ Goto(a, "reqHead")
  /\ UNCHANGED <<head, tail, lockVars, processing, serverVars, hand, marked, todo, past>>

RequeueItem(a) ==
  /\ pc[a] = "reqItem"
  /\ head - 1 \in Slots
  /\ item' = [item EXCEPT ![head - 1] = hand[a]]
  /\ Goto(a, "reqHead")
  /\ UNCHANGED <<head, tail, lockVars, processing, serverVars, hand, marked, todo, past>>

(* Wrong on purpose: it does not notice that it succeeded, and tries again. *)
RequeueHeadAgain(a) ==
  /\ pc[a] = "reqHead"
  /\ head' = head - 1
  /\ UNCHANGED <<tail, item, lockVars, processing, serverVars, actorVars, past>>

RequeueHead(a) ==
  /\ pc[a] = "reqHead"
  /\ head' = head - 1
  /\ headLock' = Nobody
  /\ PutBack(a)
  /\ UNCHANGED <<tail, item, tailLock, processing, serverVars, marked, todo, past>>

(* When it does not get the lock in time it enqueues the job at the tail. *)
RequeueTimesOut(a) ==
  /\ pc[a] = "reqLock"
  /\ headLock # Nobody
  /\ Goto(a, "enqLock")
  /\ UNCHANGED <<queueVars, lockVars, processing, serverVars, hand, marked, todo, past>>

-----------------------------------------------------------------------------
(* FetchedJobsWatcher: take the stale entries off the processing set of a  *)
(* server in the registry, *)
TakeStale(s) ==
  \E t \in known :
    LET stale == {j \in Jobs : processing[t][j] = "stale"} IN
    /\ pc[s] = "idle"
    /\ todo[s] = {}
    /\ stale # {}
    /\ processing' = [processing EXCEPT ![t] =
                        [j \in Jobs |-> IF j \in stale THEN "none" ELSE @[j]]]
    /\ todo' = [todo EXCEPT ![s] = stale]
    /\ UNCHANGED <<queueVars, lockVars, serverVars, pc, hand, marked, past>>

(* and requeue them one after the other. *)
RequeueNext(s) ==
  /\ pc[s] = "idle"
  /\ \E j \in todo[s] :
       /\ todo' = [todo EXCEPT ![s] = @ \ {j}]
       /\ hand' = [hand EXCEPT ![s] = j]
  /\ Goto(s, "reqLock")
  /\ UNCHANGED <<queueVars, lockVars, processing, serverVars, marked, past>>

(* Time passes: the invisibility timeout is over.  For a worker that runs  *)
(* this takes a heartbeat that is late.                                    *)
GoStale(s, j) ==
  /\ processing[s][j] = "fresh"
  /\ Entry(s, j, "stale")
  /\ IF \E w \in Workers : ServerOf[w] = s /\ s \in up /\ hand[w] = j /\ marked[w]
     THEN Fault
     ELSE UNCHANGED faults
  /\ UNCHANGED <<queueVars, lockVars, serverVars, actorVars, done, dropped>>

(* RenewProcessingEntry: the heartbeat renews an entry, never makes one. *)
Renew(w) ==
  /\ pc[w] = "run"
  /\ processing[ServerOf[w]][hand[w]] = "stale"
  /\ Entry(ServerOf[w], hand[w], "fresh")
  /\ UNCHANGED <<queueVars, lockVars, serverVars, actorVars, past>>

(* RemoveTimedOutServers: no heartbeat of the server for too long.  A      *)
(* server that runs and comes back to its heartbeat does not rejoin.       *)
RemoveTimedOutServer(s) ==
  /\ s \in known
  /\ s \in up => faults < MaxFaults
  /\ known' = known \ {s}
  /\ faults' = IF s \in up THEN faults + 1 ELSE faults
  /\ UNCHANGED <<queueVars, lockVars, processing, server, actorVars, done, dropped>>

-----------------------------------------------------------------------------
(* The jobs an actor carries that nothing in the cache has. *)
Unsaved(a) ==
  IF a \in Workers
  THEN IF pc[a] \in {"advance", "mark"} \cup RequeuePCs /\ ~marked[a] THEN {hand[a]} ELSE {}
  ELSE todo[a] \cup (IF pc[a] \in RequeuePCs THEN {hand[a]} ELSE {})

(* The job of a worker whose entry another worker is about to take away. *)
Exposed(a) ==
  IF /\ a \in Workers
     /\ marked[a]
     /\ \E v \in Workers : Shares(a, v) /\ pc[v] = "unmark"
  THEN {hand[a]} ELSE {}

Release(A) ==
  /\ headLock' = IF headLock \in A THEN Orphan ELSE headLock
  /\ tailLock' = IF tailLock \in A THEN Orphan ELSE tailLock

(* A server dies with its workers and its watcher. *)
Crash(s) ==
  LET A == {s} \cup {w \in Workers : ServerOf[w] = s} IN
  /\ s \in Stopping
  /\ s \in up
  /\ server' = [server EXCEPT ![s] = "crashed"]
  /\ Release(A)
  /\ dropped' = dropped \cup UNION {Unsaved(a) : a \in A}
  /\ pc' = [a \in Actors |-> IF a \in A THEN "idle" ELSE pc[a]]
  /\ hand' = [a \in Workers \cup Servers |-> IF a \in A THEN NoJob ELSE hand[a]]
  /\ marked' = [w \in Workers |-> marked[w] /\ w \notin A]
  /\ todo' = [todo EXCEPT ![s] = {}]
  /\ UNCHANGED <<queueVars, processing, known, done, faults>>

(* A call to the cache throws in the middle of TryDequeue, Requeue or      *)
(* Enqueue: the lock is given back and the operation is over, and with it  *)
(* the pass of the watcher.                                                *)
CallFails(a) ==
  /\ pc[a] \in {"remove", "advance"} \cup RequeuePCs
  /\ Runs(a)
  /\ Fault
  /\ headLock' = IF headLock = a THEN Nobody ELSE headLock
  /\ tailLock' = IF tailLock = a THEN Nobody ELSE tailLock
  /\ dropped' = IF a \in Jobs THEN dropped ELSE dropped \cup Unsaved(a) \cup Exposed(a)
  /\ Goto(a, IF a \in Jobs THEN "failed" ELSE "idle")
  /\ hand' = IF a \in Jobs THEN hand ELSE [hand EXCEPT ![a] = NoJob]
  /\ marked' = IF a \in Workers THEN [marked EXCEPT ![a] = FALSE] ELSE marked
  /\ todo' = IF a \in Servers THEN [todo EXCEPT ![a] = {}] ELSE todo
  /\ UNCHANGED <<queueVars, processing, serverVars, done>>

(* The lease of a crashed server's lock runs out. *)
LeaseEnds ==
  /\ Orphan \in {headLock, tailLock}
  /\ headLock' = IF headLock = Orphan THEN Nobody ELSE headLock
  /\ tailLock' = IF tailLock = Orphan THEN Nobody ELSE tailLock
  /\ UNCHANGED <<queueVars, processing, serverVars, actorVars, past>>

EnqueueStep(a) == EnqueueLock(a) \/ EnqueueItem(a) \/ EnqueueTail(a)

RequeueStep(a) ==
  RequeueLock(a) \/ RequeueItem(a) \/ RequeueHead(a) \/ RequeueTimesOut(a) \/ EnqueueStep(a)

DequeueStep(w) ==
  \/ Wake(w) \/ DequeueLock(w) \/ DequeueTimesOut(w) \/ DequeueEmpty(w) \/ DequeueSkip(w)
  \/ DequeueGet(w) \/ DequeueRemove(w) \/ DequeueAdvance(w) \/ MarkAsProcessing(w)

WorkerStep(w) ==
  /\ ServerOf[w] \in up
  /\ DequeueStep(w) \/ Perform(w) \/ Clear(w) \/ RequeueStep(w)

WatcherStep(s) ==
  /\ s \in up
  /\ TakeStale(s) \/ RequeueNext(s) \/ RequeueStep(s)

Mishap(w) == ServerOf[w] \in up /\ (MarkFails(w) \/ GiveUp(w) \/ ClearThrows(w) \/ Renew(w))

Next ==
  \/ \E j \in Jobs : StartEnqueue(j) \/ EnqueueStep(j)
  \/ \E w \in Workers : WorkerStep(w) \/ Mishap(w)
  \/ \E s \in Servers :
       \/ AnnounceServer(s) \/ WatcherStep(s)
       \/ RemoveTimedOutServer(s) \/ Crash(s)
       \/ \E j \in Jobs : GoStale(s, j)
  \/ \E a \in Actors : CallFails(a)
  \/ LeaseEnds

(* Workers and watchers of a running server go on, a client that started   *)
(* ends its call, leases and invisibility timeouts run out.                *)
Fairness ==
  /\ \A j \in Jobs : WF_vars(EnqueueStep(j))
  /\ \A w \in Workers : WF_vars(WorkerStep(w))
  /\ \A s \in Servers :
       WF_vars(WatcherStep(s)) /\ WF_vars(\E j \in Jobs : s \notin up /\ GoStale(s, j))
  /\ WF_vars(LeaseEnds)

Spec == Init /\ [][Next]_vars
FairSpec == Spec /\ Fairness

-----------------------------------------------------------------------------
(* A job that was enqueued and not performed is in the queue, in some      *)
(* processing set, or in the hands of a running worker or watcher.  Only a *)
(* crash or a throwing call loses it, and only in three windows: after     *)
(* TryDequeue removed its item and before MarkAsProcessing, after the      *)
(* watcher took it off a processing set, and when a worker that requeued   *)
(* it removes the entry of another worker of its server, which has fetched *)
(* it again (Clear).  No interleaving of Enqueue, TryDequeue and Requeue   *)
(* under their two locks does.                                             *)
NoJobIsLost ==
  \A j \in Jobs :
    pc[j] = "sent" =>
      \/ j \in done \cup dropped
      \/ Queued(j)
      \/ InProcessing(j)
      \/ \E a \in Workers \cup Servers : hand[a] = j \/ (a \in Servers /\ j \in todo[a])

Holding(a) == pc[a] \in {"advance", "mark", "run"} \cup RequeuePCs

(* While nothing fails, a job is in one place: in one slot of the queue or *)
(* with one worker.  No job runs twice.                                    *)
JobIsInOnePlace ==
  faults = 0 =>
    \A j \in Jobs :
      Cardinality({k \in head .. tail - 1 : item[k] = j})
        + Cardinality({a \in Workers \cup Servers : Holding(a) /\ hand[a] = j}) <= 1

(* The worker has taken a job and has neither put it back nor finished. *)
HasTaken(w) == pc[w] \in {"advance", "mark", "run", "clear"} \cup RequeuePCs

(* The slots that have a job, and the job each worker has. *)
Waiting == [k \in {i \in head .. tail - 1 : item[i] # NoJob} |-> item[k]]
Taken   == [w \in Workers |-> IF HasTaken(w) THEN hand[w] ELSE NoJob]

Line == INSTANCE JobLine WITH
  Places <- Slots, Takers <- Workers, line <- Waiting, taken <- Taken

(* However Enqueue, TryDequeue and Requeue of any actors are interleaved   *)
(* under the two locks, and whatever crashes or throws half way, the items *)
(* and counters are a line: EnqueueTail adds at its end, DequeueRemove     *)
(* takes its first job and gives it to the worker that read it,            *)
(* RequeueHead puts one in front of all, and no other write is seen.       *)
ImplementsLine == Line!LineSpec

(* A job that was enqueued is performed in the end, as long as some server *)
(* runs, whichever server crashes while it has it: unless it is dropped in *)
(* one of the windows, or its server left the registry with the job in its *)
(* processing set.                                                         *)
EnqueuedIsDone ==
  \A j \in Jobs :
    (pc[j] = "sent" /\ up # {}) ~>
      \/ j \in done \cup dropped
      \/ up = {}
      \/ \E s \in Servers \ known : processing[s][j] # "none"

(* The jobs of a crashed server are requeued, as the readme promises.      *)
CrashedServersJobsAreRequeued ==
  \A s \in Servers, j \in Jobs :
    (s \notin up /\ processing[s][j] # "none") ~> (processing[s][j] = "none" \/ up = {})
=============================================================================
