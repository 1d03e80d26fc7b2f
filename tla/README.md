# A verification development for NCache-Integrations

The repository holds integrations of the NCache distributed cache with other frameworks.
What they have in common is that several processes keep shared state in the cache, whose
single calls are atomic and whose sequences of calls are not. This directory models the
integrations that build a *protocol* on the cache - locks, limiters, a job queue, a message
backplane - as TLA+ modules, checks them with TLC on small instances and proves the main facts with TLAPS.
`PROJECT.json` lists components, runs, mutants, the lines every definition stands for,
findings, hazards and theorems.

## 1. The system

| Component (under `src/`) | State it keeps | Operations | Hard behaviour |
|---|---|---|---|
| **Key locking** `Extensions` | one lock item per key: a token with an expiration | `LockKey`, `UnlockKey` | two calls race between Contains, Add and Get; holders die; UnlockKey is Get then Remove |
| **Mutex** `NCache.OSS.DistributedLock` | one record per lock name | Acquire, TryAcquire, Dispose, loss monitor | retry loops, expiry without renewal, a timer callback against Dispose |
| **Semaphore** (same) | list of acquisitions under a key lock, a record each | Acquire, Dispose | pruning of dead holders, partial writes |
| **Reader-writer lock** (same) | list of readers, their records, one writer's entry | reader/writer Acquire, Dispose | entries read outside the lock, waiting writers |
| **Concurrency limiter** `NCacheRateLimiting` | leases, queue and sequence in the cache; per node an admission channel, a local queue, a pump, a timer | acquire, queue, promote, release, cancel, dispose | several nodes, continuations on the thread pool, cancellations, lost nodes |
| **Window and bucket limiters** (same) | one state item under a key lock, a lock item, a statistics item | constructor, acquire | time read before the lock is waited for, items that expire, constructors cut short |
| **Hangfire job queue** `NCache.OSS.HangFire` | head, tail, an item per slot; processing sets; server registry | Enqueue, TryDequeue, Requeue, mark, clear, recover | two locks for one queue, crashes between calls, recovery by other servers |
| Hangfire transactions, counters, expiration, monitoring | job data, sets, hashes, lists, counters | Commit, flushers, managers | Commit without rollback |
| **SignalR backplane** (ASP.NET Core) | connections, groups and users of one server; topics | connect, join, leave, send | shared collections under concurrent joins and leaves, publish retries, topics that go away |
| SignalR message bus (ASP.NET) | connection state | start, publish, reconnect | reconnection |
| FusionCache backplane | a topic and a subscription | subscribe, publish | asynchronous connect and disconnect |
| NHibernate cache, data protection, CacheManager, session state | single items, lists of keys, whole sessions | read, write, lock | unlocked or partly locked read-modify-write |
| EF Core, output caches, distributed cache, ticket store | none of their own | one cache call per operation | none |

How they meet: the semaphore, the reader-writer lock, the limiters, the job queue, data
protection and NHibernate all call `LockKey`/`UnlockKey`. The mutex does not; it uses the
atomicity of `Add`. The limiter's nodes only talk through the cache. Hangfire's servers talk
through the cache and by messages that merely wake workers up.

What makes each correct:

- key lock: one owner at a time; a dead owner's lock ends;
- mutex: at most one handle whose record is still there; a lost record is signalled, none is
  signalled that was not lost; timeouts end;
- semaphore: no more holders than slots, no holder forgotten;
- reader-writer lock: writers alone, readers counted, nothing left behind;
- limiter: permits over all nodes, order of arrival, no permit leaked, everybody is served;
- window limiters: no more grants in any stretch of time than the window or the rate allows;
  nobody shut out for ever;
- SignalR backplane: a server that is connected listens; members of a group are in its set and
  get every message once, connections that left are not;
- job queue: no job lost, none run twice unless something failed, every job performed,
  crashed servers' jobs recovered.

## 2. Modules

| Module | Models | Builds on |
|---|---|---|
| `LeaseLock` | the abstract lock on a key: free, held, or orphaned until its lifetime ends | |
| `KeyLock` | `LockKey`/`UnlockKey` call by call | refines `LeaseLock` |
| `DistributedLock` | mutex, retry loops, handle, monitor | |
| `DistributedSemaphore` | semaphore | extends `LeaseLock` |
| `ReaderWriterLock` | reader-writer lock | extends `LeaseLock` |
| `RateWindows` | fixed window, sliding window, token bucket | extends `LeaseLock` |
| `ConcurrencyLimiter` | manager, limiter, lease of all nodes | operations atomic under the key lock |
| `JobLine` | the abstract line of jobs: add at an end, take the first, put back | |
| `JobQueue` | queue, fetched jobs, watcher, registry | refines `JobLine`; two lock variables with the lease's rules |
| `HubLifetimeManager` | SignalR backplane: connection, groups, delivery | |
| `KeyLockProofs`, `DistributedLockProofs`, `DistributedSemaphoreProofs`, `ReaderWriterLockProofs`, `RateWindowsProofs`, `ConcurrencyLimiterProofs`, `JobQueueProofs`, `HubLifetimeManagerProofs` | theorems | the modules named |
| `MC...` | constants for TLC | |

Conventions. One action is one call to the cache, together with the local work up to the next
call; `pc` says where an actor is. A definition that starts with "Wrong on purpose" is a
mutated version of the one below it and takes part in no specification; it records a bug
that the named property must notice. Time is a count-down: `Tick` takes a unit from every
lifetime and every deadline at once, so clocks agree. `Orphan` is the owner of whatever a
crashed caller left in the cache.

### KeyLock and LeaseLock

State: `data` (does the locked key exist; it may appear and disappear at any time), `lock`
(the item under `LOCK_KEY_PREFIX` + key with its owner and lifetime), `pc`. `ContainsKey`,
`ContainsLock`, `AddLock`, `VerifyLock` (the `GetBulk`) and `UndoLock` are `LockKey`;
`UnlockGet` and `UnlockRemove` are `UnlockKey`; `UnlockWithoutToken` is its branch for a null
token, which removes the item whoever's it is. Only a caller that has the lock takes it in the
model; NHibernate, which also does so after its lock may have gone, is not modelled. A token is only compared by the call that
made it, so the item carries its caller. `GetBulk` reads both keys in one step.

`Prompt` is the assumption every user of the lock makes: a live caller finishes before its own
lease runs out. Under `Prompt`, `KeyLock` is exclusive and refines `LeaseLock` with
`holder <- lock.owner, left <- lock.ttl`. Without it both fail. In particular UnlockKey compares
the token in one call and removes the item in the next (`LockingExtension.cs:93`), so that a
caller that stalls between them past its lease removes the lock of the caller that came after;
the test `UnlockKey_WithForeignToken_KeepsLock` (`LockingExtensionTests.cs:56`) presents a
foreign token to the comparison and does not meet this. `ForeignTokenKeepsLock` says that for
prompt callers the two calls are as good as one.

### DistributedLock

`record` is the item under `_lockKey`. A caller goes through `acquire`/`acquireNap` (Acquire,
which tests its deadline first) or `try`/`tryNap` (TryAcquire, which does not), to `held`, and
through `stopping`, `release`, `remove` of Dispose. The loss monitor of each handle is `mon`:
armed, in a check, about to mark, about to cancel. `AddThrows` covers both an `Add` refused
because a record is there and one that fails before or after it wrote. The next Acquire of a
thread waits for the callback of its previous handle, which a handle in the code would simply
outlive: the two share nothing.

### DistributedSemaphore

The list in the primitive, a record per acquisition, an expiry per acquisition. The primitive
itself has no expiration, so it is always there. Acquisitions (GUIDs) are recycled when nothing
refers to them any more. A process that crashes leaves its slot, its record and its lock.

### ReaderWriterLock

The readers' list under the key lock, and the writer's entry, which readers look at *before*
they take the lock. A writer with a null timeout never waits; a writer that waits does so until
its timeout even if the readers have left (line 212). Both are in the model. The timeout may be
shorter than, equal to or longer than the life of the writer's entry (the readme's
default is 30 seconds against 15), so that the entry can expire under a waiting writer, which
then inserts it again, over whatever entry is there by then.

`stale` and `lost` are histories of one attempt or handle and are cleared by `End`: in `stale` are
the readers for whom a writer's entry came between their look and their lock, in `lost` the
writers whose entry went away under them. The properties are about handles whose entry is
still there, as the code tells the others through `HandleLostToken`. That monitor is the mutex's
class; a reader's own record, which only the monitor reads, is left out.

### RateWindows

Cache: `item` (the state, with `ttl`), `keys` (which of the lock item and the statistics item exist),
the lock of `LeaseLock`. `kind` picks the manager; the three share the protocol and differ in
`CurrentWindow`, `CurrentStamps`, `CurrentTokens`, in `Charged`, in `Life` and in where the clock is read: before
the lock (fixed), or once it is had but before the item is fetched (sliding, bucket). A call goes
through `Ask`, `Lock` or `LockTimesOut`, `Get`, `Put`, `Unlock`; the constructor adds three items in
`Order`, each in a step. A constructor that throws or dies leaves the rest out, and the next one
sees the first item and adds nothing: if the lock item is missing, `LockKey` refuses everyone for
ever. `ShutOutOnlyByCutConstructor` says that this is the only way there.

What happens in a stretch of time is told by tallies, how much there was up to each moment: the
sliding window's list of stamps is one, and so are the histories `granted` (permits by time) and `back`.
`lag` is the greatest age of the time a grant was made with. The limits hold up to such ages, and the
properties carry them:

- the fixed window grants what its windows on the clock allow, plus a window's worth for each
  window of `lag`;
- the sliding window is exact while `lag` is at most the second by which its item outlives the window
  (`Grace`; a holder that is slower sees an expired item, and without this condition TLC finds the
  limit passed);
- the token bucket grants a full bucket and the replenishments in between, and what a bucket is
  *older* for the call that uses it: a call that reads the clock, finds no item and makes one with the
  time it read dates the bucket back by the time since, and one that finds a bucket made after it
  read the clock does the same. This can happen each time the item expires, so it adds up, and a
  bound with one `lag` for all of them is wrong on instances with several expirations; `back`
  tallies it.

The sliding window takes one permit whatever `permitCount` is, and so does the model. A fixed window's
check before the lock changes nothing when it refuses and is no action. `permitCount` 0 is left out, as
are the counts in the statistics item.

### ConcurrencyLimiter

Cache: `leases` with `left` (the rest of ExpectedRequestTimeout), `queue` (each entry's Sequence),
`counter`. Node: `channel` (admission tickets), `waiting` (`_queue`), `pump` and `head`
(`TryDequeueRequestsAsync`), `node`. Request: `st`, `token`. Every operation of the manager is a step
because it runs under the key lock; that it does not get the lock in three seconds, or fails
half way, is a fault. The continuation that puts an answered request in the local queue is a
step of its own (`Enqueue`), and so is every continuation after a cancellation. After Dispose
the admission loop may or may not go on with its tickets, as the channel is completed while it
runs. Statistics and metadata are left out; QueueLimit 0, where nothing is ever queued, is
excluded; initialisation is done.

The manager writes leases, queue and counter without an expiration, although the readme says
that "state keys are auto-expired" (`README.md:13` of the rate limiters), and so does the fixed
window with its state: in the model these items stay, and only leases run out, by
`CleanupExpiredEntries`.

### JobQueue

Cache: `head`, `tail`, `item`, the two locks, `processing` (an entry per server and job), `known`
(the registry). Actors: clients (one per job), workers, watchers (one per server). Enqueue
locks the tail; TryDequeue and Requeue lock the head; each write in between is a step. The
processing sets are written once per critical section: one step. Time is left out: an
entry may go stale and a server may be taken off the registry at any time; for a server that
runs, each takes a fault (heartbeats that come too late). A worker is only woken when there
are jobs; which of the message, the backlog watcher or the poll does it is left open. The
lock on a counter passes to `Orphan` when its holder dies and ends with its lease.

A server has one processing set for all its workers, and `Requeue` takes the entry away after the
job is back in the queue (`NCacheFetchedJob.cs:52`). Another worker of the same server may have
fetched and marked the job by then, and it is *its* entry that goes; when that worker crashes, or fails
in the middle of putting the job back, the job is gone. This is the third of the windows `NoJobIsLost`
excuses, next to the ones before `MarkAsProcessing` and after the watcher took an entry: `dropped`
has a job whose entry was taken away under its worker (`Clear`, `Exposed`). It takes two workers on
one server, which the instance has.

What clients and workers see of head, tail, items and two locks is `JobLine`: a line of jobs, at
places that are ordered and need not be adjacent, and the job each taker has. The mapping takes
the line from the slots between the counters that have an item (`Waiting`), and the taker's job from
its hand once the item is removed and until the worker is done with it or has put it back
(`Taken`). Five kinds of step are visible: `EnqueueTail`, which moves the tail over the
item written before, `DequeueRemove`, `RequeueHead`, the fallback of Requeue to the end of the queue, and
whatever parts a worker from its job. All others, half-way failures included, are stutters: an
item written below the head or at the tail is not in the line yet, and a slot without an item is
skipped.

`Slots` is where the counters may go, `MaxRequeues` below zero and as many above the number of jobs;
a write that would leave it is not made (the guards of `EnqueueItem` and `RequeueItem`). In the
run no behaviour comes near: four is more than one fault can cause.

### HubLifetimeManager

Per server: `cache`, `guard`, `topicOf`, `sub` for `_cache`, `_connectionLock`, `_topic` and
`_topicSubscription`; `group` is the HashSet that `_groups` maps the one group to, `elems` what is in
the HashSets. `EnsureNCacheServerConnection` is `Start`, `GetCache`, `GetTopic`, `CreateSubscription`,
`ConnectFails`. The ConcurrentDictionary is atomic call by call, so joining is `TryAdd`,
`FetchToAdd`, `Add`, and leaving is `FetchToRemove`, `Remove`, `Count`, `Drop`; nothing guards the HashSets, and two calls
inside one at a time leave any set made of what both had (`Clash`). `OnDisconnectedAsync` leaves
groups without awaiting it: its steps have the role `bye`. A message is published with up to three
retries, by one server, is in every listening server's `inbox`, and its callback fetches the set (`Receive`) and
walks through it (`Walk`, or `WalkThrows` when it is changed meanwhile).

`shaken`, `late` and `due` are histories that say whom a property excuses: connections whose set
another call ran over or dropped, connections that were still joining when they went, and who a
message must reach. A topic may be deleted at any time; a retry makes it anew, and servers
keep their subscription to the old one and hear nothing of it: such servers are not in `due`.
A join for a connection of another server is dropped silently and changes nothing.
One group, no user identifiers (users' sets are kept by the same code as groups'), no Dispose; of
the kinds of message only the one to a group. `SendToUserIds` returns inside its loop (line 510), so
only the first user of a list is served; that is read off the code and not modelled.

## 3. Runs

| Run | Instance | What it shows |
|---|---|---|
| `keylock` | 3 callers, lifetimes 1-3, `Prompt` | type, exclusion, refinement of the lease, no foreign lock removed, a dead owner's lock ends |
| `mutex` | 2 threads, lease 2, timeouts 0-1 | one record per lock name, losses signalled and not invented, timeouts end |
| `semaphore` | 3 processes, 5 GUIDs, 2 slots, lease 2 | capacity of the list and of the holders, every holder listed |
| `rwlock` | 3 processes, lease 2, timeouts to 3 | writers exclude each other; readers are listed; no entry left behind; overlap only after a stale look |
| `rwlock_exclusion` (violation) | the same | a reader and a writer hold the lock together |
| `rate_windows` | 2 processes, limit 2, window 2, clock to 5, 1 fault, lease 3, each of the three managers | limits of all three, windows charged, shut out only by a cut constructor |
| `limiter` | 2 nodes, 3 requests, 1 permit, queue of 1, 1 fault, one node stops | permits, no leaked lease, nobody overtakes the queue, full queue |
| `limiter_liveness` | the same with a queue of 2, nothing stops or fails | queued requests are served when local queues are in order |
| `limiter_any_order` (violation) | as `limiter_liveness` | and are not when they are out of order |
| `jobqueue` | 2 jobs, 2 servers, one with two workers that may crash, one with one, 1 fault | counters, items and locks implement `JobLine`; no job lost or doubled, every job performed |
| `jobqueue_recovery` (violation) | the same without faults | a crashed server's job is never requeued |
| `hub` | 1 server, 2 connections, 1 message, 2 joins or leaves, 4 topics, 1 fault | connected means subscribed, members listed, no ghosts, members reached once |

Why the bounds are enough to be interesting. Three callers are the least that let a third
take a lock that expired under the first and is then removed by it. A lease of 2 lets time
pass once inside a critical section and once outside. Five GUIDs let three processes have one
acquisition each while two dead ones are still listed. A timeout of 3 is longer than the
entry's life of 2, one of 0 or 1 shorter. The window run's clock ends a tick after the longest item
(the bucket's, four ticks) can expire; two windows fit in it. Two joins or leaves by two connections, with their
disconnects, make three calls in one HashSet; four topics let the three retries of a publish run
out; one server is enough for what a server does with its own sets, and what others do to the topic is
`DeleteTopic`. Two requests on one node and one on
another are the least with a local order, an order across nodes and somebody behind; with three
requests a queue of one is what a request can find full, which is why the two runs differ in it. Two jobs
let a requeued job meet a newer one; two servers let one recover the other. `MaxFaults` bounds
failures, not what happens after them; `MaxRequeues` sizes the slots on both sides of the
counters, with room to spare.

`CHECK_DEADLOCK FALSE` stands in the limiter's, the job queue's, the windows' and the hub's
configurations: every request is made once, every job enqueued once, every connection opened
once, and the windows' clock stops, so behaviours end.

Fairness. In `KeyLock`, `DistributedLock` and `JobQueue` an actor that is inside a call goes on
with it, timers fire and time passes. No caller has to start a call; no owner of a mutex handle
or of a permit has to dispose it. (The owner of a *key lock* does unlock: it is a
critical section of this same code.) In the limiter the admission loops, continuations, pumps
and timers go on. In `JobQueue` workers and watchers of a running server go on,
and a client that called Enqueue comes to the end of it; worker threads of Hangfire loop on
`FetchNextJob` and its background processes on `Execute`. Weak fairness is enough everywhere:
the models check that no lock is passed round for ever past somebody who waits.

### The findings

1. `rwlock_exclusion`: a reader looks for a writer, then locks, and does not look again.
   `NCacheDistributedReaderWriterLock.cs:103`, against "multiple concurrent readers or a single
   exclusive writer". No expiry and no crash is involved. `OverlapOnlyAfterStaleLook` shows that
   this is the *only* way to overlap.
2. `limiter_any_order`: two requests of one node swapped between the cache's queue and the node's
   block each other and everyone behind them. `ConcurrencyRateLimiter.cs:189`, against "strict,
   cross-node FIFO order".
3. `jobqueue_recovery`: the watcher only looks at registered servers, and crashed servers are
   taken off the registry, by default long before the invisibility timeout of ten minutes.
   `FetchedJobsWatcher.cs:31`, against "requeues jobs left in a processing state past the
   configured invisibility timeout, e.g. after a server crash".

The properties that hold say what is left once these are known: `EnqueuedIsDone`, for instance,
excludes the jobs of servers off the registry and those in the three windows in which nothing but
a process's memory has a job (after TryDequeue removed the item and before
`MarkAsProcessing`; after the watcher took an entry and before `Requeue` wrote it; after another
worker's `Requeue` took the entry away).

## 4. Proofs

`KeyLockProofs` (for every set of callers and every set of lifetimes):

- `TypeCorrect`. The conjunct "no owner exactly when no lifetime" is needed by the refinement.
- `CallersExcludeEachOther`: `MutualExclusion`. It is not inductive: that two callers are not both
  past `VerifyLock` follows only from where the item is. The strengthening is `OwnersHaveTheItem`
  (under `Prompt`, a caller that uses the lock is the owner the item names), from which exclusion
  follows since the item names one owner. Expiry keeps it because, under `Prompt`, `Tick` does not
  take the last unit of an owner that uses the lock.
- `ForeignTokenIsRefused`: the same invariant, at the step of UnlockKey that removes the item.
- `KeyLockImplementsLease`: initial states map to initial states and each step to a step of the
  lease or a stutter, one case per action; `UnlockRemove` is where the invariant is needed.

`DistributedLockProofs` (every set of threads, lease, timeout):

- `TypeCorrect`;
- `AtMostOneKeepsItsRecord`, from `KeepersOwn`: a handle whose record did not go away is the owner
  the record names, through all of Acquire and Dispose;
- `NoLossIsInvented`, from `MonitorIsQuiet` (a thread without a handle has no callback
  running) and `LossHasCause` (a check that is about to cancel a token that is still
  alive has seen a record that is gone, or has failed);
- `WatchNeverEnds`: `HandlesAreWatched`, what `LossIsSignalled` rests on. The monitor of an open handle is
  armed or in a check and nobody has stopped it, or the token is cancelled or about to be: no check
  ends without re-arming the timer or deciding.

`DistributedSemaphoreProofs` (every set of processes and GUIDs, every number of slots and lease):

- `TypeCorrect`;
- `SlotsStayWithinCapacity`, from `ListsFit`: not only the list in the cache fits, but the copies that
  callers are about to write back. It holds without `Prompt`: a stale copy fits as well;
- `HoldersAreListed` and `HoldersStayWithinCapacity`, under `Prompt`. `LockIsHeld` (whoever works on the
  list has the lock) makes the copies fresh; `OwnAcqs` gives every caller an acquisition of its own;
  `Counted` says that an acquisition with a record is on the list and on every copy of it in work. The
  holders then inject into the list, which fits (`FiniteSetTheorems`).

`ReaderWriterLockProofs` (every set of processes, lease and timeout):

- `TypeCorrect`;
- `WritersExcludeEachOther` and `NoEntryIsLeftBehind`, from `WriterInv`, without `Prompt`: a
  writer that did not lose its entry owns the one that is there;
- `ReadersAreListed`, under `Prompt`, from `LockIsHeld` and `ListsAreFresh` (a caller's copy of the list is
  the list but for its own entry);
- `OnlyAStaleLookOverlaps`, under `Prompt`, from `EntryIsSeen` as well: while a writer has its entry,
  every reader on its way in looked too early, and once the writer has seen the list empty so did
  every reader that is in.

`ConcurrencyLimiterProofs` (every set of nodes and requests, every limit and number of faults):

- `NobodyIsOvertaken`: `FirstComeFirstServed`, with no invariant: each way a lease is written, half-way
  failures included, goes through `MayEnter` or `MayPromote` in the same critical section;
- `NoMoreThanThePermits`: `PermitsWithinLimit`. `LeasesWithinLimit` bounds the leases the cache counts, at the
  step that adds one. That holders are not more than those is `HoldersHaveLeases`: whoever holds, or is
  about to be told, has a lease until it times out. It needs to know where a request can be:
  `TicketsInLine` (a ticket is once in its own node's channel), `OwnRequests` (the local queue
  and the pump deal with the node's requests) and `HeadsWaitOrAreOver` (the pump never promotes or takes
  back a request that holds), so that a release or an undo never takes a holder's lease;
- `NoLeaseIsForgotten`: `NoLeakedLease`, from the same facts about where a request is: each step that ends
  the owner of a lease hands it on, removes it, or counts as a fault;
- `NoEntryIsForgotten`: `EntriesAreAttended`, what `QueuedIsServed` rests on. On a node that runs, and while
  no call has failed, each entry of the cache's queue belongs to a request whose continuation has yet
  to put it in the local queue, or that is there, or whose entry is about to be removed. It needs
  to know that what the pump peeked at is still the first of the local queue when the pump takes it off
  (`HeadIsFirst`: others only append), and that a promoted request has no entry any more
  (`PromotedHasNoEntry`), so that `Grant` and `Undo` take nobody off whose entry is still in line;
- `TypeCorrect`. That the sequence numbers stay within the number of requests is `NumbersDrawn`: a
  number is drawn by a request that is answered, also when the counter was not saved.

`RateWindowsProofs` (every set of processes, every limit, window, rate and number of faults):

- `TypeCorrect`, from `StatesFit`. It holds without `Prompt`: a stale copy is a state as well;
- `OnlyACutConstructorShutsOut`, without `Prompt`, from `OpeningInv`: until the item to be locked is there,
  either nothing is, or exactly one constructor is past its first item and the state it added has
  not expired, because nobody can get past `Lock` to give it a lifetime;
- `EveryWindowIsCharged`, under `Prompt`, from `FixedInv`: whoever is about to write has charged the very item
  that is there (nobody else writes meanwhile, by `LockIsHeld`), and the item outlives everything.

The three limits are proved under `Prompt`, each from an invariant that says what the item stands for
while grants lie behind it. `CountedInTime` (nothing is granted later than the time of whoever
has the lock) is common to the sliding window and the bucket.

- `TwoWindowsMeetAtMost`: `BurstIsBounded`, from `BurstInv`. For any time s with grants since, those are at
  most the item's count and a limit for each window that fits between s, less the lag, and
  the item's beginning (`EveryWindowCounts`). A write either charges the window that is there or opens
  one at least a window later (`NextWindow`), which keeps the sum; no window ends later than a
  window from now (`ExpiresInTime`), which turns it into the bound.
- `NoWindowExceedsTheLimit`: `SlidingWithinLimit`, from `SlidingInv`. The stamps of the item cover the
  grants of the last window (`ItemCovers`), the item read covers those of the window before the
  time of the call if that is not older than the extra second (`ReadCovers`, `CopyCovers`), and an item that
  has expired had nothing of either any more (`GoneIsOld`). The item never has more
  stamps than the limit.
- `NoBucketGivesMore`: `BucketWithinRate`, from `BucketInv`. Since any time with grants, the tokens in
  the item and the grants together are at most a full bucket and the whole periods up to the item's last
  replenishment, with what the buckets were dated back (`ItemIsBalanced`, `CopyIsBalanced`). When the
  item has expired, a full bucket is in balance at that time (`FullWhenGone`): the expiration is the
  time in which the missing tokens are replenished, so a bucket made anew gives nothing away.

`JobQueueProofs` (every set of jobs, servers and workers, every set of servers that may crash, any number of
faults); `InvAlways` proves the invariant `JobQueueInv`, the theorems follow from it:

- `TypeCorrect`, from `Shape`: besides the types, which `pc` an actor can have, and that whoever is past
  reading a job has one;
- `EnqueuedJobsStay`: `NoJobIsLost`. It is not inductive: a job that is in the slot below the head or at
  the tail, or under the hand of a worker whose entry is about to go, is there only because of what
  the lock's holder does next. `HeadGuarded` and `TailGuarded` (who is between the calls of an operation has
  the lock), `SlotsFit` (what is around the counters for whom) and `EnqueuedIsStored` (which
  counts an entry only when nobody is about to remove it, or when who is marked for it goes on) are;
- `JobsAreNeverTwice`: `JobIsInOnePlace`, from `OneWhileNothingFails`: as long as nothing fails all of a job's
  places - its client, a slot, a hand, a watcher's list, an entry - are one. A crash is no fault
  here: the job of a crashed server is in its entry or lost, and not in two places;
- `QueueImplementsLine`: `ImplementsLine`, step by step, from the same invariant. `SlotsFit` says what is around
  the counters for whoever has a lock - that the worker at `DequeueRemove` still has the very first item in
  hand, the one it read, and that what is about to be counted was written - so that each write is
  either beside the line (`SameLine`) or adds or removes one place (`LineGrows`, `LineShrinks`);
  `RestIsUnseen` takes the steps that touch neither the line nor a hand;
- `NoLockIsStuck`: `WorkGoesOn` and `LocksHaveUsers`, what `EnqueuedIsDone` rests on. Who works runs, and a
  lock that is not free belongs to somebody inside the critical section, or is an orphan's and ends with
  its lease.

`HubLifetimeManagerProofs` (every set of servers, at least one, of connections, HashSets and messages):

- `ConnectedServersListen`, from `GuardIsHeld`: `_connectionLock` of a server belongs to the one who gets
  the topic or subscribes, and to nobody when nobody does;
- `TypeCorrect`, from `SetShape`, `MsgShape` and `TopicShape`;
- `MembersStayListed`: `MemberIsListed`, from `MemberInv`. While somebody is a member, a call that adds has
  the group's own HashSet in hand, a call that removes has none other, and none is about to
  drop it (`AddersHaveCurrent`, `RemoversHaveCurrent`). `CallsInOrder` says that a
  member has no call of its own under way and that only a connection that is gone has the task of
  `OnDisconnectedAsync`;
- `GhostsJoinedLate`: `GhostOnlyAfterLateJoin`, from `GhostInv`: who went away without joining does not
  join later, and is in the group only as long as its task has yet to remove it, in the set it has
  in hand;
- `MembersGetItOnce`: `MembersAreReachedOnce`, from `ReachInv`: nobody has a message before it is out, or
  while their server has yet to handle it, and a callback walks the members' own set. `OneServer`
  is needed as well: a HashSet is used by one server, so another's callback reaches nobody here.

A proof has a step per action, under it the conjuncts the action can disturb. TLC
checks every one of these properties first. Assumptions are the named ASSUMEs of
the modules; TLC evaluates them in the runs. `Prompt` is stated in the theorem where it is needed.

Every invariant and action property that a passing run checks has a theorem. Only model-checked are the
properties that need fairness, which the prover cannot reason about: `CrashNeverWedges`,
`TimeoutsEnd`, `LossIsSignalled`, `QueuedIsServed` and `EnqueuedIsDone`. For the last three `WatchNeverEnds`,
`NoEntryIsForgotten` and `NoLockIsStuck` prove, for every instance, that there is always
somebody who can go on; that they do, and that it comes to an end, is what the runs show. These three
invariants are defined in the proof modules and are in no run of their own. The
bounds of the runs, `MaxTime`, `MaxFaults`, `MaxCalls` and `MaxRequeues`, are any natural numbers in the
theorems.

## 5. What is not modelled

- Clock skew between machines; network partitions of the cache itself; a cache call is atomic,
  and fails, where a fault says so, before or after its effect.
- Leases shorter than a critical section: callers are `Prompt` in all runs but the reader-writer
  lock's entry and the records of handles, which do expire under their owners.
- The queue entry of a limiter node that died, which `CleanupExpiredEntries` never prunes and
  which then stays first in line for every node: it is reachable in the `limiter` run, but
  `QueuedIsServed` is only claimed without crashes.
- Hangfire's write-only transactions: Commit runs its commands one after the other without
  rollback, each command a cache call of its own; there is no protocol between processes to state a
  property of. The same goes for the counter flushers, the region lists of CacheManager and whole sessions:
  an unlocked read-modify-write that loses updates by construction.
- The JavaScript files of the repository are vendored libraries (jQuery, Bootstrap, Modernizr, the
  validation plugins and their documentation stubs) of test and demo applications; the one file
  of its own (`site.js`) has no code. The integrations are C#, and what is modelled is C#.
- Components marked `not_modelled` in `PROJECT.json`, with the reason there.

## 6. Plan

Done: the key lock and its abstraction, the mutex, the semaphore, the reader-writer lock
with entries that expire under a waiting writer, the limiter, the window limiters, the job queue
and the line it implements, the SignalR backplane; a theorem for every safety property the runs
check, and the safety half of three liveness properties.

Next, proofs: an abstract limiter (a set of holders and a line, admission from the front) that
`ConcurrencyLimiter` is shown to implement, from `HoldersHaveLeases`, `NobodyIsOvertaken` and
`NoEntryIsForgotten`. The mutex is not an implementation of `LeaseLock` and will not be shown to be one:
its Dispose compares the record in one call and removes it in the next, whoever's it is by then.

Next, models: graceful removal of a Hangfire server; the storage's distributed lock, whose gate is
released on TimeoutException only; messages to users and the hub's Dispose.
