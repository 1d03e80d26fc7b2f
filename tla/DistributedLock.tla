--------------------------- MODULE DistributedLock ---------------------------
(***************************************************************************)
(* The distributed mutex: NCacheDistributedLock, the retry loops of        *)
(* NCacheDistributedLockCommon, the handle, and the LockLossMonitor that   *)
(* polls in the background whether the handle still owns its record.       *)
(*                                                                         *)
(* The record under _lockKey is the acquisition of one AcquireStrategy     *)
(* call (a fresh GUID), so it carries the caller; Orphan when the caller   *)
(* died.  Durations are counted down by Tick.                              *)
(***************************************************************************)
EXTENDS Integers

CONSTANTS
  Procs,     \* threads that use the lock, each with one handle at a time
  Nobody,    \* the owner of no record
  Orphan,    \* the owner of the record of a process that died
  Lease,     \* _expirationTime in ticks
  MaxWait    \* the longest timeout a caller passes, in ticks

Unlimited == -1    \* AcquireSetup's timeSpan == null

ASSUME DistributedLockAssumption ==
  /\ Nobody \notin Procs
  /\ Orphan \notin Procs
  /\ Orphan # Nobody
  /\ Lease \in Nat \ {0}
  /\ MaxWait \in Nat

VARIABLES
  record,   \* the item under _lockKey
  pc,       \* each thread's place in Acquire, TryAcquire or Dispose
  wait,     \* what is left of its timeout
  mon,      \* the monitor's timer callback of each handle
  stopped,  \* LockLossMonitor._stopped
  lost,     \* has HandleLostToken been cancelled?
  gone,     \* history: the record went away before its owner released it
  doubt     \* history: a check of the handle's ownership threw

vars == <<record, pc, wait, mon, stopped, lost, gone, doubt>>

NoRecord == [owner |-> Nobody, ttl |-> 0]

(* try: AcquireStrategy is called next, by AcquireSetup (which looks at    *)
(* the deadline first) or by TryAcquireSetup; nap: Thread.Sleep(200);      *)
(* added: the record is in the cache, the handle is not made yet.          *)
Acquiring == {"acquire", "acquireNap", "try", "tryNap"}

Disposing == {"stopping", "release", "remove"}

PCs == {"idle", "added", "held"} \cup Acquiring \cup Disposing

MonPCs == {"off", "armed", "check", "mark", "cancel"}

TypeOK ==
  /\ record \in [owner : Procs \cup {Nobody, Orphan}, ttl : 0 .. Lease]
  /\ record.owner = Nobody <=> record.ttl = 0
  /\ pc \in [Procs -> PCs]
  /\ wait \in [Procs -> 0 .. MaxWait \cup {Unlimited}]
  /\ mon \in [Procs -> MonPCs]
  /\ stopped \in [Procs -> BOOLEAN]
  /\ lost \in [Procs -> BOOLEAN]
  /\ gone \in [Procs -> BOOLEAN]
  /\ doubt \in [Procs -> BOOLEAN]

monVars == <<mon, stopped, lost>>

history == <<gone, doubt>>

Goto(p, l) == pc' = [pc EXCEPT ![p] = l]

Mine(p) == record.owner = p

(* The source of HandleLostToken can still be cancelled. *)
TokenAlive(p) == pc[p] \in {"held", "stopping"}

-----------------------------------------------------------------------------
Init ==
  /\ record = NoRecord
  /\ pc = [p \in Procs |-> "idle"]
  /\ wait = [p \in Procs |-> 0]
  /\ mon = [p \in Procs |-> "off"]
  /\ stopped = [p \in Procs |-> TRUE]
  /\ lost = [p \in Procs |-> FALSE]
  /\ gone = [p \in Procs |-> FALSE]
  /\ doubt = [p \in Procs |-> FALSE]

(* Acquire(timeout) and TryAcquire(timeout).  A null timeout is possible   *)
(* for Acquire only.  The thread is done with its previous handle, whose   *)
(* history ends here.                                                      *)
StartAcquire(p) ==
  /\ pc[p] = "idle"
  /\ mon[p] = "off"
  /\ \/ /\ Goto(p, "acquire")
        /\ \E t \in 0 .. MaxWait \cup {Unlimited} : wait' = [wait EXCEPT ![p] = t]
     \/ /\ Goto(p, "try")
        /\ \E t \in 0 .. MaxWait : wait' = [wait EXCEPT ![p] = t]
  /\ lost' = [lost EXCEPT ![p] = FALSE]
  /\ gone' = [gone EXCEPT ![p] = FALSE]
  /\ doubt' = [doubt EXCEPT ![p] = FALSE]
  /\ UNCHANGED <<record, mon, stopped>>

(* Wrong on purpose: the record is inserted over an existing one. *)
AcquireStrategyInserts(p) ==
  /\ record' = [owner |-> p, ttl |-> Lease]
  /\ Goto(p, "added")
  /\ wait' = [wait EXCEPT ![p] = 0]
  /\ UNCHANGED <<monVars, history>>

(* AcquireStrategy adds the record, which fails when there is one. *)
AcquireStrategy(p) ==
  /\ record.owner = Nobody
  /\ record' = [owner |-> p, ttl |-> Lease]
  /\ Goto(p, "added")
  /\ wait' = [wait EXCEPT ![p] = 0]
  /\ UNCHANGED <<monVars, history>>

(* Add throws when there is a record or when the cache fails, before or     *)
(* after it put the record there; AcquireStrategy returns null.            *)
AddThrows ==
  \/ UNCHANGED record
  \/ record.owner = Nobody /\ record' = [owner |-> Orphan, ttl |-> Lease]

(* It makes the handle, whose monitor starts at once, and returns it. *)
MakeHandle(p) ==
  /\ pc[p] = "added"
  /\ Goto(p, "held")
  /\ mon' = [mon EXCEPT ![p] = "armed"]
  /\ stopped' = [stopped EXCEPT ![p] = FALSE]
  /\ UNCHANGED <<record, wait, lost, history>>

(* AcquireSetup: the deadline comes before the attempt, so a timeout of    *)
(* zero throws without trying.                                             *)
AcquireAttempt(p) ==
  /\ pc[p] = "acquire"
  /\ wait[p] # 0
  /\ AcquireStrategy(p)

(* Wrong on purpose: the loop forgets the deadline. *)
AcquireRefusedAgain(p) ==
  /\ pc[p] = "acquire"
  /\ AddThrows
  /\ Goto(p, "acquireNap")
  /\ UNCHANGED <<wait, monVars, history>>

AcquireRefused(p) ==
  /\ pc[p] = "acquire"
  /\ wait[p] # 0
  /\ AddThrows
  /\ Goto(p, "acquireNap")
  /\ UNCHANGED <<wait, monVars, history>>

AcquireWakes(p) ==
  /\ pc[p] = "acquireNap"
  /\ Goto(p, "acquire")
  /\ UNCHANGED <<record, wait, monVars, history>>

AcquireTimesOut(p) ==
  /\ pc[p] = "acquire"
  /\ wait[p] = 0
  /\ Goto(p, "idle")
  /\ UNCHANGED <<record, wait, monVars, history>>

(* TryAcquireSetup: the attempt comes before the deadline. *)
TryAttempt(p) ==
  /\ pc[p] = "try"
  /\ AcquireStrategy(p)

TryRefused(p) ==
  /\ pc[p] = "try"
  /\ AddThrows
  /\ IF wait[p] = 0 THEN Goto(p, "idle") ELSE Goto(p, "tryNap")
  /\ UNCHANGED <<wait, monVars, history>>

TryWakes(p) ==
  /\ pc[p] = "tryNap"
  /\ IF wait[p] = 0 THEN Goto(p, "idle") ELSE Goto(p, "try")
  /\ UNCHANGED <<record, wait, monVars, history>>

(* The caller's CancellationToken ends either loop. *)
CancelAcquire(p) ==
  /\ pc[p] \in Acquiring
  /\ Goto(p, "idle")
  /\ UNCHANGED <<record, wait, monVars, history>>

-----------------------------------------------------------------------------
(* Wrong on purpose: the record goes before the monitor is stopped. *)
DisposeRemovesFirst(p) ==
  /\ pc[p] = "held"
  /\ record' = IF Mine(p) THEN NoRecord ELSE record
  /\ Goto(p, "stopping")
  /\ UNCHANGED <<wait, monVars, history>>

(* Dispose stops the monitor first: a timer callback that starts from now  *)
(* on returns at once, and the timer is disposed.                          *)
Dispose(p) ==
  /\ pc[p] = "held"
  /\ stopped' = [stopped EXCEPT ![p] = TRUE]
  /\ Goto(p, "stopping")
  /\ UNCHANGED <<record, wait, mon, lost, history>>

(* It disposes the source of HandleLostToken. *)
DisposeSource(p) ==
  /\ pc[p] = "stopping"
  /\ Goto(p, "release")
  /\ UNCHANGED <<record, wait, monVars, history>>

(* Then it reads the record, and removes it when it is its own. *)
DisposeGet(p) ==
  /\ pc[p] = "release"
  /\ Goto(p, IF Mine(p) THEN "remove" ELSE "idle")
  /\ UNCHANGED <<record, wait, monVars, history>>

DisposeRemove(p) ==
  /\ pc[p] = "remove"
  /\ record' = NoRecord
  /\ gone' = [q \in Procs |-> gone[q] \/ (q # p /\ Mine(q))]
  /\ Goto(p, "idle")
  /\ UNCHANGED <<wait, monVars, doubt>>

-----------------------------------------------------------------------------
(* The timer fires: CheckOnce reads _stopped, *)
MonitorFires(p) ==
  /\ mon[p] = "armed"
  /\ mon' = [mon EXCEPT ![p] = IF stopped[p] THEN "off" ELSE "check"]
  /\ UNCHANGED <<record, pc, wait, stopped, lost, history>>

(* Wrong on purpose: a check that succeeds is the last one. *)
MonitorChecksOnce(p) ==
  /\ mon[p] = "check"
  /\ mon' = [mon EXCEPT ![p] = IF Mine(p) THEN "off" ELSE "mark"]
  /\ UNCHANGED <<record, pc, wait, stopped, lost, history>>

(* then the record; a Get that throws counts as lost. *)
MonitorChecks(p) ==
  /\ mon[p] = "check"
  /\ mon' = [mon EXCEPT ![p] = IF Mine(p) THEN "armed" ELSE "mark"]
  /\ UNCHANGED <<record, pc, wait, stopped, lost, history>>

MonitorCheckFails(p) ==
  /\ mon[p] = "check"
  /\ mon' = [mon EXCEPT ![p] = "mark"]
  /\ doubt' = [doubt EXCEPT ![p] = TRUE]
  /\ UNCHANGED <<record, pc, wait, stopped, lost, gone>>

(* MarkLost: the one that exchanges _stopped first decides. *)
MarkLost(p) ==
  /\ mon[p] = "mark"
  /\ mon' = [mon EXCEPT ![p] = IF stopped[p] THEN "off" ELSE "cancel"]
  /\ stopped' = [stopped EXCEPT ![p] = TRUE]
  /\ UNCHANGED <<record, pc, wait, lost, history>>

(* MarkLost cancels the token, unless Dispose has disposed the source. *)
MarkLostCancels(p) ==
  /\ mon[p] = "cancel"
  /\ mon' = [mon EXCEPT ![p] = "off"]
  /\ lost' = [lost EXCEPT ![p] = @ \/ TokenAlive(p)]
  /\ UNCHANGED <<record, pc, wait, stopped, history>>

-----------------------------------------------------------------------------
(* The process dies; its record stays for the rest of its lifetime. *)
Crash(p) ==
  /\ pc[p] # "idle" \/ mon[p] # "off"
  /\ Goto(p, "idle")
  /\ record' = IF Mine(p) THEN [record EXCEPT !.owner = Orphan] ELSE record
  /\ mon' = [mon EXCEPT ![p] = "off"]
  /\ stopped' = [stopped EXCEPT ![p] = TRUE]
  /\ UNCHANGED <<wait, lost, history>>

(* Wrong on purpose: the record stays when its lifetime is over. *)
TickKeepsRecord ==
  /\ record' = IF record.ttl = 0 THEN NoRecord ELSE [record EXCEPT !.ttl = @ - 1]
  /\ UNCHANGED <<pc, wait, monVars, history>>

(* Time passes; the cache drops the record when its lifetime is over. *)
Tick ==
  /\ record' = IF record.ttl <= 1 THEN NoRecord ELSE [record EXCEPT !.ttl = @ - 1]
  /\ wait' = [p \in Procs |-> IF wait[p] \in {0, Unlimited} THEN wait[p] ELSE wait[p] - 1]
  /\ gone' = [p \in Procs |-> gone[p] \/ (Mine(p) /\ record.ttl = 1)]
  /\ UNCHANGED <<pc, monVars, doubt>>

AcquireStep(p) ==
  \/ AcquireAttempt(p) \/ AcquireRefused(p) \/ AcquireWakes(p) \/ AcquireTimesOut(p)
  \/ TryAttempt(p) \/ TryRefused(p) \/ TryWakes(p)
  \/ MakeHandle(p)

DisposeStep(p) == DisposeSource(p) \/ DisposeGet(p) \/ DisposeRemove(p)

MonitorStep(p) ==
  \/ MonitorFires(p) \/ MonitorChecks(p) \/ MonitorCheckFails(p)
  \/ MarkLost(p) \/ MarkLostCancels(p)

Next ==
  \/ \E p \in Procs :
       \/ StartAcquire(p) \/ AcquireStep(p) \/ CancelAcquire(p)
       \/ Dispose(p) \/ DisposeStep(p)
       \/ MonitorStep(p)
       \/ Crash(p)
  \/ Tick

(* A call that was made runs on, the timer fires on its interval, the      *)
(* check answers, and time passes.  No holder has to dispose its handle.   *)
Fairness ==
  /\ \A p \in Procs : WF_vars(AcquireStep(p)) /\ WF_vars(DisposeStep(p))
                      /\ WF_vars(MonitorStep(p))
  /\ WF_vars(Tick)

Spec == Init /\ [][Next]_vars
FairSpec == Spec /\ Fairness

-----------------------------------------------------------------------------
(* Of all the open handles, at most one has kept its record: when two      *)
(* threads are past Acquire on the same name, for all but one of them the  *)
(* record ran out or was removed after it was added (the mutex has no      *)
(* renewal, and Dispose reads and removes the record in two calls).        *)
OneHandleKeepsItsRecord ==
  \A p, q \in Procs : pc[p] = "held" /\ pc[q] = "held" /\ p # q => gone[p] \/ gone[q]

(* HandleLostToken is cancelled for a reason: never because the handle's   *)
(* own Dispose removed the record while a check was in flight.             *)
NoFalseLoss == \A p \in Procs : lost[p] => gone[p] \/ doubt[p]

(* A holder whose record is no longer its own learns of it (or disposes    *)
(* the handle, or dies) however the monitor's check is interleaved.        *)
LossIsSignalled ==
  \A p \in Procs : (pc[p] = "held" /\ ~Mine(p)) ~> (lost[p] \/ pc[p] # "held")

(* An Acquire or TryAcquire with a timeout ends. *)
TimeoutsEnd ==
  \A p \in Procs :
    (pc[p] \in Acquiring /\ wait[p] # Unlimited) ~> pc[p] \in {"idle", "held"}
=============================================================================
