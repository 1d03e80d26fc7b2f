-------------------------- MODULE ReaderWriterLock ---------------------------
(***************************************************************************)
(* The distributed reader-writer lock: NCacheDistributedReaderWriterLock   *)
(* and its two handles, one step per cache call.  The cache has the list   *)
(* of readers (read, changed and written back under LockKey on its key),   *)
(* one record per reader, which only its loss monitor reads and whose      *)
(* content is left out, and the writer's entry.                            *)
(*                                                                         *)
(* An acquisition (a GUID) is named by the caller that made it, and is     *)
(* Orphan's once that caller died.  The outer retry loop is the one of     *)
(* DistributedLock: an attempt that returns null ends here in "idle".      *)
(***************************************************************************)
EXTENDS LeaseLock

CONSTANTS
  Lease,     \* _expirationTime: of the lock and of the writer's entry
  MaxWait    \* the longest timeout of a writer, in ticks

ASSUME ReaderWriterAssumption ==
  /\ Lease \in Nat \ {0}
  /\ Lifetimes = {Lease}
  /\ MaxWait \in Nat

VARIABLES
  readers,   \* NCacheReadersPrimitive.Readers
  writer,    \* the item under _writerKey
  pc,        \* where each caller is
  list,      \* its copy of the readers' list
  wait,      \* what is left until the deadline of a writer that waits
  stale,     \* history: the readers that looked for a writer before one
             \* added its entry, and did not have the lock on the list yet
  lost       \* history: the writers whose entry ran out, or was replaced or
             \* removed by another caller, since they added it

data == <<readers, writer>>
history == <<stale, lost>>
local == <<wait, history>>
vars == <<lockVars, data, pc, list, local>>

(* The caller whose entry is there loses it to p, which replaces or        *)
(* removes it without asking whose it is.                                  *)
TakenFrom(p) == ({writer.owner} \ {p}) \cap Procs

NoWriter == [owner |-> Nobody, status |-> "none", ttl |-> 0]

WriterPresent == writer.owner # Nobody

ReaderPCs == {"rlock", "rread", "rrecord", "rinsert", "runlock", "rabort", "rheld",
              "rdispose", "rdread", "rdinsert", "rdremove", "rdunlock"}
WriterPCs == {"wread", "wadd", "wunlock", "wabort", "wpoll", "wreleased", "winsert",
              "wremove", "wheld", "wdget", "wdremove"}

TypeOK ==
  /\ LeaseTypeOK
  /\ readers \subseteq Procs \cup {Orphan}
  /\ writer \in [owner : Procs \cup {Nobody, Orphan},
                 status : {"none", "Waiting", "Writing"}, ttl : 0 .. Lease]
  /\ (writer.owner = Nobody) <=> (writer.ttl = 0)
  /\ pc \in [Procs -> {"idle"} \cup ReaderPCs \cup WriterPCs]
  /\ list \in [Procs -> SUBSET (Procs \cup {Orphan})]
  /\ wait \in [Procs -> 0 .. MaxWait]
  /\ stale \subseteq Procs
  /\ lost \subseteq Procs

Goto(p, l) == pc' = [pc EXCEPT ![p] = l]

(* An attempt or a handle ends, and with it what is told about it; the     *)
(* callers in S lose their entry to it.                                    *)
End(p, S) ==
  /\ Goto(p, "idle")
  /\ wait' = [wait EXCEPT ![p] = 0]
  /\ stale' = stale \ {p}
  /\ lost' = (lost \cup S) \ {p}

Copy(p, l) == list' = [list EXCEPT ![p] = l]

-----------------------------------------------------------------------------
Init ==
  /\ LockInit
  /\ readers = {}
  /\ writer = NoWriter
  /\ pc = [p \in Procs |-> "idle"]
  /\ list = [p \in Procs |-> {}]
  /\ wait = [p \in Procs |-> 0]
  /\ stale = {}
  /\ lost = {}

(* ReaderAcquireStrategy: 1. fail when there is a writer. *)
ReaderLooksForWriter(p) ==
  /\ pc[p] = "idle"
  /\ ~WriterPresent
  /\ Goto(p, "rlock")
  /\ UNCHANGED <<lockVars, data, list, local>>

(* Wrong on purpose: what LockKey returns is not looked at. *)
ReaderLocksUnchecked(p) ==
  /\ pc[p] = "rlock"
  /\ LockKey(p) \/ (~Free /\ UNCHANGED lockVars)
  /\ Goto(p, "rread")
  /\ UNCHANGED <<data, list, local>>

(* 2. Lock the readers; null when that is refused. *)
ReaderLocks(p) ==
  /\ pc[p] = "rlock"
  /\ \/ LockKey(p) /\ Goto(p, "rread") /\ UNCHANGED local
     \/ ~Free /\ End(p, {}) /\ UNCHANGED lockVars
  /\ UNCHANGED <<data, list>>

ReaderReads(p) ==
  /\ pc[p] = "rread"
  /\ Copy(p, readers \cup {p})
  /\ Goto(p, "rrecord")
  /\ UNCHANGED <<lockVars, data, local>>

ReaderAddsRecord(p) ==
  /\ pc[p] = "rrecord"
  /\ Goto(p, "rinsert")
  /\ UNCHANGED <<lockVars, data, list, local>>

ReaderInserts(p) ==
  /\ pc[p] = "rinsert"
  /\ readers' = list[p]
  /\ Goto(p, "runlock")
  /\ UNCHANGED <<lockVars, writer, list, local>>

(* The cache refuses one of the two writes: unlock and throw. *)
ReaderWriteFails(p) ==
  /\ pc[p] \in {"rrecord", "rinsert"}
  /\ Goto(p, "rabort")
  /\ UNCHANGED <<lockVars, data, list, local>>

ReaderUnlocks(p) ==
  /\ pc[p] \in {"runlock", "rabort"}
  /\ UnlockKey(p)
  /\ Copy(p, {})
  /\ IF pc[p] = "runlock" THEN Goto(p, "rheld") /\ UNCHANGED local ELSE End(p, {})
  /\ UNCHANGED data

(* Dispose of the reader's handle spins until it has the lock. *)
ReaderDisposes(p) ==
  /\ pc[p] = "rheld"
  /\ Goto(p, "rdispose")
  /\ UNCHANGED <<lockVars, data, list, local>>

ReaderDisposeLocks(p) ==
  /\ pc[p] = "rdispose"
  /\ LockKey(p)
  /\ Goto(p, "rdread")
  /\ UNCHANGED <<data, list, local>>

ReaderDisposeReads(p) ==
  /\ pc[p] = "rdread"
  /\ Copy(p, readers \ {p})
  /\ Goto(p, IF p \in readers THEN "rdinsert" ELSE "rdunlock")
  /\ UNCHANGED <<lockVars, data, local>>

ReaderDisposeInserts(p) ==
  /\ pc[p] = "rdinsert"
  /\ readers' = list[p]
  /\ Goto(p, "rdremove")
  /\ UNCHANGED <<lockVars, writer, list, local>>

ReaderDisposeRemoves(p) ==
  /\ pc[p] = "rdremove"
  /\ Goto(p, "rdunlock")
  /\ UNCHANGED <<lockVars, data, list, local>>

ReaderDisposeUnlocks(p) ==
  /\ pc[p] = "rdunlock"
  /\ UnlockKey(p)
  /\ Copy(p, {})
  /\ End(p, {})
  /\ UNCHANGED data

-----------------------------------------------------------------------------
(* WriterAcquireStrategy: lock the readers, whatever the writer's entry    *)
(* says.  Without a deadline a writer does not wait either.                *)
WriterLocks(p) ==
  /\ pc[p] = "idle"
  /\ LockKey(p)
  /\ \E t \in 0 .. MaxWait : wait' = [wait EXCEPT ![p] = t]
  /\ Goto(p, "wread")
  /\ UNCHANGED <<data, list, history>>

WriterReads(p) ==
  /\ pc[p] = "wread"
  /\ Copy(p, readers)
  /\ Goto(p, "wadd")
  /\ UNCHANGED <<lockVars, data, local>>

(* Wrong on purpose: the entry is inserted over an existing one. *)
WriterInsertsEntry(p) ==
  /\ pc[p] = "wadd"
  /\ writer' = [owner |-> p, ttl |-> Lease,
                status |-> IF list[p] = {} THEN "Writing" ELSE "Waiting"]
  /\ stale' = stale \cup {q \in Procs : pc[q] = "rlock"}
  /\ Goto(p, "wunlock")
  /\ UNCHANGED <<lockVars, readers, list, wait, lost>>

(* Add the entry: Waiting when there are readers, Writing when there are   *)
(* none.  It fails when there is an entry.                                 *)
WriterAdds(p) ==
  /\ pc[p] = "wadd"
  /\ IF WriterPresent
     THEN /\ Goto(p, "wabort")
          /\ UNCHANGED <<writer, stale>>
     ELSE /\ writer' = [owner |-> p, ttl |-> Lease,
                        status |-> IF list[p] = {} THEN "Writing" ELSE "Waiting"]
          /\ stale' = stale \cup {q \in Procs : pc[q] = "rlock"}
          /\ Goto(p, "wunlock")
  /\ UNCHANGED <<lockVars, readers, list, wait, lost>>

WriterUnlocks(p) ==
  /\ pc[p] \in {"wunlock", "wabort"}
  /\ UnlockKey(p)
  /\ Copy(p, {})
  /\ IF pc[p] = "wabort"
     THEN End(p, {})
     ELSE /\ Goto(p, IF list[p] = {} THEN "wheld" ELSE "wpoll")
          /\ UNCHANGED local
  /\ UNCHANGED data

(* A waiting writer polls the list, without the lock, until its deadline,  *)
(* also when it has seen the list empty already.                           *)
WriterPolls(p) ==
  /\ pc[p] = "wpoll"
  /\ wait[p] > 0
  /\ readers = {}
  /\ Goto(p, "wreleased")
  /\ UNCHANGED <<lockVars, data, list, local>>

(* Wrong on purpose: the deadline alone lets the writer write. *)
WriterWritesAtDeadline(p) ==
  /\ pc[p] \in {"wpoll", "wreleased"}
  /\ wait[p] = 0
  /\ Goto(p, "winsert")
  /\ UNCHANGED <<lockVars, data, list, local>>

(* The deadline: write if the list was ever seen empty, give up otherwise. *)
WriterStopsWaiting(p) ==
  /\ pc[p] \in {"wpoll", "wreleased"}
  /\ wait[p] = 0
  /\ Goto(p, IF pc[p] = "wreleased" THEN "winsert" ELSE "wremove")
  /\ UNCHANGED <<lockVars, data, list, local>>

WriterInserts(p) ==
  /\ pc[p] = "winsert"
  /\ writer' = [owner |-> p, ttl |-> Lease, status |-> "Writing"]
  /\ lost' = lost \cup TakenFrom(p)
  /\ Goto(p, "wheld")
  /\ UNCHANGED <<lockVars, readers, list, wait, stale>>

(* Wrong on purpose: the entry stays for the rest of its lifetime. *)
WriterGivesUpSilently(p) ==
  /\ pc[p] = "wremove"
  /\ End(p, {})
  /\ UNCHANGED <<lockVars, data, list>>

WriterGivesUp(p) ==
  /\ pc[p] = "wremove"
  /\ writer' = NoWriter
  /\ End(p, TakenFrom(p))
  /\ UNCHANGED <<lockVars, readers, list>>

(* Dispose of the writer's handle: stop the monitor, ... *)
WriterDisposes(p) ==
  /\ pc[p] = "wheld"
  /\ Goto(p, "wdget")
  /\ UNCHANGED <<lockVars, data, list, local>>

(* ... read the entry, and remove it when it is the handle's own. *)
WriterDisposeGets(p) ==
  /\ pc[p] = "wdget"
  /\ IF writer.owner = p THEN Goto(p, "wdremove") /\ UNCHANGED local ELSE End(p, {})
  /\ UNCHANGED <<lockVars, data, list>>

WriterDisposeRemoves(p) ==
  /\ pc[p] = "wdremove"
  /\ writer' = NoWriter
  /\ End(p, TakenFrom(p))
  /\ UNCHANGED <<lockVars, readers, list>>

-----------------------------------------------------------------------------
(* A process dies: what it put in the cache is nobody's from now on.  Its  *)
(* record and entry run out, its place on the list of readers stays.       *)
Disown(S, p) == IF p \in S THEN (S \ {p}) \cup {Orphan} ELSE S

Crash(p) ==
  /\ pc[p] # "idle"
  /\ Abandon(p)
  /\ readers' = Disown(readers, p)
  /\ writer' = IF writer.owner = p THEN [writer EXCEPT !.owner = Orphan] ELSE writer
  /\ list' = [q \in Procs |-> IF q = p THEN {} ELSE Disown(list[q], p)]
  /\ End(p, {})

(* Wrong on purpose: what is over goes on. *)
ElapsePastZero(f) == [p \in Procs |-> f[p] - 1]

Elapse(f) == [p \in Procs |-> IF f[p] > 0 THEN f[p] - 1 ELSE f[p]]

(* Time passes.  A prompt caller is done with its critical section before  *)
(* its lease runs out.  Its writer's entry may run out under it: the       *)
(* timeout is often longer than the entry's life.                          *)
Tick ==
  /\ Prompt => ~(holder \in Procs /\ left = 1)
  /\ LeaseRuns
  /\ writer' = IF writer.ttl <= 1 THEN NoWriter ELSE [writer EXCEPT !.ttl = @ - 1]
  /\ lost' = IF writer.ttl = 1 THEN lost \cup TakenFrom(Nobody) ELSE lost
  /\ wait' = Elapse(wait)
  /\ UNCHANGED <<readers, pc, list, stale>>

ReaderStep(p) ==
  \/ ReaderLocks(p) \/ ReaderReads(p) \/ ReaderAddsRecord(p) \/ ReaderInserts(p)
  \/ ReaderWriteFails(p) \/ ReaderUnlocks(p)
  \/ ReaderDisposeLocks(p) \/ ReaderDisposeReads(p) \/ ReaderDisposeInserts(p)
  \/ ReaderDisposeRemoves(p) \/ ReaderDisposeUnlocks(p)

WriterStep(p) ==
  \/ WriterReads(p) \/ WriterAdds(p) \/ WriterUnlocks(p)
  \/ WriterPolls(p) \/ WriterStopsWaiting(p) \/ WriterInserts(p) \/ WriterGivesUp(p)
  \/ WriterDisposeGets(p) \/ WriterDisposeRemoves(p)

Next ==
  \/ \E p \in Procs :
       \/ ReaderLooksForWriter(p) \/ ReaderStep(p) \/ ReaderDisposes(p)
       \/ WriterLocks(p) \/ WriterStep(p) \/ WriterDisposes(p)
       \/ Crash(p)
  \/ Tick

Spec == Init /\ [][Next]_vars

-----------------------------------------------------------------------------
(* A reader never holds the lock together with a writer ("multiple         *)
(* concurrent readers or a single exclusive writer").                      *)
ReaderWriterExclusion ==
  ~ \E p, q \in Procs : pc[p] = "rheld" /\ pc[q] = "wheld"

HasEntry == {"wunlock", "wpoll", "wreleased", "winsert", "wheld"}

(* Of the writers that hold the lock and those that wait for the readers   *)
(* to leave, one at most still has the entry it added: the others' ran out *)
(* while they waited or wrote, or were taken by a writer whose own had run *)
(* out.  As long as no entry runs out there is one writer.                 *)
WriterExclusion ==
  \A p, q \in Procs \ lost : pc[p] \in HasEntry /\ pc[q] \in HasEntry => p = q

(* A reader and a writer that still has its entry overlap for one reason   *)
(* only: the reader looked for a writer before the writer put its entry in *)
(* the cache, and locked the list afterwards.  A reader that looks later   *)
(* is kept out for as long as the entry is there, and one that is on the   *)
(* list already keeps the writer waiting.                                  *)
OverlapOnlyAfterStaleLook ==
  \A p \in Procs, q \in Procs \ lost :
    pc[p] = "rheld" /\ pc[q] = "wheld" => p \in stale

(* Every reader that holds the lock is on the list a writer looks at: no   *)
(* read-modify-write of the list loses one.                                *)
ReaderIsListed == \A p \in Procs : pc[p] = "rheld" => p \in readers

(* No attempt and no handle leaves a writer's entry behind when it ends:   *)
(* it would keep every reader and writer out for the whole lease.          *)
NoStrayWriterEntry ==
  \A p \in Procs :
    writer.owner = p => pc[p] \in {"wunlock", "wpoll", "wreleased", "winsert", "wremove",
                                   "wheld", "wdget", "wdremove"}
=============================================================================
