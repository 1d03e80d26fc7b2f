----------------------- MODULE ReaderWriterLockProofs ------------------------
(***************************************************************************)
(* The reader-writer lock for every set of callers, lease and deadline:    *)
(* its type invariant, the exclusion of writers that still have their      *)
(* entry, that no entry is left behind, that every reader is listed, and   *)
(* that a stale look is the only way for a reader to meet a writer.        *)
(***************************************************************************)
EXTENDS ReaderWriterLock, TLAPS

(* Whatever is done with the lease it keeps its type. *)
LEMMA LeaseKeepsType ==
  ASSUME LeaseTypeOK, [LockNext]_lockVars
  PROVE  LeaseTypeOK'
<1> USE LeaseAssumption DEF Free, LeaseTypeOK, Holders, Forever
<1>1. ASSUME NEW p \in Procs, LockKey(p)
      PROVE  LeaseTypeOK'
  BY <1>1 DEF LockKey
<1>2. ASSUME NEW p \in Procs, UnlockKey(p) \/ Abandon(p)
      PROVE  LeaseTypeOK'
  BY <1>2 DEF UnlockKey, Abandon, lockVars
<1>3. CASE LeaseRuns \/ UNCHANGED lockVars
  BY <1>3 DEF LeaseRuns, lockVars
<1> QED
  BY <1>1, <1>2, <1>3 DEF LockNext

(* Every state has variables of the right type, whatever the readers, the  *)
(* writers and the expirations do.                                         *)
THEOREM TypeCorrect == Spec => []TypeOK
<1> USE LeaseAssumption, ReaderWriterAssumption
<1>1. Init => TypeOK
  BY DEF Init, LockInit, TypeOK, LeaseTypeOK, Holders, Free, NoWriter
<1>2. TypeOK /\ [Next]_vars => TypeOK'
  <2> SUFFICES ASSUME TypeOK, [Next]_vars
               PROVE  TypeOK'
    OBVIOUS
  <2>1. LeaseTypeOK
    BY DEF TypeOK
  <2>2. LeaseTypeOK'
    <3>1. ASSUME NEW p \in Procs,
                 ReaderStep(p) \/ ReaderLooksForWriter(p) \/ ReaderDisposes(p)
          PROVE  [LockNext]_lockVars
      <4>1. \/ UNCHANGED lockVars
            \/ LockKey(p) \/ UnlockKey(p)
        BY <3>1, Zenon DEF ReaderStep, ReaderLooksForWriter, ReaderLocks, ReaderReads,
             ReaderAddsRecord, ReaderInserts, ReaderWriteFails, ReaderUnlocks,
             ReaderDisposes, ReaderDisposeLocks, ReaderDisposeReads,
             ReaderDisposeInserts, ReaderDisposeRemoves, ReaderDisposeUnlocks
      <4> QED
        BY <4>1 DEF LockNext
    <3>2. ASSUME NEW p \in Procs, WriterStep(p) \/ WriterLocks(p) \/ WriterDisposes(p)
          PROVE  [LockNext]_lockVars
      <4>1. \/ UNCHANGED lockVars
            \/ LockKey(p) \/ UnlockKey(p)
        BY <3>2, Zenon DEF WriterStep, WriterLocks, WriterReads, WriterAdds,
             WriterUnlocks, WriterPolls, WriterStopsWaiting, WriterInserts, WriterGivesUp,
             WriterDisposes, WriterDisposeGets, WriterDisposeRemoves
      <4> QED
        BY <4>1 DEF LockNext
    <3>3. ASSUME NEW p \in Procs, Crash(p)
          PROVE  [LockNext]_lockVars
      BY <3>3 DEF Crash, LockNext
    <3>4. ASSUME Tick \/ UNCHANGED vars
          PROVE  [LockNext]_lockVars
      BY <3>4 DEF Tick, LockNext, vars, lockVars
    <3>5. [LockNext]_lockVars
      BY <3>1, <3>2, <3>3, <3>4, Zenon DEF Next
    <3> QED
      BY <2>1, <3>5, LeaseKeepsType
  <2> USE <2>2 DEF TypeOK, Goto, Copy, End, NoWriter, WriterPresent, TakenFrom, ReaderPCs,
                   WriterPCs, data, local, history
  <2>3. ASSUME NEW p \in Procs,
               ReaderStep(p) \/ ReaderLooksForWriter(p) \/ ReaderDisposes(p)
        PROVE  TypeOK'
    <3>1. CASE ReaderLooksForWriter(p)
      BY <3>1 DEF ReaderLooksForWriter
    <3>2. CASE ReaderLocks(p)
      BY <3>2 DEF ReaderLocks
    <3>3. CASE ReaderReads(p)
      BY <3>3 DEF ReaderReads
    <3>4. CASE ReaderAddsRecord(p) \/ ReaderWriteFails(p)
      BY <3>4 DEF ReaderAddsRecord, ReaderWriteFails
    <3>5. CASE ReaderInserts(p)
      BY <3>5 DEF ReaderInserts
    <3>6. CASE ReaderUnlocks(p)
      BY <3>6 DEF ReaderUnlocks
    <3>7. CASE ReaderDisposes(p) \/ ReaderDisposeLocks(p)
      BY <3>7 DEF ReaderDisposes, ReaderDisposeLocks
    <3>8. CASE ReaderDisposeReads(p)
      BY <3>8 DEF ReaderDisposeReads
    <3>9. CASE ReaderDisposeInserts(p) \/ ReaderDisposeRemoves(p)
      BY <3>9 DEF ReaderDisposeInserts, ReaderDisposeRemoves
    <3>10. CASE ReaderDisposeUnlocks(p)
      BY <3>10 DEF ReaderDisposeUnlocks
    <3> QED
      BY <2>3, <3>1, <3>2, <3>3, <3>4, <3>5, <3>6, <3>7, <3>8, <3>9, <3>10 DEF ReaderStep
  <2>4. ASSUME NEW p \in Procs, WriterStep(p) \/ WriterLocks(p) \/ WriterDisposes(p)
        PROVE  TypeOK'
    <3>1. CASE WriterLocks(p)
      BY <3>1 DEF WriterLocks
    <3>2. CASE WriterReads(p)
      BY <3>2 DEF WriterReads
    <3>3. CASE WriterAdds(p)
      BY <3>3 DEF WriterAdds
    <3>4. CASE WriterUnlocks(p)
      BY <3>4 DEF WriterUnlocks
    <3>5. CASE WriterPolls(p) \/ WriterStopsWaiting(p)
      BY <3>5 DEF WriterPolls, WriterStopsWaiting
    <3>6. CASE WriterInserts(p)
      BY <3>6 DEF WriterInserts
    <3>7. CASE WriterGivesUp(p)
      BY <3>7 DEF WriterGivesUp
    <3>8. CASE WriterDisposes(p) \/ WriterDisposeGets(p)
      BY <3>8 DEF WriterDisposes, WriterDisposeGets
    <3>9. CASE WriterDisposeRemoves(p)
      BY <3>9 DEF WriterDisposeRemoves
    <3> QED
      BY <2>4, <3>1, <3>2, <3>3, <3>4, <3>5, <3>6, <3>7, <3>8, <3>9 DEF WriterStep
  <2>5. ASSUME NEW p \in Procs, Crash(p)
        PROVE  TypeOK'
    BY <2>5 DEF Crash, Disown
  <2>6. CASE Tick
    BY <2>6 DEF Tick, Elapse
  <2>7. CASE UNCHANGED vars
    BY <2>7 DEF vars
  <2> QED
    BY <2>3, <2>4, <2>5, <2>6, <2>7 DEF Next
<1> QED
  BY <1>1, <1>2, PTL DEF Spec

(* A writer that did not lose its entry is the owner of the entry that is  *)
(* there: what adds, replaces or removes one counts the others as lost.    *)
KeepersOwn == \A p \in Procs \ lost : pc[p] \in HasEntry => writer.owner = p

WriterInv == KeepersOwn /\ NoStrayWriterEntry

LEMMA WriterInvariant == Spec => []WriterInv
<1> USE LeaseAssumption, ReaderWriterAssumption
<1>1. Init => WriterInv
  BY DEF Init, WriterInv, KeepersOwn, NoStrayWriterEntry, HasEntry, NoWriter
<1>2. TypeOK /\ TypeOK' /\ WriterInv /\ [Next]_vars => WriterInv'
  <2> SUFFICES ASSUME TypeOK, TypeOK', WriterInv, [Next]_vars
               PROVE  WriterInv'
    OBVIOUS
  <2>0. /\ pc \in [Procs -> {"idle"} \cup ReaderPCs \cup WriterPCs]
        /\ writer \in [owner : Procs \cup {Nobody, Orphan},
                       status : {"none", "Waiting", "Writing"}, ttl : 0 .. Lease]
        /\ (writer.owner = Nobody) <=> (writer.ttl = 0)
        /\ lost \subseteq Procs
    BY DEF TypeOK
  <2> USE <2>0 DEF WriterInv, KeepersOwn, NoStrayWriterEntry, HasEntry, NoWriter, Goto, End,
                   TakenFrom, WriterPresent, data, local, history
  <2>1. ASSUME NEW p \in Procs,
               ReaderStep(p) \/ ReaderLooksForWriter(p) \/ ReaderDisposes(p)
        PROVE  WriterInv'
    <3>1. UNCHANGED <<writer>>
      BY <2>1
         DEF ReaderStep, ReaderLooksForWriter, ReaderLocks, ReaderReads, ReaderAddsRecord,
                  ReaderInserts, ReaderWriteFails, ReaderUnlocks, ReaderDisposes,
                  ReaderDisposeLocks, ReaderDisposeReads, ReaderDisposeInserts,
                  ReaderDisposeRemoves, ReaderDisposeUnlocks
    <3>2. /\ pc[p] \in ReaderPCs \cup {"idle"}
          /\ \E l \in ReaderPCs \cup {"idle"} : pc' = [pc EXCEPT ![p] = l]
          /\ lost' = lost \/ lost' = lost \ {p}
      BY <2>1
         DEF ReaderStep, ReaderLooksForWriter, ReaderLocks, ReaderReads, ReaderAddsRecord,
                  ReaderInserts, ReaderWriteFails, ReaderUnlocks, ReaderDisposes,
                  ReaderDisposeLocks, ReaderDisposeReads, ReaderDisposeInserts,
                  ReaderDisposeRemoves, ReaderDisposeUnlocks, ReaderPCs
    <3> QED
      BY <3>1, <3>2 DEF ReaderPCs
  <2>2. ASSUME NEW p \in Procs, WriterStep(p) \/ WriterLocks(p) \/ WriterDisposes(p)
        PROVE  WriterInv'
    <3>1. CASE WriterLocks(p) \/ WriterReads(p)
      BY <3>1 DEF WriterLocks, WriterReads
    <3>2. CASE WriterAdds(p)
      BY <3>2 DEF WriterAdds
    <3>3. CASE WriterUnlocks(p)
      BY <3>3 DEF WriterUnlocks
    <3>4. CASE WriterPolls(p) \/ WriterStopsWaiting(p)
      BY <3>4 DEF WriterPolls, WriterStopsWaiting
    <3>5. CASE WriterInserts(p)
      BY <3>5 DEF WriterInserts
    <3>6. CASE WriterGivesUp(p)
      BY <3>6 DEF WriterGivesUp
    <3>7. CASE WriterDisposes(p) \/ WriterDisposeGets(p)
      BY <3>7 DEF WriterDisposes, WriterDisposeGets
    <3>8. CASE WriterDisposeRemoves(p)
      BY <3>8 DEF WriterDisposeRemoves
    <3> QED
      BY <2>2, <3>1, <3>2, <3>3, <3>4, <3>5, <3>6, <3>7, <3>8 DEF WriterStep
  <2>3. ASSUME NEW p \in Procs, Crash(p)
        PROVE  WriterInv'
    BY <2>3 DEF Crash
  <2>4. CASE Tick
    BY <2>4 DEF Tick
  <2>5. CASE UNCHANGED vars
    BY <2>5 DEF vars
  <2> QED
    BY <2>1, <2>2, <2>3, <2>4, <2>5 DEF Next
<1> QED
  BY <1>1, <1>2, TypeCorrect, PTL DEF Spec

(* Two writers that both still have the entry they added are one, however  *)
(* long they wait, whoever crashes and whatever runs out.                  *)
THEOREM WritersExcludeEachOther == Spec => []WriterExclusion
<1>1. WriterInv => WriterExclusion
  BY DEF WriterInv, KeepersOwn, WriterExclusion
<1> QED
  BY <1>1, WriterInvariant, PTL

(* No attempt and no handle of a writer ends with its entry in the cache.  *)
THEOREM NoEntryIsLeftBehind == Spec => []NoStrayWriterEntry
<1>1. WriterInv => NoStrayWriterEntry
  BY DEF WriterInv
<1> QED
  BY <1>1, WriterInvariant, PTL

(* From here on callers are prompt.  Then whoever works on the list has    *)
(* the lock, ...                                                           *)
Critical == {"rread", "rrecord", "rinsert", "runlock", "rabort", "rdread", "rdinsert",
             "rdremove", "rdunlock", "wread", "wadd", "wunlock", "wabort"}

LockIsHeld == \A p \in Procs : pc[p] \in Critical => holder = p

(* ... so that its copy of the list is what it read, and a reader is on    *)
(* the list from the write that puts it there to the one that takes it off. *)
ListsAreFresh ==
  \A p \in Procs :
    /\ pc[p] \in {"rrecord", "rinsert"} => list[p] = readers \cup {p}
    /\ pc[p] = "rdinsert" => list[p] = readers \ {p}
    /\ pc[p] = "wadd" => list[p] = readers
    /\ pc[p] \in {"runlock", "rheld", "rdispose", "rdread", "rdinsert"} => p \in readers

(* While a writer has its entry, the readers on their way in have looked   *)
(* for it too early; and once it saw an empty list so did all that are in. *)
SeenEmpty(q) ==
  \/ pc[q] \in {"wreleased", "winsert", "wheld"}
  \/ pc[q] = "wunlock" /\ list[q] = {}

EntryIsSeen ==
  \A q \in Procs \ lost : pc[q] \in HasEntry =>
    \A p \in Procs :
      /\ pc[p] \in {"rlock", "rread", "rrecord", "rinsert", "runlock", "rabort"} => p \in stale
      /\ SeenEmpty(q) /\ pc[p] = "rheld" => p \in stale

(* A caller takes the lock before it works on the list, and only its own    *)
(* unlock or death takes the lock away before its lease runs out.          *)
LEMMA TheLockIsHeld == Prompt => (Spec => []LockIsHeld)
<1> USE LeaseAssumption, ReaderWriterAssumption
<1>1. Init => LockIsHeld
  BY DEF Init, LockInit, LockIsHeld, Critical
<1>2. Prompt /\ TypeOK /\ LockIsHeld /\ [Next]_vars => LockIsHeld'
  <2> SUFFICES ASSUME Prompt, TypeOK, LockIsHeld, [Next]_vars
               PROVE  LockIsHeld'
    OBVIOUS
  <2>0. pc \in [Procs -> {"idle"} \cup ReaderPCs \cup WriterPCs]
    BY DEF TypeOK, LeaseTypeOK, Holders
  <2> USE <2>0 DEF LockIsHeld, Critical, Goto, End, LockKey, UnlockKey, Free, data, local, lockVars
  <2>1. ASSUME NEW p \in Procs,
               ReaderStep(p) \/ ReaderLooksForWriter(p) \/ ReaderDisposes(p)
        PROVE  LockIsHeld'
    <3>1. CASE ReaderLooksForWriter(p)
      BY <3>1 DEF ReaderLooksForWriter
    <3>2. CASE ReaderLocks(p)
      BY <3>2 DEF ReaderLocks
    <3>3. CASE ReaderReads(p)
      BY <3>3 DEF ReaderReads
    <3>4. CASE ReaderAddsRecord(p) \/ ReaderWriteFails(p)
      BY <3>4 DEF ReaderAddsRecord, ReaderWriteFails
    <3>5. CASE ReaderInserts(p)
      BY <3>5 DEF ReaderInserts
    <3>6. CASE ReaderUnlocks(p)
      BY <3>6 DEF ReaderUnlocks
    <3>7. CASE ReaderDisposes(p) \/ ReaderDisposeLocks(p)
      BY <3>7 DEF ReaderDisposes, ReaderDisposeLocks
    <3>8. CASE ReaderDisposeReads(p)
      BY <3>8 DEF ReaderDisposeReads
    <3>9. CASE ReaderDisposeInserts(p)
      BY <3>9 DEF ReaderDisposeInserts
    <3>10. CASE ReaderDisposeRemoves(p)
      BY <3>10 DEF ReaderDisposeRemoves
    <3>11. CASE ReaderDisposeUnlocks(p)
      BY <3>11 DEF ReaderDisposeUnlocks
    <3> QED
      BY <2>1, <3>1, <3>2, <3>3, <3>4, <3>5, <3>6, <3>7, <3>8, <3>9, <3>10, <3>11
         DEF ReaderStep
  <2>2. ASSUME NEW p \in Procs, WriterStep(p) \/ WriterLocks(p) \/ WriterDisposes(p)
        PROVE  LockIsHeld'
    <3>1. CASE WriterLocks(p)
      BY <3>1 DEF WriterLocks
    <3>2. CASE WriterReads(p)
      BY <3>2 DEF WriterReads
    <3>3. CASE WriterAdds(p)
      BY <3>3 DEF WriterAdds
    <3>4. CASE WriterUnlocks(p)
      BY <3>4 DEF WriterUnlocks
    <3>5. CASE WriterPolls(p) \/ WriterStopsWaiting(p)
      BY <3>5 DEF WriterPolls, WriterStopsWaiting
    <3>6. CASE WriterInserts(p)
      BY <3>6 DEF WriterInserts
    <3>7. CASE WriterGivesUp(p)
      BY <3>7 DEF WriterGivesUp
    <3>8. CASE WriterDisposes(p) \/ WriterDisposeGets(p)
      BY <3>8 DEF WriterDisposes, WriterDisposeGets
    <3>9. CASE WriterDisposeRemoves(p)
      BY <3>9 DEF WriterDisposeRemoves
    <3> QED
      BY <2>2, <3>1, <3>2, <3>3, <3>4, <3>5, <3>6, <3>7, <3>8, <3>9 DEF WriterStep
  <2>3. ASSUME NEW p \in Procs, Crash(p)
        PROVE  LockIsHeld'
    BY <2>3 DEF Crash, Abandon
  <2>4. CASE Tick
    BY <2>4 DEF Tick, LeaseRuns, lockVars
  <2>5. CASE UNCHANGED vars
    BY <2>5 DEF vars, lockVars
  <2> QED
    BY <2>1, <2>2, <2>3, <2>4, <2>5 DEF Next
<1>3. ASSUME Prompt
      PROVE  Spec => []LockIsHeld
  <2>1. TypeOK /\ LockIsHeld /\ [Next]_vars => LockIsHeld'
    BY <1>2, <1>3
  <2> QED
    BY <1>1, <2>1, TypeCorrect, PTL DEF Spec
<1> QED
  BY <1>3

(* The death of a caller touches no other caller's place on a list.        *)
LEMMA DisownSparesOthers ==
  ASSUME NEW S, NEW p \in Procs, NEW q \in Procs \ {p}
  PROVE  /\ Disown(S \cup {q}, p) = Disown(S, p) \cup {q}
         /\ Disown(S \ {q}, p) = Disown(S, p) \ {q}
         /\ q \in S => q \in Disown(S, p)
BY LeaseAssumption DEF Disown

(* Nobody else changes the list of readers under a caller that works on it. *)
LEMMA TheListsAreFresh == Prompt => (Spec => []ListsAreFresh)
<1> USE LeaseAssumption, ReaderWriterAssumption
<1>1. Init => ListsAreFresh
  BY DEF Init, LockInit, ListsAreFresh
<1>2. Prompt /\ TypeOK /\ LockIsHeld /\ ListsAreFresh /\ [Next]_vars => ListsAreFresh'
  <2> SUFFICES ASSUME Prompt, TypeOK, LockIsHeld, ListsAreFresh, [Next]_vars
               PROVE  ListsAreFresh'
    OBVIOUS
  <2>0. /\ pc \in [Procs -> {"idle"} \cup ReaderPCs \cup WriterPCs]
        /\ list \in [Procs -> SUBSET (Procs \cup {Orphan})]
        /\ readers \subseteq Procs \cup {Orphan}
    BY DEF TypeOK, LeaseTypeOK, Holders
  <2> USE <2>0 DEF LockIsHeld, Critical, ListsAreFresh, Goto, End, Copy, data, local
  <2>1. ASSUME NEW p \in Procs,
               ReaderStep(p) \/ ReaderLooksForWriter(p) \/ ReaderDisposes(p)
        PROVE  ListsAreFresh'
    <3>1. CASE ReaderLooksForWriter(p)
      BY <3>1 DEF ReaderLooksForWriter
    <3>2. CASE ReaderLocks(p)
      BY <3>2 DEF ReaderLocks
    <3>3. CASE ReaderReads(p)
      BY <3>3 DEF ReaderReads
    <3>4. CASE ReaderAddsRecord(p) \/ ReaderWriteFails(p)
      BY <3>4 DEF ReaderAddsRecord, ReaderWriteFails
    <3>5. CASE ReaderInserts(p)
      BY <3>5 DEF ReaderInserts
    <3>6. CASE ReaderUnlocks(p)
      BY <3>6 DEF ReaderUnlocks
    <3>7. CASE ReaderDisposes(p) \/ ReaderDisposeLocks(p)
      BY <3>7 DEF ReaderDisposes, ReaderDisposeLocks
    <3>8. CASE ReaderDisposeReads(p)
      BY <3>8 DEF ReaderDisposeReads
    <3>9. CASE ReaderDisposeInserts(p)
      BY <3>9 DEF ReaderDisposeInserts
    <3>10. CASE ReaderDisposeRemoves(p)
      BY <3>10 DEF ReaderDisposeRemoves
    <3>11. CASE ReaderDisposeUnlocks(p)
      BY <3>11 DEF ReaderDisposeUnlocks
    <3> QED
      BY <2>1, <3>1, <3>2, <3>3, <3>4, <3>5, <3>6, <3>7, <3>8, <3>9, <3>10, <3>11
         DEF ReaderStep
  <2>2. ASSUME NEW p \in Procs, WriterStep(p) \/ WriterLocks(p) \/ WriterDisposes(p)
        PROVE  ListsAreFresh'
    <3>1. CASE WriterLocks(p)
      BY <3>1 DEF WriterLocks
    <3>2. CASE WriterReads(p)
      BY <3>2 DEF WriterReads
    <3>3. CASE WriterAdds(p)
      BY <3>3 DEF WriterAdds
    <3>4. CASE WriterUnlocks(p)
      BY <3>4 DEF WriterUnlocks
    <3>5. CASE WriterPolls(p) \/ WriterStopsWaiting(p)
      BY <3>5 DEF WriterPolls, WriterStopsWaiting
    <3>6. CASE WriterInserts(p)
      BY <3>6 DEF WriterInserts
    <3>7. CASE WriterGivesUp(p)
      BY <3>7 DEF WriterGivesUp
    <3>8. CASE WriterDisposes(p) \/ WriterDisposeGets(p)
      BY <3>8 DEF WriterDisposes, WriterDisposeGets
    <3>9. CASE WriterDisposeRemoves(p)
      BY <3>9 DEF WriterDisposeRemoves
    <3> QED
      BY <2>2, <3>1, <3>2, <3>3, <3>4, <3>5, <3>6, <3>7, <3>8, <3>9 DEF WriterStep
  <2>3. ASSUME NEW p \in Procs, Crash(p)
        PROVE  ListsAreFresh'
    <3>1. /\ readers' = Disown(readers, p)
          /\ \A q \in Procs \ {p} : list'[q] = Disown(list[q], p) /\ pc'[q] = pc[q]
          /\ pc'[p] = "idle"
      BY <2>3 DEF Crash
    <3>2. \A q \in Procs \ {p} :
            /\ Disown(readers \cup {q}, p) = Disown(readers, p) \cup {q}
            /\ Disown(readers \ {q}, p) = Disown(readers, p) \ {q}
            /\ q \in readers => q \in Disown(readers, p)
      BY DisownSparesOthers
    <3> SUFFICES ASSUME NEW q \in Procs \ {p}
                 PROVE  /\ pc[q] \in {"rrecord", "rinsert"} => list'[q] = readers' \cup {q}
                        /\ pc[q] = "rdinsert" => list'[q] = readers' \ {q}
                        /\ pc[q] = "wadd" => list'[q] = readers'
                        /\ pc[q] \in {"runlock", "rheld", "rdispose", "rdread", "rdinsert"}
                             => q \in readers'
      BY <3>1
    <3>3. /\ pc[q] \in {"rrecord", "rinsert"} => list[q] = readers \cup {q}
          /\ pc[q] = "rdinsert" => list[q] = readers \ {q}
          /\ pc[q] = "wadd" => list[q] = readers
          /\ pc[q] \in {"runlock", "rheld", "rdispose", "rdread", "rdinsert"} => q \in readers
      OBVIOUS
    <3> HIDE DEF ListsAreFresh
    <3> QED
      BY <3>1, <3>2, <3>3
  <2>4. CASE Tick
    BY <2>4 DEF Tick
  <2>5. CASE UNCHANGED vars
    BY <2>5 DEF vars, lockVars
  <2> QED
    BY <2>1, <2>2, <2>3, <2>4, <2>5 DEF Next
<1>3. ASSUME Prompt
      PROVE  Spec => []ListsAreFresh
  <2>1. TypeOK /\ LockIsHeld /\ ListsAreFresh /\ [Next]_vars => ListsAreFresh'
    BY <1>2, <1>3
  <2>2. Spec => []LockIsHeld
    BY <1>3, TheLockIsHeld
  <2> QED
    BY <1>1, <2>1, <2>2, TypeCorrect, PTL DEF Spec
<1> QED
  BY <1>3

(* No reader starts to enter while there is an entry, no reader enters the *)
(* list while a writer adds its entry, and the others keep it waiting.     *)
LEMMA TheEntryIsSeen == Prompt => (Spec => []EntryIsSeen)
<1> USE LeaseAssumption, ReaderWriterAssumption
<1>1. Init => EntryIsSeen
  BY DEF Init, LockInit, EntryIsSeen, HasEntry
<1>2. Prompt /\ TypeOK /\ LockIsHeld /\ ListsAreFresh /\ WriterInv /\
      EntryIsSeen /\ [Next]_vars => EntryIsSeen'
  <2> SUFFICES ASSUME Prompt, TypeOK, LockIsHeld, ListsAreFresh, WriterInv,
                     EntryIsSeen, [Next]_vars
               PROVE  EntryIsSeen'
    OBVIOUS
  <2>0. /\ pc \in [Procs -> {"idle"} \cup ReaderPCs \cup WriterPCs]
        /\ list \in [Procs -> SUBSET (Procs \cup {Orphan})]
        /\ stale \subseteq Procs
        /\ lost \subseteq Procs
        /\ \A p \in Procs \ lost : pc[p] \in HasEntry => writer.owner = p
    BY DEF TypeOK, WriterInv, KeepersOwn
  <2> USE <2>0 DEF LockIsHeld, Critical, EntryIsSeen, SeenEmpty, HasEntry, Goto, End, Copy,
                  WriterPresent, data, local, history
  <2>1. ASSUME NEW p \in Procs,
               ReaderStep(p) \/ ReaderLooksForWriter(p) \/ ReaderDisposes(p)
        PROVE  EntryIsSeen'
    <3>1. CASE ReaderLooksForWriter(p)
      BY <3>1 DEF ReaderLooksForWriter
    <3>2. CASE ReaderLocks(p)
      BY <3>2 DEF ReaderLocks
    <3>3. CASE ReaderReads(p)
      BY <3>3 DEF ReaderReads
    <3>4. CASE ReaderAddsRecord(p) \/ ReaderWriteFails(p)
      BY <3>4 DEF ReaderAddsRecord, ReaderWriteFails
    <3>5. CASE ReaderInserts(p)
      BY <3>5 DEF ReaderInserts
    <3>6. CASE ReaderUnlocks(p)
      BY <3>6 DEF ReaderUnlocks
    <3>7. CASE ReaderDisposes(p) \/ ReaderDisposeLocks(p)
      BY <3>7 DEF ReaderDisposes, ReaderDisposeLocks
    <3>8. CASE ReaderDisposeReads(p)
      BY <3>8 DEF ReaderDisposeReads
    <3>9. CASE ReaderDisposeInserts(p)
      BY <3>9 DEF ReaderDisposeInserts
    <3>10. CASE ReaderDisposeRemoves(p)
      BY <3>10 DEF ReaderDisposeRemoves
    <3>11. CASE ReaderDisposeUnlocks(p)
      BY <3>11 DEF ReaderDisposeUnlocks
    <3> QED
      BY <2>1, <3>1, <3>2, <3>3, <3>4, <3>5, <3>6, <3>7, <3>8, <3>9, <3>10, <3>11
         DEF ReaderStep
  <2>2. ASSUME NEW p \in Procs, WriterStep(p) \/ WriterLocks(p) \/ WriterDisposes(p)
        PROVE  EntryIsSeen'
    <3>1. CASE WriterLocks(p)
      BY <3>1 DEF WriterLocks
    <3>2. CASE WriterReads(p)
      BY <3>2 DEF WriterReads
    <3>3. CASE WriterAdds(p)
      BY <3>3 DEF WriterAdds, ListsAreFresh
    <3>4. CASE WriterUnlocks(p)
      BY <3>4 DEF WriterUnlocks
    <3>5. CASE WriterPolls(p) \/ WriterStopsWaiting(p)
      BY <3>5 DEF WriterPolls, WriterStopsWaiting, ListsAreFresh
    <3>6. CASE WriterInserts(p)
      BY <3>6 DEF WriterInserts
    <3>7. CASE WriterGivesUp(p)
      BY <3>7 DEF WriterGivesUp
    <3>8. CASE WriterDisposes(p) \/ WriterDisposeGets(p)
      BY <3>8 DEF WriterDisposes, WriterDisposeGets
    <3>9. CASE WriterDisposeRemoves(p)
      BY <3>9 DEF WriterDisposeRemoves
    <3> QED
      BY <2>2, <3>1, <3>2, <3>3, <3>4, <3>5, <3>6, <3>7, <3>8, <3>9 DEF WriterStep
  <2>3. ASSUME NEW p \in Procs, Crash(p)
        PROVE  EntryIsSeen'
    BY <2>3 DEF Crash, Disown
  <2>4. CASE Tick
    BY <2>4 DEF Tick
  <2>5. CASE UNCHANGED vars
    BY <2>5 DEF vars, lockVars
  <2> QED
    BY <2>1, <2>2, <2>3, <2>4, <2>5 DEF Next
<1>3. ASSUME Prompt
      PROVE  Spec => []EntryIsSeen
  <2>1. TypeOK /\ LockIsHeld /\ ListsAreFresh /\ WriterInv /\ EntryIsSeen /\ [Next]_vars => EntryIsSeen'
    BY <1>2, <1>3
  <2>2. Spec => []LockIsHeld
    BY <1>3, TheLockIsHeld
  <2>3. Spec => []ListsAreFresh
    BY <1>3, TheListsAreFresh
  <2> QED
    BY <1>1, <2>1, <2>2, <2>3, TypeCorrect, WriterInvariant, PTL DEF Spec
<1> QED
  BY <1>3

(* With prompt callers no read, change and write of the list loses a       *)
(* reader: whoever holds the lock for reading is on the list.              *)
THEOREM ReadersAreListed == Prompt => (Spec => []ReaderIsListed)
<1>1. ListsAreFresh => ReaderIsListed
  BY DEF ListsAreFresh, ReaderIsListed
<1>2. ASSUME Prompt
      PROVE  Spec => []ReaderIsListed
  <2>1. Spec => []ListsAreFresh
    BY <1>2, TheListsAreFresh
  <2> QED
    BY <1>1, <2>1, PTL
<1> QED
  BY <1>2

(* With prompt callers a reader holds the lock together with a writer that *)
(* has its entry only when it looked for writers before the entry was      *)
(* added and locked the list after it.                                     *)
THEOREM OnlyAStaleLookOverlaps == Prompt => (Spec => []OverlapOnlyAfterStaleLook)
<1>1. EntryIsSeen => OverlapOnlyAfterStaleLook
  BY DEF EntryIsSeen, SeenEmpty, HasEntry, OverlapOnlyAfterStaleLook
<1>2. ASSUME Prompt
      PROVE  Spec => []OverlapOnlyAfterStaleLook
  <2>1. Spec => []EntryIsSeen
    BY <1>2, TheEntryIsSeen
  <2> QED
    BY <1>1, <2>1, PTL
<1> QED
  BY <1>2
=============================================================================
