---------------------------- MODULE JobQueueProofs ----------------------------
(***************************************************************************)
(* Theorems about the job queue, for every set of jobs, servers and        *)
(* workers, every server that may crash and every number of faults.        *)
(*                                                                         *)
(* The invariant has three layers.  Shape, the two guards and SlotsFit say *)
(* who works on which counter and what lies around it meanwhile.  On top   *)
(* of it, EnqueuedIsStored says where a job is that was enqueued, and      *)
(* OneWhileNothingFails that it is in one such place only.                 *)
(***************************************************************************)
EXTENDS JobQueue, FiniteSetTheorems, TLAPS

Carriers == Workers \cup Servers

EnqueuePCs == {"enqLock", "enqItem", "enqTail"}
CarryPCs   == {"remove", "advance", "mark", "run", "clear", "unmark"} \cup RequeuePCs

(* Clients only enqueue, watchers only requeue, workers do anything. *)
ControlFits ==
  /\ \A j \in Jobs : pc[j] \in ClientPCs \cup EnqueuePCs
  /\ \A w \in Workers : pc[w] \in {"idle"} \cup DequeuePCs \cup RequeuePCs
  /\ \A s \in Servers : pc[s] \in {"idle"} \cup RequeuePCs

(* Whoever is past the reading of a job has one. *)
HandsFit == \A a \in Carriers : pc[a] \in CarryPCs => hand[a] \in Jobs

(* The locks of NCacheLockGuard: who is inside has it. *)
HeadGuarded ==
  \A a \in Carriers :
    pc[a] \in {"dequeue", "remove", "advance", "reqItem", "reqHead"} => headLock = a

TailGuarded ==
  \A a \in Actors : pc[a] \in {"enqItem", "enqTail"} => tailLock = a

(* The slots around the counters, for those inside the locks. *)
SlotsFit ==
  /\ head <= tail
  /\ \A w \in Workers : pc[w] = "remove" => head < tail /\ item[head] = hand[w]
  /\ \A w \in Workers : pc[w] = "advance" => head < tail /\ item[head] = NoJob
  /\ \A a \in Carriers : pc[a] = "reqHead" => head - 1 \in Slots /\ item[head - 1] = hand[a]
  /\ \A a \in Actors : pc[a] = "enqTail" => tail + 1 \in Slots /\ item[tail] = JobOf(a)

Shape == TypeOK /\ ControlFits /\ HandsFit

(* The counters are integers. *)
LEMMA SlotsType == Slots \subseteq Int /\ \A k \in Slots : k \in Int
<1>1. Cardinality(Jobs) \in Nat  BY FS_CardinalityType, JobQueueAssumption
<1> QED  BY <1>1, JobQueueAssumption DEF Slots

(* What is between two slots is a slot. *)
LEMMA SlotsBetween ==
  ASSUME NEW i \in Slots, NEW k \in Slots, NEW n \in Int, i <= n, n <= k
  PROVE  n \in Slots
<1>1. Cardinality(Jobs) \in Nat  BY FS_CardinalityType, JobQueueAssumption
<1> QED  BY <1>1, JobQueueAssumption DEF Slots

(* Every step keeps the types; SlotsFit keeps the head within the slots. *)
LEMMA ShapeKept ==
  ASSUME Shape, SlotsFit, Next
  PROVE  Shape'
<1> USE JobQueueAssumption, SlotsType
    DEF TypeOK, ControlFits, HandsFit, Shape, Carriers, CarryPCs, EnqueuePCs, ClientPCs,
        DequeuePCs, RequeuePCs, Actors, Goto, Entry, Fault, PutBack, JobOf, queueVars,
        lockVars, serverVars, actorVars, past, vars
<1>1. ASSUME NEW j \in Jobs, StartEnqueue(j)  PROVE Shape'
  BY <1>1 DEF SlotsFit, StartEnqueue
<1>2. ASSUME NEW a \in Actors, EnqueueLock(a)  PROVE Shape'
  BY <1>2 DEF SlotsFit, EnqueueLock
<1>3. ASSUME NEW a \in Actors, EnqueueItem(a)  PROVE Shape'
  BY <1>3 DEF SlotsFit, EnqueueItem
<1>4. ASSUME NEW a \in Actors, EnqueueTail(a)  PROVE Shape'
  BY <1>4, SlotsBetween DEF SlotsFit, EnqueueTail
<1>5. ASSUME NEW w \in Workers, Wake(w)  PROVE Shape'
  BY <1>5 DEF SlotsFit, Wake
<1>6. ASSUME NEW w \in Workers, DequeueLock(w)  PROVE Shape'
  BY <1>6 DEF SlotsFit, DequeueLock
<1>7. ASSUME NEW w \in Workers, DequeueTimesOut(w)  PROVE Shape'
  BY <1>7 DEF SlotsFit, DequeueTimesOut
<1>8. ASSUME NEW w \in Workers, DequeueEmpty(w)  PROVE Shape'
  BY <1>8 DEF SlotsFit, DequeueEmpty
<1>9. ASSUME NEW w \in Workers, DequeueSkip(w)  PROVE Shape'
  BY <1>9, SlotsBetween DEF SlotsFit, DequeueSkip
<1>10. ASSUME NEW w \in Workers, DequeueGet(w)  PROVE Shape'
  BY <1>10 DEF SlotsFit, DequeueGet
<1>11. ASSUME NEW w \in Workers, DequeueRemove(w)  PROVE Shape'
  BY <1>11 DEF SlotsFit, DequeueRemove
<1>12. ASSUME NEW w \in Workers, DequeueAdvance(w)  PROVE Shape'
  BY <1>12, SlotsBetween DEF SlotsFit, DequeueAdvance
<1>13. ASSUME NEW w \in Workers, ServerOf[w] \in up, MarkAsProcessing(w)  PROVE Shape'
  BY <1>13 DEF SlotsFit, MarkAsProcessing
<1>14. ASSUME NEW w \in Workers, MarkFails(w)  PROVE Shape'
  <2>1. processing' \in [Servers -> [Jobs -> {"none", "fresh", "stale"}]]
    <3>1. hand[w] \in Jobs /\ ServerOf[w] \in Servers
      BY <1>14 DEF MarkFails
    <3>2. CASE UNCHANGED processing
      BY <3>2
    <3>3. CASE Entry(ServerOf[w], hand[w], "fresh")
      BY <3>1, <3>3
    <3> QED  BY <1>14, <3>2, <3>3 DEF MarkFails
  <2> QED  BY <1>14, <2>1 DEF MarkFails
<1>15. ASSUME NEW w \in Workers, Perform(w)  PROVE Shape'
  BY <1>15 DEF SlotsFit, Perform
<1>16. ASSUME NEW w \in Workers, GiveUp(w)  PROVE Shape'
  BY <1>16 DEF SlotsFit, GiveUp
<1>17. ASSUME NEW w \in Workers, Clear(w)  PROVE Shape'
  <2>1. processing' \in [Servers -> [Jobs -> {"none", "fresh", "stale"}]]
    <3>1. hand[w] \in Jobs /\ ServerOf[w] \in Servers
      BY <1>17 DEF Clear
    <3>2. CASE UNCHANGED processing
      BY <3>2
    <3>3. CASE Entry(ServerOf[w], hand[w], "none")
      BY <3>1, <3>3
    <3> QED  BY <1>17, <3>2, <3>3 DEF Clear
  <2>2. dropped' \subseteq Jobs /\ faults' \in 0 .. MaxFaults
    BY <1>17 DEF Clear
  <2> QED  BY <1>17, <2>1, <2>2 DEF Clear
<1>18. ASSUME NEW w \in Workers, ClearThrows(w)  PROVE Shape'
  BY <1>18 DEF SlotsFit, ClearThrows
<1>19. ASSUME NEW w \in Workers, Renew(w)  PROVE Shape'
  BY <1>19 DEF SlotsFit, Renew
<1>20. ASSUME NEW a \in Workers \cup Servers, RequeueLock(a)  PROVE Shape'
  BY <1>20 DEF SlotsFit, RequeueLock
<1>21. ASSUME NEW a \in Workers \cup Servers, RequeueItem(a)  PROVE Shape'
  BY <1>21 DEF SlotsFit, RequeueItem
<1>22. ASSUME NEW a \in Workers \cup Servers, RequeueHead(a)  PROVE Shape'
  BY <1>22, SlotsBetween DEF SlotsFit, RequeueHead
<1>23. ASSUME NEW a \in Workers \cup Servers, RequeueTimesOut(a)  PROVE Shape'
  BY <1>23 DEF SlotsFit, RequeueTimesOut
<1>24. ASSUME NEW s \in Servers, TakeStale(s)  PROVE Shape'
  BY <1>24 DEF SlotsFit, TakeStale
<1>25. ASSUME NEW s \in Servers, RequeueNext(s)  PROVE Shape'
  BY <1>25 DEF SlotsFit, RequeueNext
<1>26. ASSUME NEW s \in Servers, AnnounceServer(s)  PROVE Shape'
  BY <1>26 DEF SlotsFit, AnnounceServer
<1>27. ASSUME NEW s \in Servers, RemoveTimedOutServer(s)  PROVE Shape'
  BY <1>27 DEF SlotsFit, RemoveTimedOutServer
<1>28. ASSUME NEW s \in Servers, Crash(s)  PROVE Shape'
  <2>1. dropped' \subseteq Jobs
    BY <1>28 DEF Crash, Unsaved
  <2>2. /\ headLock' \in Workers \cup Servers \cup {Nobody, Orphan}
        /\ tailLock' \in Actors \cup {Nobody, Orphan}
    BY <1>28 DEF Crash, Release
  <2>3. /\ pc' \in [Actors -> {"idle"} \cup ClientPCs \cup DequeuePCs \cup RequeuePCs]
        /\ hand' \in [Workers \cup Servers -> Jobs \cup {NoJob}]
        /\ marked' \in [Workers -> BOOLEAN]
        /\ todo' \in [Servers -> SUBSET Jobs]
    BY <1>28 DEF Crash
  <2>4. ControlFits' /\ HandsFit'
    BY <1>28 DEF Crash
  <2> QED  BY <1>28, <2>1, <2>2, <2>3, <2>4 DEF Crash
<1>29. ASSUME NEW s \in Servers, NEW j \in Jobs, GoStale(s, j)  PROVE Shape'
  BY <1>29 DEF SlotsFit, GoStale
<1>30. ASSUME NEW a \in Actors, CallFails(a)  PROVE Shape'
  <2>1. dropped' \subseteq Jobs
    BY <1>30 DEF CallFails, Unsaved, Exposed
  <2>2. /\ headLock' \in Workers \cup Servers \cup {Nobody, Orphan}
        /\ tailLock' \in Actors \cup {Nobody, Orphan}
    BY <1>30 DEF CallFails
  <2>3. /\ pc' \in [Actors -> {"idle"} \cup ClientPCs \cup DequeuePCs \cup RequeuePCs]
        /\ hand' \in [Workers \cup Servers -> Jobs \cup {NoJob}]
        /\ marked' \in [Workers -> BOOLEAN]
        /\ todo' \in [Servers -> SUBSET Jobs]
    BY <1>30 DEF CallFails
  <2>4. ControlFits' /\ HandsFit'
    BY <1>30 DEF CallFails
  <2> QED  BY <1>30, <2>1, <2>2, <2>3, <2>4 DEF CallFails
<1>31. ASSUME LeaseEnds  PROVE Shape'
  BY <1>31 DEF SlotsFit, LeaseEnds
<1> HIDE JobQueueAssumption
    DEF TypeOK, ControlFits, HandsFit, Shape, Carriers, CarryPCs, EnqueuePCs,
        ClientPCs, DequeuePCs, RequeuePCs, Actors, Goto, Entry, Fault, PutBack, JobOf,
        queueVars, lockVars, serverVars, actorVars, past, vars
<1>32. ASSUME NEW a \in Actors, EnqueueStep(a)  PROVE Shape'
  BY <1>2, <1>3, <1>4, <1>32 DEF EnqueueStep
<1>33. ASSUME NEW a \in Workers \cup Servers, RequeueStep(a)  PROVE Shape'
  <2>1. a \in Actors
    BY DEF Actors
  <2> QED
    BY <1>20, <1>21, <1>22, <1>23, <1>32, <1>33, <2>1 DEF RequeueStep
<1>34. ASSUME NEW w \in Workers, ServerOf[w] \in up, DequeueStep(w)  PROVE Shape'
  BY <1>5, <1>6, <1>7, <1>8, <1>9, <1>10, <1>11, <1>12, <1>13, <1>34 DEF DequeueStep
<1>35. ASSUME NEW w \in Workers, WorkerStep(w) \/ Mishap(w)  PROVE Shape'
  <2>1. CASE WorkerStep(w)
    BY <1>15, <1>17, <1>33, <1>34, <2>1 DEF WorkerStep
  <2>2. CASE Mishap(w)
    BY <1>14, <1>16, <1>18, <1>19, <2>2 DEF Mishap
  <2> QED
    BY <1>35, <2>1, <2>2
<1>36. ASSUME NEW s \in Servers, WatcherStep(s)  PROVE Shape'
  BY <1>24, <1>25, <1>33, <1>36 DEF WatcherStep
<1> QED
  BY <1>1, <1>26, <1>27, <1>28, <1>29, <1>30, <1>31, <1>32, <1>35, <1>36 DEF Next, Actors

(* Every step keeps the locks with those inside, crashes included: the    *)
(* lock of a crashed server is an orphan and its actors are out.           *)
LEMMA LocksKept ==
  ASSUME Shape, HeadGuarded, TailGuarded, Next
  PROVE  (HeadGuarded /\ TailGuarded)'
<1> USE JobQueueAssumption
    DEF HeadGuarded, TailGuarded, Release, Shape, TypeOK, ControlFits, HandsFit, Carriers,
        CarryPCs, EnqueuePCs, ClientPCs, DequeuePCs, RequeuePCs, Actors, Goto, Entry,
        Fault, PutBack, queueVars, lockVars, serverVars, actorVars, past, vars
<1>1. ASSUME NEW j \in Jobs, StartEnqueue(j)  PROVE (HeadGuarded /\ TailGuarded)'
  BY <1>1 DEF StartEnqueue
<1>2. ASSUME NEW a \in Actors, EnqueueLock(a)  PROVE (HeadGuarded /\ TailGuarded)'
  BY <1>2 DEF EnqueueLock
<1>3. ASSUME NEW a \in Actors, EnqueueItem(a)  PROVE (HeadGuarded /\ TailGuarded)'
  BY <1>3 DEF EnqueueItem
<1>4. ASSUME NEW a \in Actors, EnqueueTail(a)  PROVE (HeadGuarded /\ TailGuarded)'
  BY <1>4 DEF EnqueueTail
<1>5. ASSUME NEW w \in Workers, Wake(w)  PROVE (HeadGuarded /\ TailGuarded)'
  BY <1>5 DEF Wake
<1>6. ASSUME NEW w \in Workers, DequeueLock(w)  PROVE (HeadGuarded /\ TailGuarded)'
  BY <1>6 DEF DequeueLock
<1>7. ASSUME NEW w \in Workers, DequeueTimesOut(w)  PROVE (HeadGuarded /\ TailGuarded)'
  BY <1>7 DEF DequeueTimesOut
<1>8. ASSUME NEW w \in Workers, DequeueEmpty(w)  PROVE (HeadGuarded /\ TailGuarded)'
  BY <1>8 DEF DequeueEmpty
<1>9. ASSUME NEW w \in Workers, DequeueSkip(w)  PROVE (HeadGuarded /\ TailGuarded)'
  BY <1>9 DEF DequeueSkip
<1>10. ASSUME NEW w \in Workers, DequeueGet(w)  PROVE (HeadGuarded /\ TailGuarded)'
  BY <1>10 DEF DequeueGet
<1>11. ASSUME NEW w \in Workers, DequeueRemove(w)  PROVE (HeadGuarded /\ TailGuarded)'
  BY <1>11 DEF DequeueRemove
<1>12. ASSUME NEW w \in Workers, DequeueAdvance(w)  PROVE (HeadGuarded /\ TailGuarded)'
  BY <1>12 DEF DequeueAdvance
<1>13. ASSUME NEW w \in Workers, ServerOf[w] \in up,
    MarkAsProcessing(w)  PROVE (HeadGuarded /\ TailGuarded)'
  BY <1>13 DEF MarkAsProcessing
<1>14. ASSUME NEW w \in Workers, MarkFails(w)  PROVE (HeadGuarded /\ TailGuarded)'
  BY <1>14 DEF MarkFails
<1>15. ASSUME NEW w \in Workers, Perform(w)  PROVE (HeadGuarded /\ TailGuarded)'
  BY <1>15 DEF Perform
<1>16. ASSUME NEW w \in Workers, GiveUp(w)  PROVE (HeadGuarded /\ TailGuarded)'
  BY <1>16 DEF GiveUp
<1>17. ASSUME NEW w \in Workers, Clear(w)  PROVE (HeadGuarded /\ TailGuarded)'
  BY <1>17 DEF Clear
<1>18. ASSUME NEW w \in Workers, ClearThrows(w)  PROVE (HeadGuarded /\ TailGuarded)'
  BY <1>18 DEF ClearThrows
<1>19. ASSUME NEW w \in Workers, Renew(w)  PROVE (HeadGuarded /\ TailGuarded)'
  BY <1>19 DEF Renew
<1>20. ASSUME NEW a \in Workers \cup Servers,
              RequeueLock(a)  PROVE (HeadGuarded /\ TailGuarded)'
  BY <1>20 DEF RequeueLock
<1>21. ASSUME NEW a \in Workers \cup Servers,
              RequeueItem(a)  PROVE (HeadGuarded /\ TailGuarded)'
  BY <1>21 DEF RequeueItem
<1>22. ASSUME NEW a \in Workers \cup Servers,
              RequeueHead(a)  PROVE (HeadGuarded /\ TailGuarded)'
  BY <1>22 DEF RequeueHead
<1>23. ASSUME NEW a \in Workers \cup Servers,
    RequeueTimesOut(a)  PROVE (HeadGuarded /\ TailGuarded)'
  BY <1>23 DEF RequeueTimesOut
<1>24. ASSUME NEW s \in Servers, TakeStale(s)  PROVE (HeadGuarded /\ TailGuarded)'
  BY <1>24 DEF TakeStale
<1>25. ASSUME NEW s \in Servers, RequeueNext(s)  PROVE (HeadGuarded /\ TailGuarded)'
  BY <1>25 DEF RequeueNext
<1>26. ASSUME NEW s \in Servers, AnnounceServer(s)  PROVE (HeadGuarded /\ TailGuarded)'
  BY <1>26 DEF AnnounceServer
<1>27. ASSUME NEW s \in Servers,
              RemoveTimedOutServer(s)  PROVE (HeadGuarded /\ TailGuarded)'
  BY <1>27 DEF RemoveTimedOutServer
<1>28. ASSUME NEW s \in Servers, Crash(s)  PROVE (HeadGuarded /\ TailGuarded)'
  BY <1>28 DEF Crash
<1>29. ASSUME NEW s \in Servers, NEW j \in Jobs, GoStale(s,
    j)  PROVE (HeadGuarded /\ TailGuarded)'
  BY <1>29 DEF GoStale
<1>30. ASSUME NEW a \in Actors, CallFails(a)  PROVE (HeadGuarded /\ TailGuarded)'
  BY <1>30 DEF CallFails
<1>31. ASSUME LeaseEnds  PROVE (HeadGuarded /\ TailGuarded)'
  BY <1>31 DEF LeaseEnds
<1> HIDE JobQueueAssumption
    DEF HeadGuarded, TailGuarded, Release, Shape, TypeOK, ControlFits, HandsFit,
        Carriers, CarryPCs, EnqueuePCs, ClientPCs, DequeuePCs, RequeuePCs, Actors,
        Goto, Entry, Fault, PutBack, queueVars, lockVars, serverVars, actorVars, past,
        vars
<1>32. ASSUME NEW a \in Actors, EnqueueStep(a)  PROVE (HeadGuarded /\ TailGuarded)'
  BY <1>2, <1>3, <1>4, <1>32 DEF EnqueueStep
<1>33. ASSUME NEW a \in Workers \cup Servers, RequeueStep(a)  PROVE (HeadGuarded /\ TailGuarded)'
  <2>1. a \in Actors
    BY DEF Actors
  <2> QED
    BY <1>20, <1>21, <1>22, <1>23, <1>32, <1>33, <2>1 DEF RequeueStep
<1>34. ASSUME NEW w \in Workers, ServerOf[w] \in up, DequeueStep(w)  PROVE (HeadGuarded /\ TailGuarded)'
  BY <1>5, <1>6, <1>7, <1>8, <1>9, <1>10, <1>11, <1>12, <1>13, <1>34 DEF DequeueStep
<1>35. ASSUME NEW w \in Workers, WorkerStep(w) \/ Mishap(w)  PROVE (HeadGuarded /\ TailGuarded)'
  <2>1. CASE WorkerStep(w)
    BY <1>15, <1>17, <1>33, <1>34, <2>1 DEF WorkerStep
  <2>2. CASE Mishap(w)
    BY <1>14, <1>16, <1>18, <1>19, <2>2 DEF Mishap
  <2> QED
    BY <1>35, <2>1, <2>2
<1>36. ASSUME NEW s \in Servers, WatcherStep(s)  PROVE (HeadGuarded /\ TailGuarded)'
  BY <1>24, <1>25, <1>33, <1>36 DEF WatcherStep
<1> QED
  BY <1>1, <1>26, <1>27, <1>28, <1>29, <1>30, <1>31, <1>32, <1>35, <1>36 DEF Next, Actors

(* Every step keeps the slots: what one lock guards is not touched under  *)
(* the other, because the head never passes the tail.                      *)
LEMMA SlotsKept ==
  ASSUME Shape, HeadGuarded, TailGuarded, SlotsFit, Next
  PROVE  SlotsFit'
<1> USE JobQueueAssumption, SlotsType
    DEF SlotsFit, HeadGuarded, TailGuarded, JobOf, Shape, TypeOK, ControlFits, HandsFit,
        Carriers, CarryPCs, EnqueuePCs, ClientPCs, DequeuePCs, RequeuePCs, Actors, Goto,
        Entry, Fault, PutBack, queueVars, lockVars, serverVars, actorVars, past, vars
<1>1. ASSUME NEW j \in Jobs, StartEnqueue(j)  PROVE SlotsFit'
  BY <1>1 DEF StartEnqueue
<1>2. ASSUME NEW a \in Actors, EnqueueLock(a)  PROVE SlotsFit'
  BY <1>2 DEF EnqueueLock
<1>3. ASSUME NEW a \in Actors, EnqueueItem(a)  PROVE SlotsFit'
  BY <1>3 DEF EnqueueItem
<1>4. ASSUME NEW a \in Actors, EnqueueTail(a)  PROVE SlotsFit'
  BY <1>4 DEF EnqueueTail
<1>5. ASSUME NEW w \in Workers, Wake(w)  PROVE SlotsFit'
  BY <1>5 DEF Wake
<1>6. ASSUME NEW w \in Workers, DequeueLock(w)  PROVE SlotsFit'
  BY <1>6 DEF DequeueLock
<1>7. ASSUME NEW w \in Workers, DequeueTimesOut(w)  PROVE SlotsFit'
  BY <1>7 DEF DequeueTimesOut
<1>8. ASSUME NEW w \in Workers, DequeueEmpty(w)  PROVE SlotsFit'
  BY <1>8 DEF DequeueEmpty
<1>9. ASSUME NEW w \in Workers, DequeueSkip(w)  PROVE SlotsFit'
  BY <1>9 DEF DequeueSkip
<1>10. ASSUME NEW w \in Workers, DequeueGet(w)  PROVE SlotsFit'
  BY <1>10 DEF DequeueGet
<1>11. ASSUME NEW w \in Workers, DequeueRemove(w)  PROVE SlotsFit'
  BY <1>11 DEF DequeueRemove
<1>12. ASSUME NEW w \in Workers, DequeueAdvance(w)  PROVE SlotsFit'
  BY <1>12 DEF DequeueAdvance
<1>13. ASSUME NEW w \in Workers, ServerOf[w] \in up, MarkAsProcessing(w)  PROVE SlotsFit'
  BY <1>13 DEF MarkAsProcessing
<1>14. ASSUME NEW w \in Workers, MarkFails(w)  PROVE SlotsFit'
  BY <1>14 DEF MarkFails
<1>15. ASSUME NEW w \in Workers, Perform(w)  PROVE SlotsFit'
  BY <1>15 DEF Perform
<1>16. ASSUME NEW w \in Workers, GiveUp(w)  PROVE SlotsFit'
  BY <1>16 DEF GiveUp
<1>17. ASSUME NEW w \in Workers, Clear(w)  PROVE SlotsFit'
  BY <1>17 DEF Clear
<1>18. ASSUME NEW w \in Workers, ClearThrows(w)  PROVE SlotsFit'
  BY <1>18 DEF ClearThrows
<1>19. ASSUME NEW w \in Workers, Renew(w)  PROVE SlotsFit'
  BY <1>19 DEF Renew
<1>20. ASSUME NEW a \in Workers \cup Servers, RequeueLock(a)  PROVE SlotsFit'
  BY <1>20 DEF RequeueLock
<1>21. ASSUME NEW a \in Workers \cup Servers, RequeueItem(a)  PROVE SlotsFit'
  BY <1>21 DEF RequeueItem
<1>22. ASSUME NEW a \in Workers \cup Servers, RequeueHead(a)  PROVE SlotsFit'
  BY <1>22 DEF RequeueHead
<1>23. ASSUME NEW a \in Workers \cup Servers, RequeueTimesOut(a)  PROVE SlotsFit'
  BY <1>23 DEF RequeueTimesOut
<1>24. ASSUME NEW s \in Servers, TakeStale(s)  PROVE SlotsFit'
  BY <1>24 DEF TakeStale
<1>25. ASSUME NEW s \in Servers, RequeueNext(s)  PROVE SlotsFit'
  BY <1>25 DEF RequeueNext
<1>26. ASSUME NEW s \in Servers, AnnounceServer(s)  PROVE SlotsFit'
  BY <1>26 DEF AnnounceServer
<1>27. ASSUME NEW s \in Servers, RemoveTimedOutServer(s)  PROVE SlotsFit'
  BY <1>27 DEF RemoveTimedOutServer
<1>28. ASSUME NEW s \in Servers, Crash(s)  PROVE SlotsFit'
  BY <1>28 DEF Crash
<1>29. ASSUME NEW s \in Servers, NEW j \in Jobs, GoStale(s, j)  PROVE SlotsFit'
  BY <1>29 DEF GoStale
<1>30. ASSUME NEW a \in Actors, CallFails(a)  PROVE SlotsFit'
  BY <1>30 DEF CallFails
<1>31. ASSUME LeaseEnds  PROVE SlotsFit'
  BY <1>31 DEF LeaseEnds
<1> HIDE JobQueueAssumption
    DEF SlotsFit, HeadGuarded, TailGuarded, JobOf, Shape, TypeOK, ControlFits,
        HandsFit, Carriers, CarryPCs, EnqueuePCs, ClientPCs, DequeuePCs, RequeuePCs,
        Actors, Goto, Entry, Fault, PutBack, queueVars, lockVars, serverVars,
        actorVars, past, vars
<1>32. ASSUME NEW a \in Actors, EnqueueStep(a)  PROVE SlotsFit'
  BY <1>2, <1>3, <1>4, <1>32 DEF EnqueueStep
<1>33. ASSUME NEW a \in Workers \cup Servers, RequeueStep(a)  PROVE SlotsFit'
  <2>1. a \in Actors
    BY DEF Actors
  <2> QED
    BY <1>20, <1>21, <1>22, <1>23, <1>32, <1>33, <2>1 DEF RequeueStep
<1>34. ASSUME NEW w \in Workers, ServerOf[w] \in up, DequeueStep(w)  PROVE SlotsFit'
  BY <1>5, <1>6, <1>7, <1>8, <1>9, <1>10, <1>11, <1>12, <1>13, <1>34 DEF DequeueStep
<1>35. ASSUME NEW w \in Workers, WorkerStep(w) \/ Mishap(w)  PROVE SlotsFit'
  <2>1. CASE WorkerStep(w)
    BY <1>15, <1>17, <1>33, <1>34, <2>1 DEF WorkerStep
  <2>2. CASE Mishap(w)
    BY <1>14, <1>16, <1>18, <1>19, <2>2 DEF Mishap
  <2> QED
    BY <1>35, <2>1, <2>2
<1>36. ASSUME NEW s \in Servers, WatcherStep(s)  PROVE SlotsFit'
  BY <1>24, <1>25, <1>33, <1>36 DEF WatcherStep
<1> QED
  BY <1>1, <1>26, <1>27, <1>28, <1>29, <1>30, <1>31, <1>32, <1>35, <1>36 DEF Next, Actors

(* What the marks of the workers say: the worker has an NCacheFetchedJob. *)
MarksFit ==
  /\ \A w \in Workers :
       marked[w] => pc[w] \in {"run", "clear", "unmark"} \cup RequeuePCs /\ ServerOf[w] \in up
  /\ \A w \in Workers : pc[w] \in {"run", "clear", "unmark"} => marked[w]
  /\ \A w \in Workers : pc[w] = "clear" => hand[w] \in done

(* A worker has the job and no entry for it. *)
InHand(j) ==
  \E w \in Workers :
    pc[w] \in {"advance", "mark"} \cup RequeuePCs /\ ~marked[w] /\ hand[w] = j

WithWatcher(j) ==
  \E s \in Servers : j \in todo[s] \/ (pc[s] \in RequeuePCs /\ hand[s] = j)

(* A fetched job, and one that is about to have its entry removed. *)
Keeps(w, s, j) == ServerOf[w] = s /\ hand[w] = j /\ marked[w] /\ pc[w] # "unmark"
Wipes(w, s, j) == ServerOf[w] = s /\ hand[w] = j /\ pc[w] = "unmark"

(* The job's entry is not about to be removed, or who is marked for it     *)
(* goes on with it when it is.                                             *)
Entered(s, j) ==
  /\ processing[s][j] # "none"
  /\ (\E w \in Workers : Wipes(w, s, j)) => \E w \in Workers : Keeps(w, s, j)

(* Where a job can be. *)
Stored(j) ==
  \/ j \in done \cup dropped
  \/ Queued(j)
  \/ InHand(j)
  \/ WithWatcher(j)
  \/ \E s \in Servers : Entered(s, j)

(* Every job that was enqueued is somewhere. *)
EnqueuedIsStored == \A j \in Jobs : pc[j] = "sent" => Stored(j)

(* Every step keeps the marks. *)
LEMMA MarksKept ==
  ASSUME Shape, MarksFit, Next
  PROVE  MarksFit'
<1> USE JobQueueAssumption
    DEF MarksFit, up, Shape, TypeOK, ControlFits, HandsFit, Carriers, CarryPCs, EnqueuePCs,
        ClientPCs, DequeuePCs, RequeuePCs, Actors, Goto, Entry, Fault, PutBack, queueVars,
        lockVars, serverVars, actorVars, past, vars
<1>1. ASSUME NEW j \in Jobs, StartEnqueue(j)  PROVE MarksFit'
  BY <1>1 DEF StartEnqueue
<1>2. ASSUME NEW a \in Actors, EnqueueLock(a)  PROVE MarksFit'
  BY <1>2 DEF EnqueueLock
<1>3. ASSUME NEW a \in Actors, EnqueueItem(a)  PROVE MarksFit'
  BY <1>3 DEF EnqueueItem
<1>4. ASSUME NEW a \in Actors, EnqueueTail(a)  PROVE MarksFit'
  BY <1>4 DEF EnqueueTail
<1>5. ASSUME NEW w \in Workers, Wake(w)  PROVE MarksFit'
  BY <1>5 DEF Wake
<1>6. ASSUME NEW w \in Workers, DequeueLock(w)  PROVE MarksFit'
  BY <1>6 DEF DequeueLock
<1>7. ASSUME NEW w \in Workers, DequeueTimesOut(w)  PROVE MarksFit'
  BY <1>7 DEF DequeueTimesOut
<1>8. ASSUME NEW w \in Workers, DequeueEmpty(w)  PROVE MarksFit'
  BY <1>8 DEF DequeueEmpty
<1>9. ASSUME NEW w \in Workers, DequeueSkip(w)  PROVE MarksFit'
  BY <1>9 DEF DequeueSkip
<1>10. ASSUME NEW w \in Workers, DequeueGet(w)  PROVE MarksFit'
  BY <1>10 DEF DequeueGet
<1>11. ASSUME NEW w \in Workers, DequeueRemove(w)  PROVE MarksFit'
  BY <1>11 DEF DequeueRemove
<1>12. ASSUME NEW w \in Workers, DequeueAdvance(w)  PROVE MarksFit'
  BY <1>12 DEF DequeueAdvance
<1>13. ASSUME NEW w \in Workers, ServerOf[w] \in up, MarkAsProcessing(w)  PROVE MarksFit'
  BY <1>13 DEF MarkAsProcessing
<1>14. ASSUME NEW w \in Workers, MarkFails(w)  PROVE MarksFit'
  BY <1>14 DEF MarkFails
<1>15. ASSUME NEW w \in Workers, Perform(w)  PROVE MarksFit'
  BY <1>15 DEF Perform
<1>16. ASSUME NEW w \in Workers, GiveUp(w)  PROVE MarksFit'
  BY <1>16 DEF GiveUp
<1>17. ASSUME NEW w \in Workers, Clear(w)  PROVE MarksFit'
  BY <1>17 DEF Clear
<1>18. ASSUME NEW w \in Workers, ClearThrows(w)  PROVE MarksFit'
  BY <1>18 DEF ClearThrows
<1>19. ASSUME NEW w \in Workers, Renew(w)  PROVE MarksFit'
  BY <1>19 DEF Renew
<1>20. ASSUME NEW a \in Workers \cup Servers, RequeueLock(a)  PROVE MarksFit'
  BY <1>20 DEF RequeueLock
<1>21. ASSUME NEW a \in Workers \cup Servers, RequeueItem(a)  PROVE MarksFit'
  BY <1>21 DEF RequeueItem
<1>22. ASSUME NEW a \in Workers \cup Servers, RequeueHead(a)  PROVE MarksFit'
  BY <1>22 DEF RequeueHead
<1>23. ASSUME NEW a \in Workers \cup Servers, RequeueTimesOut(a)  PROVE MarksFit'
  BY <1>23 DEF RequeueTimesOut
<1>24. ASSUME NEW s \in Servers, TakeStale(s)  PROVE MarksFit'
  BY <1>24 DEF TakeStale
<1>25. ASSUME NEW s \in Servers, RequeueNext(s)  PROVE MarksFit'
  BY <1>25 DEF RequeueNext
<1>26. ASSUME NEW s \in Servers, AnnounceServer(s)  PROVE MarksFit'
  BY <1>26 DEF AnnounceServer
<1>27. ASSUME NEW s \in Servers, RemoveTimedOutServer(s)  PROVE MarksFit'
  BY <1>27 DEF RemoveTimedOutServer
<1>28. ASSUME NEW s \in Servers, Crash(s)  PROVE MarksFit'
  BY <1>28 DEF Crash
<1>29. ASSUME NEW s \in Servers, NEW j \in Jobs, GoStale(s, j)  PROVE MarksFit'
  BY <1>29 DEF GoStale
<1>30. ASSUME NEW a \in Actors, CallFails(a)  PROVE MarksFit'
  BY <1>30 DEF CallFails
<1>31. ASSUME LeaseEnds  PROVE MarksFit'
  BY <1>31 DEF LeaseEnds
<1> HIDE JobQueueAssumption
    DEF MarksFit, up, Shape, TypeOK, ControlFits, HandsFit, Carriers, CarryPCs,
        EnqueuePCs, ClientPCs, DequeuePCs, RequeuePCs, Actors, Goto, Entry, Fault,
        PutBack, queueVars, lockVars, serverVars, actorVars, past, vars
<1>32. ASSUME NEW a \in Actors, EnqueueStep(a)  PROVE MarksFit'
  BY <1>2, <1>3, <1>4, <1>32 DEF EnqueueStep
<1>33. ASSUME NEW a \in Workers \cup Servers, RequeueStep(a)  PROVE MarksFit'
  <2>1. a \in Actors
    BY DEF Actors
  <2> QED
    BY <1>20, <1>21, <1>22, <1>23, <1>32, <1>33, <2>1 DEF RequeueStep
<1>34. ASSUME NEW w \in Workers, ServerOf[w] \in up, DequeueStep(w)  PROVE MarksFit'
  BY <1>5, <1>6, <1>7, <1>8, <1>9, <1>10, <1>11, <1>12, <1>13, <1>34 DEF DequeueStep
<1>35. ASSUME NEW w \in Workers, WorkerStep(w) \/ Mishap(w)  PROVE MarksFit'
  <2>1. CASE WorkerStep(w)
    BY <1>15, <1>17, <1>33, <1>34, <2>1 DEF WorkerStep
  <2>2. CASE Mishap(w)
    BY <1>14, <1>16, <1>18, <1>19, <2>2 DEF Mishap
  <2> QED
    BY <1>35, <2>1, <2>2
<1>36. ASSUME NEW s \in Servers, WatcherStep(s)  PROVE MarksFit'
  BY <1>24, <1>25, <1>33, <1>36 DEF WatcherStep
<1> QED
  BY <1>1, <1>26, <1>27, <1>28, <1>29, <1>30, <1>31, <1>32, <1>35, <1>36 DEF Next, Actors

(* An entry stays what it is when it is not removed, nobody new is about *)
(* to remove it and who had its job goes on with it. *)
LEMMA EntryStays ==
  ASSUME NEW s \in Servers, NEW i \in Jobs, Entered(s, i),
         processing'[s][i] # "none",
         \A v \in Workers : Wipes(v, s, i)' => Wipes(v, s, i),
         \A v \in Workers : Keeps(v, s, i) => Keeps(v, s, i)'
  PROVE  Entered(s, i)'
BY DEF Entered

(* The others stay as they are, and what was performed or dropped too. *)
OnlyMoves(a) ==
  /\ \A b \in Actors : b # a => pc'[b] = pc[b]
  /\ \A b \in Carriers : b # a => hand'[b] = hand[b]
  /\ \A v \in Workers : v # a => marked'[v] = marked[v]
  /\ \A s \in Servers : s # a => todo'[s] = todo[s]
  /\ done \subseteq done' /\ dropped \subseteq dropped'

(* When one actor moves, a job stays stored if it stays so where the actor *)
(* itself had it, or could take it away.                                   *)
LEMMA OneMoves ==
  ASSUME NEW a \in Actors, NEW i \in Jobs, Stored(i),
         OnlyMoves(a),
         Queued(i) => Stored(i)',
         a \in Workers =>
           /\ pc[a] \in {"advance", "mark"} \cup RequeuePCs /\ ~marked[a] /\ hand[a] = i
              => Stored(i)'
           /\ \A s \in Servers : Wipes(a, s, i)' => Wipes(a, s, i) \/ Stored(i)'
           /\ \A s \in Servers :
                Entered(s, i) /\ Keeps(a, s, i) => Keeps(a, s, i)' \/ Stored(i)',
         a \in Servers =>
           (i \in todo[a] \/ (pc[a] \in RequeuePCs /\ hand[a] = i) => Stored(i)'),
         \A s \in Servers : Entered(s, i) => processing'[s][i] # "none" \/ Stored(i)'
  PROVE  Stored(i)'
<1> USE DEF Actors, Carriers, OnlyMoves
<1>1. CASE i \in done \cup dropped
  BY <1>1 DEF Stored
<1>2. CASE InHand(i)
  <2>1. PICK w \in Workers :
          pc[w] \in {"advance", "mark"} \cup RequeuePCs /\ ~marked[w] /\ hand[w] = i
    BY <1>2 DEF InHand
  <2>2. CASE w = a
    BY <2>1, <2>2
  <2>3. CASE w # a
    <3>1. InHand(i)'
      BY <2>1, <2>3 DEF InHand
    <3> QED  BY <3>1 DEF Stored
  <2> QED  BY <2>2, <2>3
<1>3. CASE WithWatcher(i)
  <2>1. PICK s \in Servers : i \in todo[s] \/ (pc[s] \in RequeuePCs /\ hand[s] = i)
    BY <1>3 DEF WithWatcher
  <2>2. CASE s = a
    BY <2>1, <2>2
  <2>3. CASE s # a
    <3>1. WithWatcher(i)'
      BY <2>1, <2>3 DEF WithWatcher
    <3> QED  BY <3>1 DEF Stored
  <2> QED  BY <2>2, <2>3
<1>4. ASSUME NEW s \in Servers, Entered(s, i)  PROVE Stored(i)'
  <2>1. ASSUME NEW v \in Workers, Wipes(v, s, i)'  PROVE Wipes(v, s, i) \/ Stored(i)'
    <3>1. CASE v = a
      BY <2>1, <3>1
    <3>2. CASE v # a
      BY <2>1, <3>2 DEF Wipes
    <3> QED  BY <3>1, <3>2
  <2>2. ASSUME NEW v \in Workers, Keeps(v, s, i)  PROVE Keeps(v, s, i)' \/ Stored(i)'
    <3>1. CASE v = a
      BY <1>4, <2>2, <3>1
    <3>2. CASE v # a
      BY <2>2, <3>2 DEF Keeps
    <3> QED  BY <3>1, <3>2
  <2>3. processing'[s][i] # "none" \/ Stored(i)'
    BY <1>4
  <2>4. Entered(s, i)' \/ Stored(i)'
    BY <1>4, <2>1, <2>2, <2>3, EntryStays
  <2> QED  BY <2>4 DEF Stored
<1> QED  BY <1>1, <1>2, <1>3, <1>4 DEF Stored

(* A worker that is not marked keeps no entry, and removes one only when   *)
(* it is about to.                                                         *)
LEMMA NeitherWipesNorKeeps ==
  ASSUME NEW w \in Workers, NEW i \in Jobs, pc'[w] # "unmark", ~marked[w]
  PROVE  \A s \in Servers : ~Wipes(w, s, i)' /\ ~Keeps(w, s, i)
BY DEF Wipes, Keeps

(* A worker that stops running its job and goes to requeue it leaves the   *)
(* job where it is: in its hand, or in the processing set.                 *)
LEMMA RequeueBegins ==
  ASSUME NEW w \in Workers, Shape, EnqueuedIsStored,
         pc[w] \in {"run", "clear"}, Goto(w, "reqLock"),
         UNCHANGED <<queueVars, processing, hand, marked, todo, done, dropped>>
  PROVE  EnqueuedIsStored'
<1>1. /\ w \in Actors /\ w \notin Jobs /\ w \notin Servers
      /\ pc' = [pc EXCEPT ![w] = "reqLock"] /\ DOMAIN pc = Actors
  BY JobQueueAssumption DEF Actors, Shape, TypeOK, Goto
<1>2. pc'[w] = "reqLock" /\ \A a \in Actors \ {w} : pc'[a] = pc[a]
  BY <1>1
<1>3. Workers \subseteq Actors /\ Servers \subseteq Actors /\ Jobs \subseteq Actors
  BY DEF Actors
<1>4. SUFFICES ASSUME NEW i \in Jobs, Stored(i)
               PROVE  Stored(i)'
  BY <1>1, <1>2, <1>3 DEF EnqueuedIsStored
<1>5. CASE i \in done \cup dropped
  BY <1>5 DEF Stored
<1>6. CASE Queued(i)
  BY <1>6 DEF Stored, Queued, queueVars
<1>7. CASE InHand(i)
  BY <1>2, <1>3, <1>7 DEF Stored, InHand, RequeuePCs
<1>8. CASE WithWatcher(i)
  BY <1>1, <1>2, <1>3, <1>8 DEF Stored, WithWatcher
<1>9. ASSUME NEW s \in Servers, Entered(s, i)
      PROVE  Stored(i)'
  <2>1. \A v \in Workers : Wipes(v, s, i)' => Wipes(v, s, i)
    BY <1>2, <1>3 DEF Wipes
  <2>2. \A v \in Workers : Keeps(v, s, i) => Keeps(v, s, i)'
    BY <1>2, <1>3 DEF Keeps
  <2>3. Entered(s, i)'
    BY <1>9, <2>1, <2>2 DEF Entered
  <2> QED
    BY <2>3 DEF Stored
<1> QED
  BY <1>4, <1>5, <1>6, <1>7, <1>8, <1>9 DEF Stored

(* A step that concerns neither the queue nor the actors loses no job. *)
LEMMA NothingMoves ==
  ASSUME EnqueuedIsStored,
         UNCHANGED <<queueVars, processing, pc, hand, marked, todo, done, dropped>>
  PROVE  EnqueuedIsStored'
BY DEF EnqueuedIsStored, Stored, Queued, InHand, WithWatcher, Entered, Wipes, Keeps, queueVars

(* A worker that neither has a job nor gets one takes none away. *)
LEMMA FreeWorkerStep ==
  ASSUME NEW w \in Workers, NEW i \in Jobs, NEW l, Shape, MarksFit, Stored(i),
         Goto(w, l),
         {pc[w], l} \cap ({"advance", "mark", "run", "clear", "unmark"} \cup RequeuePCs) = {},
         \A v \in Workers \cup Servers : v # w => hand'[v] = hand[v],
         Queued(i) => Queued(i)',
         UNCHANGED <<processing, marked, todo, done, dropped>>
  PROVE  Stored(i)'
<1>1. pc[w] \notin {"advance", "mark", "run", "clear", "unmark"} \cup RequeuePCs
  OBVIOUS
<1>2. pc'[w] \notin {"advance", "mark", "run", "clear", "unmark"} \cup RequeuePCs
  BY DEF Shape, TypeOK, Goto, Actors
<1>3. \A a \in Actors : a # w => pc'[a] = pc[a]
  BY DEF Shape, TypeOK, Goto, Actors
<1>4. w \in Actors /\ w \notin Servers
  BY JobQueueAssumption DEF Actors
<1>5. \A s \in Servers : ~Wipes(w, s, i)' /\ ~Keeps(w, s, i)
  BY <1>1, <1>2 DEF Wipes, Keeps, MarksFit
<1>6. \A s \in Servers : Entered(s, i) => processing'[s][i] # "none"
  BY DEF Entered
<1>7. Queued(i) => Stored(i)'
  BY DEF Stored
<1>8. OnlyMoves(w)
  BY <1>3, <1>4 DEF OnlyMoves, Carriers
<1> QED  BY <1>1, <1>4, <1>5, <1>6, <1>7, <1>8, OneMoves

(* What the watcher does to the set it found stale entries in. *)
LEMMA StaleTaken ==
  ASSUME NEW s \in Servers, TakeStale(s)
  PROVE  \E t \in known :
           /\ pc[s] = "idle"
           /\ todo[s] = {}
           /\ processing' = [processing EXCEPT ![t] =
                [j \in Jobs |-> IF j \in {k \in Jobs : processing[t][k] = "stale"}
                                 THEN "none" ELSE @[j]]]
           /\ todo' = [todo EXCEPT ![s] = {j \in Jobs : processing[t][j] = "stale"}]
BY DEF TakeStale

(* Every step leaves a job that was enqueued somewhere: what takes it from *)
(* one place has put it into another, or it is dropped.                    *)
LEMMA StoredKept ==
  ASSUME Shape, HeadGuarded, TailGuarded, SlotsFit, MarksFit, EnqueuedIsStored, Next
  PROVE  EnqueuedIsStored'
<1> USE JobQueueAssumption, SlotsType
    DEF EnqueuedIsStored, Stored, Queued, InHand, WithWatcher, Entered, Keeps, Wipes,
        SlotsFit, HeadGuarded, TailGuarded, MarksFit, JobOf, Shape, TypeOK, ControlFits,
        HandsFit, Carriers, CarryPCs, EnqueuePCs, ClientPCs, DequeuePCs, RequeuePCs,
        Actors, Goto, Entry, Fault, PutBack, queueVars, lockVars, serverVars, actorVars,
        past, vars
<1>1. ASSUME NEW j \in Jobs, StartEnqueue(j)  PROVE EnqueuedIsStored'
  BY <1>1 DEF StartEnqueue
<1>2. ASSUME NEW a \in Actors, EnqueueLock(a)  PROVE EnqueuedIsStored'
  BY <1>2 DEF EnqueueLock
<1>3. ASSUME NEW a \in Actors, EnqueueItem(a)  PROVE EnqueuedIsStored'
  BY <1>3 DEF EnqueueItem
<1>4. ASSUME NEW a \in Actors, EnqueueTail(a)  PROVE EnqueuedIsStored'
  <2> SUFFICES ASSUME NEW i \in Jobs, pc'[i] = "sent"  PROVE Stored(i)'
    BY DEF EnqueuedIsStored
  <2>1. /\ JobOf(a) \in Jobs
        /\ tail \in head' .. tail' - 1
        /\ item'[tail] = JobOf(a)
        /\ \A k \in head .. tail - 1 : k \in head' .. tail' - 1 /\ item'[k] = item[k]
    BY <1>4 DEF EnqueueTail
  <2>2. JobOf(a) = i \/ Queued(i) => Stored(i)'
    BY <2>1 DEF Queued, Stored
  <2>3. a = i \/ (pc[i] = "sent" /\ Stored(i))
    BY <1>4 DEF EnqueueTail, EnqueuedIsStored
  <2>4. a = i => Stored(i)'
    BY <2>2 DEF JobOf
  <2>5. OnlyMoves(a)
    BY <1>4 DEF EnqueueTail, OnlyMoves
  <2>6. a \in Workers =>
          \A s \in Servers : (Wipes(a, s, i)' => Stored(i)') /\ (Keeps(a, s, i) => Stored(i)')
    <3>1. a \in Workers => JobOf(a) = hand[a]
      BY DEF JobOf
    <3>2. a \in Workers /\ hand'[a] = i /\ pc'[a] = "unmark" => hand[a] = i
      BY <1>4 DEF EnqueueTail
    <3> QED  BY <2>2, <3>1, <3>2 DEF Wipes, Keeps
  <2>7. a \in Workers \cup Servers /\ hand[a] = i => Stored(i)'
    BY <2>2 DEF JobOf
  <2>8. a \in Servers /\ i \in todo[a] => Stored(i)'
    BY <1>4 DEF EnqueueTail, Stored, WithWatcher
  <2>9. \A s \in Servers : Entered(s, i) => processing'[s][i] # "none"
    BY <1>4 DEF EnqueueTail, Entered
  <2> HIDE DEF Stored, Queued, Wipes, Keeps, Entered, RequeuePCs
  <2> QED  BY <2>2, <2>3, <2>4, <2>5, <2>6, <2>7, <2>8, <2>9, OneMoves
<1>5. ASSUME NEW w \in Workers, Wake(w)  PROVE EnqueuedIsStored'
  <2> SUFFICES ASSUME NEW i \in Jobs, pc'[i] = "sent"  PROVE Stored(i)'
    BY DEF EnqueuedIsStored
  <2>1. Stored(i)
    BY <1>5 DEF EnqueuedIsStored, Wake
  <2>2. Queued(i) => Queued(i)'
    BY <1>5 DEF Queued, Wake
  <2> HIDE DEF Stored, Queued, Shape, MarksFit, Goto, RequeuePCs
  <2> QED  BY <1>5, <2>1, <2>2, FreeWorkerStep DEF Wake, RequeuePCs
<1>6. ASSUME NEW w \in Workers, DequeueLock(w)  PROVE EnqueuedIsStored'
  <2> SUFFICES ASSUME NEW i \in Jobs, pc'[i] = "sent"  PROVE Stored(i)'
    BY DEF EnqueuedIsStored
  <2>1. Stored(i)
    BY <1>6 DEF EnqueuedIsStored, DequeueLock
  <2>2. Queued(i) => Queued(i)'
    BY <1>6 DEF Queued, DequeueLock
  <2> HIDE DEF Stored, Queued, Shape, MarksFit, Goto, RequeuePCs
  <2> QED  BY <1>6, <2>1, <2>2, FreeWorkerStep DEF DequeueLock, RequeuePCs
<1>7. ASSUME NEW w \in Workers, DequeueTimesOut(w)  PROVE EnqueuedIsStored'
  <2> SUFFICES ASSUME NEW i \in Jobs, pc'[i] = "sent"  PROVE Stored(i)'
    BY DEF EnqueuedIsStored
  <2>1. Stored(i)
    BY <1>7 DEF EnqueuedIsStored, DequeueTimesOut
  <2>2. Queued(i) => Queued(i)'
    BY <1>7 DEF Queued, DequeueTimesOut
  <2> HIDE DEF Stored, Queued, Shape, MarksFit, Goto, RequeuePCs
  <2> QED  BY <1>7, <2>1, <2>2, FreeWorkerStep DEF DequeueTimesOut, RequeuePCs
<1>8. ASSUME NEW w \in Workers, DequeueEmpty(w)  PROVE EnqueuedIsStored'
  <2> SUFFICES ASSUME NEW i \in Jobs, pc'[i] = "sent"  PROVE Stored(i)'
    BY DEF EnqueuedIsStored
  <2>1. Stored(i)
    BY <1>8 DEF EnqueuedIsStored, DequeueEmpty
  <2>2. Queued(i) => Queued(i)'
    BY <1>8 DEF Queued, DequeueEmpty
  <2> HIDE DEF Stored, Queued, Shape, MarksFit, Goto, RequeuePCs
  <2> QED  BY <1>8, <2>1, <2>2, FreeWorkerStep DEF DequeueEmpty, RequeuePCs
<1>9. ASSUME NEW w \in Workers, DequeueSkip(w)  PROVE EnqueuedIsStored'
  <2> SUFFICES ASSUME NEW i \in Jobs, pc'[i] = "sent"  PROVE Stored(i)'
    BY DEF EnqueuedIsStored
  <2>1. Stored(i)
    BY <1>9 DEF EnqueuedIsStored, DequeueSkip
  <2>2. ASSUME Queued(i)  PROVE Queued(i)'
    <3>1. PICK k \in head .. tail - 1 : item[k] = i
      BY <2>2 DEF Queued
    <3>2. k # head
      BY <1>9, <3>1 DEF DequeueSkip
    <3>3. k \in head' .. tail' - 1 /\ item'[k] = i
      BY <1>9, <3>1, <3>2 DEF DequeueSkip
    <3> QED  BY <3>3 DEF Queued
  <2> HIDE DEF Stored, Queued, Shape, MarksFit, Goto, RequeuePCs
  <2> QED  BY <1>9, <2>1, <2>2, FreeWorkerStep DEF DequeueSkip, RequeuePCs
<1>10. ASSUME NEW w \in Workers, DequeueGet(w)  PROVE EnqueuedIsStored'
  <2> SUFFICES ASSUME NEW i \in Jobs, pc'[i] = "sent"  PROVE Stored(i)'
    BY DEF EnqueuedIsStored
  <2>1. Stored(i)
    BY <1>10 DEF EnqueuedIsStored, DequeueGet
  <2>2. Queued(i) => Queued(i)'
    BY <1>10 DEF Queued, DequeueGet
  <2> HIDE DEF Stored, Queued, Shape, MarksFit, Goto, RequeuePCs
  <2> QED  BY <1>10, <2>1, <2>2, FreeWorkerStep DEF DequeueGet, RequeuePCs
<1>11. ASSUME NEW w \in Workers, DequeueRemove(w)  PROVE EnqueuedIsStored'
  <2> SUFFICES ASSUME NEW i \in Jobs, pc'[i] = "sent"  PROVE Stored(i)'
    BY DEF EnqueuedIsStored
  <2>1. Stored(i) /\ w \in Actors /\ w \notin Servers
    BY <1>11 DEF EnqueuedIsStored, DequeueRemove
  <2>2. ASSUME Queued(i)  PROVE Stored(i)'
    <3>1. PICK k \in head .. tail - 1 : item[k] = i
      BY <2>2 DEF Queued
    <3>2. CASE k = head
      <4>1. pc'[w] = "advance" /\ ~marked'[w] /\ hand'[w] = i
        BY <1>11, <3>1, <3>2 DEF DequeueRemove
      <4> QED  BY <4>1 DEF Stored, InHand
    <3>3. CASE k # head
      <4>1. k \in head' .. tail' - 1 /\ item'[k] = i
        BY <1>11, <3>1, <3>3 DEF DequeueRemove
      <4> QED  BY <4>1 DEF Stored, Queued
    <3> QED  BY <3>2, <3>3
  <2>3. \A s \in Servers : ~Wipes(w, s, i)' /\ ~Keeps(w, s, i)
    <3>1. pc'[w] = "advance" /\ ~marked[w]
      BY <1>11 DEF DequeueRemove
    <3> QED  BY <3>1, NeitherWipesNorKeeps
  <2>4. \A s \in Servers : Entered(s, i) => processing'[s][i] # "none"
    BY <1>11 DEF DequeueRemove, Entered
  <2>5. pc[w] \notin {"advance", "mark"} \cup RequeuePCs
    BY <1>11 DEF DequeueRemove
  <2>7. OnlyMoves(w)
    BY <1>11 DEF DequeueRemove, OnlyMoves
  <2> HIDE DEF Stored, Queued, Wipes, Keeps, Entered, RequeuePCs
  <2> QED  BY <2>1, <2>2, <2>3, <2>4, <2>5, <2>7, OneMoves
<1>12. ASSUME NEW w \in Workers, DequeueAdvance(w)  PROVE EnqueuedIsStored'
  <2> SUFFICES ASSUME NEW i \in Jobs, pc'[i] = "sent"  PROVE Stored(i)'
    BY DEF EnqueuedIsStored
  <2>1. Stored(i) /\ w \in Actors /\ w \notin Servers
    BY <1>12 DEF EnqueuedIsStored, DequeueAdvance
  <2>2. ASSUME Queued(i)  PROVE Stored(i)'
    <3>1. PICK k \in head .. tail - 1 : item[k] = i
      BY <2>2 DEF Queued
    <3>2. k # head
      BY <1>12, <3>1 DEF DequeueAdvance
    <3>3. k \in head' .. tail' - 1 /\ item'[k] = i
      BY <1>12, <3>1, <3>2 DEF DequeueAdvance
    <3> QED  BY <3>3 DEF Stored, Queued
  <2>3. \A s \in Servers : ~Wipes(w, s, i)' /\ ~Keeps(w, s, i)
    <3>1. pc'[w] = "mark" /\ ~marked[w]
      BY <1>12 DEF DequeueAdvance
    <3> QED  BY <3>1, NeitherWipesNorKeeps
  <2>4. \A s \in Servers : Entered(s, i) => processing'[s][i] # "none"
    BY <1>12 DEF DequeueAdvance, Entered
  <2>5. hand[w] = i => Stored(i)'
    <3>1. pc'[w] = "mark" /\ ~marked'[w] /\ hand'[w] = hand[w]
      BY <1>12 DEF DequeueAdvance
    <3> QED  BY <3>1 DEF Stored, InHand
  <2>7. OnlyMoves(w)
    BY <1>12 DEF DequeueAdvance, OnlyMoves
  <2> HIDE DEF Stored, Queued, Wipes, Keeps, Entered, RequeuePCs
  <2> QED  BY <2>1, <2>2, <2>3, <2>4, <2>5, <2>7, OneMoves
<1>13. ASSUME NEW w \in Workers, ServerOf[w] \in up,
              MarkAsProcessing(w)  PROVE EnqueuedIsStored'
  <2> SUFFICES ASSUME NEW i \in Jobs, pc'[i] = "sent"  PROVE Stored(i)'
    BY DEF EnqueuedIsStored
  <2>1. Stored(i) /\ w \in Actors /\ w \notin Servers /\ ServerOf[w] \in Servers /\ hand[w] \in Jobs
    BY <1>13 DEF EnqueuedIsStored, MarkAsProcessing
  <2>2. Queued(i) => Queued(i)'
    BY <1>13 DEF MarkAsProcessing, Queued
  <2>3. \A s \in Servers : ~Wipes(w, s, i)' /\ ~Keeps(w, s, i)
    <3>1. pc'[w] = "run" /\ ~marked[w]
      BY <1>13 DEF MarkAsProcessing
    <3> QED  BY <3>1, NeitherWipesNorKeeps
  <2>4. \A s \in Servers : Entered(s, i) => processing'[s][i] # "none"
    BY <1>13, <2>1 DEF MarkAsProcessing, Entered
  <2>5. hand[w] = i => Stored(i)'
    <3> SUFFICES ASSUME hand[w] = i  PROVE Entered(ServerOf[w], i)'
      BY <2>1 DEF Stored
    <3>1. Keeps(w, ServerOf[w], i)'
      BY <1>13 DEF MarkAsProcessing, Keeps
    <3>2. processing'[ServerOf[w]][i] = "fresh"
      BY <1>13, <2>1 DEF MarkAsProcessing
    <3> QED  BY <3>1, <3>2 DEF Entered
  <2>6. Queued(i) => Stored(i)'
    BY <2>2 DEF Stored
  <2>7. OnlyMoves(w)
    BY <1>13 DEF MarkAsProcessing, OnlyMoves
  <2> HIDE DEF Stored, Queued, Wipes, Keeps, Entered, RequeuePCs
  <2> QED  BY <2>1, <2>3, <2>4, <2>5, <2>6, <2>7, OneMoves
<1>14. ASSUME NEW w \in Workers, MarkFails(w)  PROVE EnqueuedIsStored'
  <2> SUFFICES ASSUME NEW i \in Jobs, pc'[i] = "sent"  PROVE Stored(i)'
    BY DEF EnqueuedIsStored
  <2>1. Stored(i) /\ w \in Actors /\ w \notin Servers /\ ServerOf[w] \in Servers /\ hand[w] \in Jobs
    BY <1>14 DEF EnqueuedIsStored, MarkFails
  <2>2. Queued(i) => Queued(i)'
    BY <1>14 DEF MarkFails, Queued
  <2>3. \A s \in Servers : ~Wipes(w, s, i)' /\ ~Keeps(w, s, i)
    <3>1. pc'[w] = "reqLock" /\ ~marked[w]
      BY <1>14 DEF MarkFails
    <3> QED  BY <3>1, NeitherWipesNorKeeps
  <2>4. ASSUME NEW s \in Servers, Entered(s, i)  PROVE processing'[s][i] # "none"
    <3>1. CASE UNCHANGED processing
      BY <2>4, <3>1 DEF Entered
    <3>2. CASE Entry(ServerOf[w], hand[w], "fresh")
      BY <2>1, <2>4, <3>2 DEF Entered
    <3> QED  BY <1>14, <3>1, <3>2 DEF MarkFails
  <2>5. hand[w] = i => Stored(i)'
    <3>1. pc'[w] = "reqLock" /\ ~marked'[w] /\ hand'[w] = hand[w]
      BY <1>14 DEF MarkFails
    <3> QED  BY <3>1 DEF Stored, InHand
  <2>6. Queued(i) => Stored(i)'
    BY <2>2 DEF Stored
  <2>7. OnlyMoves(w)
    BY <1>14 DEF MarkFails, OnlyMoves
  <2> HIDE DEF Stored, Queued, Wipes, Keeps, Entered, RequeuePCs
  <2> QED  BY <2>1, <2>3, <2>4, <2>5, <2>6, <2>7, OneMoves
<1>15. ASSUME NEW w \in Workers, Perform(w)  PROVE EnqueuedIsStored'
  BY <1>15 DEF Perform
<1>16. ASSUME NEW w \in Workers, GiveUp(w)  PROVE EnqueuedIsStored'
  <2>1. /\ pc[w] \in {"run", "clear"} /\ Goto(w, "reqLock")
        /\ UNCHANGED <<queueVars, processing, hand, marked, todo, done, dropped>>
    BY <1>16 DEF GiveUp
  <2> HIDE DEF EnqueuedIsStored, Shape, Goto, queueVars
  <2> QED  BY <2>1, RequeueBegins
<1>17. ASSUME NEW w \in Workers, Clear(w)  PROVE EnqueuedIsStored'
  <2> SUFFICES ASSUME NEW i \in Jobs, pc'[i] = "sent"  PROVE Stored(i)'
    BY DEF EnqueuedIsStored
  <2>1. Stored(i) /\ w \in Actors /\ w \notin Servers /\ ServerOf[w] \in Servers /\ hand[w] \in Jobs
    BY <1>17 DEF EnqueuedIsStored, Clear
  <2>2. Queued(i) => Stored(i)'
    BY <1>17 DEF Clear, Queued, Stored
  <2>3. \A s \in Servers : ~Wipes(w, s, i)' /\ (Keeps(w, s, i) => Stored(i)')
    <3>1. \A s \in Servers : ~Wipes(w, s, i)'
      BY <1>17 DEF Clear, Wipes
    <3>2. \A s \in Servers : Keeps(w, s, i) => i \in done'
      BY <1>17 DEF Clear, Keeps
    <3> QED  BY <3>1, <3>2 DEF Stored
  <2>4. ASSUME NEW s \in Servers, Entered(s, i)  PROVE processing'[s][i] # "none" \/ Stored(i)'
    <3>1. CASE UNCHANGED processing
      BY <2>4, <3>1 DEF Entered
    <3>2. CASE Entry(ServerOf[w], hand[w], "none") /\ ~(s = ServerOf[w] /\ i = hand[w])
      BY <2>1, <2>4, <3>2 DEF Entered
    <3>3. CASE s = ServerOf[w] /\ i = hand[w] /\ pc[w] = "clear"
      BY <1>17, <3>3 DEF Clear, Stored
    <3>4. CASE Entry(ServerOf[w], hand[w],
        "none") /\ s = ServerOf[w] /\ i = hand[w] /\ pc[w] = "unmark"
      <4>1. Wipes(w, s, i)
        BY <3>4 DEF Wipes
      <4>2. PICK v \in Workers : Keeps(v, s, i)
        BY <2>4, <4>1 DEF Entered
      <4>3. Shares(w, v) /\ marked[v] /\ pc[v] # "unmark"
        BY <3>4, <4>2 DEF Keeps, Shares
      <4>4. i \in dropped' \/ UNCHANGED processing
        BY <1>17, <3>4, <4>3 DEF Clear
      <4> QED  BY <3>1, <4>4 DEF Stored
    <3> QED  BY <1>17, <3>1, <3>2, <3>3, <3>4 DEF Clear
  <2>5. pc[w] \notin {"advance", "mark"} \cup RequeuePCs
    BY <1>17 DEF Clear
  <2>6. OnlyMoves(w)
    BY <1>17 DEF Clear, OnlyMoves
  <2> HIDE DEF Stored, Queued, Wipes, Keeps, Entered, RequeuePCs
  <2> QED  BY <2>1, <2>2, <2>3, <2>4, <2>5, <2>6, OneMoves
<1>18. ASSUME NEW w \in Workers, ClearThrows(w)  PROVE EnqueuedIsStored'
  <2>1. /\ pc[w] \in {"run", "clear"} /\ Goto(w, "reqLock")
        /\ UNCHANGED <<queueVars, processing, hand, marked, todo, done, dropped>>
    BY <1>18 DEF ClearThrows
  <2> HIDE DEF EnqueuedIsStored, Shape, Goto, queueVars
  <2> QED  BY <2>1, RequeueBegins
<1>19. ASSUME NEW w \in Workers, Renew(w)  PROVE EnqueuedIsStored'
  <2> SUFFICES ASSUME NEW i \in Jobs, pc'[i] = "sent"  PROVE Stored(i)'
    BY DEF EnqueuedIsStored
  <2>1. Stored(i) /\ ServerOf[w] \in Servers /\ hand[w] \in Jobs
    BY <1>19 DEF EnqueuedIsStored, Renew
  <2>2. \A s \in Servers : processing[s][i] # "none" => processing'[s][i] # "none"
    BY <1>19, <2>1 DEF Renew
  <2>3. ASSUME NEW s \in Servers, Entered(s, i)  PROVE Entered(s, i)'
    BY <1>19, <2>2, <2>3 DEF Renew, Entered, Wipes, Keeps
  <2> QED  BY <1>19, <2>1, <2>3 DEF Renew, Stored, Queued, InHand, WithWatcher
<1>20. ASSUME NEW a \in Workers \cup Servers, RequeueLock(a)  PROVE EnqueuedIsStored'
  BY <1>20 DEF RequeueLock
<1>21. ASSUME NEW a \in Workers \cup Servers, RequeueItem(a)  PROVE EnqueuedIsStored'
  BY <1>21 DEF RequeueItem
<1>22. ASSUME NEW a \in Workers \cup Servers, RequeueHead(a)  PROVE EnqueuedIsStored'
  <2> SUFFICES ASSUME NEW i \in Jobs, pc'[i] = "sent"  PROVE Stored(i)'
    BY DEF EnqueuedIsStored
  <2>1. Stored(i) /\ a \in Actors /\ hand[a] \in Jobs /\ a \notin Jobs
    BY <1>22 DEF EnqueuedIsStored, RequeueHead
  <2>2. Queued(i) => Queued(i)'
    BY <1>22 DEF RequeueHead, Queued
  <2>3. hand[a] = i => Queued(i)'
    <3>1. head - 1 \in head' .. tail' - 1 /\ item'[head - 1] = hand[a]
      BY <1>22 DEF RequeueHead
    <3> QED  BY <2>1, <3>1 DEF Queued
  <2>4. hand[a] = i \/ Queued(i) => Stored(i)'
    BY <2>2, <2>3 DEF Stored
  <2>5. a \in Workers => \A s \in Servers : (Wipes(a, s, i)' => Stored(i)') /\ (Keeps(a, s,
      i) => Stored(i)')
    <3>1. a \in Workers /\ hand'[a] = i /\ pc'[a] = "unmark" => hand[a] = i
      BY <1>22 DEF RequeueHead
    <3> QED  BY <2>4, <3>1 DEF Wipes, Keeps
  <2>6. \A s \in Servers : Entered(s, i) => processing'[s][i] # "none"
    BY <1>22 DEF RequeueHead, Entered
  <2>7. OnlyMoves(a)
    BY <1>22 DEF RequeueHead, OnlyMoves
  <2>8. a \in Servers => (i \in todo[a] => Stored(i)')
    BY <1>22, <2>1 DEF RequeueHead, WithWatcher, Stored
  <2> HIDE DEF Stored, Queued, Wipes, Keeps, Entered, RequeuePCs
  <2> QED  BY <2>1, <2>4, <2>5, <2>6, <2>7, <2>8, OneMoves
<1>23. ASSUME NEW a \in Workers \cup Servers, RequeueTimesOut(a)  PROVE EnqueuedIsStored'
  BY <1>23 DEF RequeueTimesOut
<1>24. ASSUME NEW s \in Servers, TakeStale(s)  PROVE EnqueuedIsStored'
  <2> SUFFICES ASSUME NEW i \in Jobs, pc'[i] = "sent"  PROVE Stored(i)'
    BY DEF EnqueuedIsStored
  <2>1. PICK t \in known :
          /\ pc[s] = "idle"
          /\ todo[s] = {}
          /\ processing' = [processing EXCEPT ![t] =
               [j \in Jobs |-> IF j \in {k \in Jobs : processing[t][k] = "stale"}
                                THEN "none" ELSE @[j]]]
          /\ todo' = [todo EXCEPT ![s] = {j \in Jobs : processing[t][j] = "stale"}]
    BY <1>24, StaleTaken
  <2>2. Stored(i) /\ s \in Actors /\ s \notin Workers /\ t \in Servers
    BY <1>24 DEF EnqueuedIsStored, TakeStale
  <2>3. Queued(i) => Stored(i)'
    BY <1>24 DEF TakeStale, Queued, Stored
  <2>4. ASSUME NEW r \in Servers, Entered(r, i)  PROVE processing'[r][i] # "none" \/ Stored(i)'
    <3>1. CASE r = t /\ processing[r][i] = "stale"
      <4>1. i \in todo'[s]
        BY <2>1, <3>1
      <4> QED  BY <4>1 DEF Stored, WithWatcher
    <3>2. CASE ~(r = t /\ processing[r][i] = "stale")
      BY <2>1, <2>2, <2>4, <3>2 DEF Entered
    <3> QED  BY <3>1, <3>2
  <2>5. OnlyMoves(s)
    BY <1>24, <2>1 DEF TakeStale, OnlyMoves
  <2>6. i \notin todo[s] /\ pc[s] \notin RequeuePCs
    BY <2>1
  <2> HIDE DEF Stored, Queued, Wipes, Keeps, Entered, RequeuePCs
  <2> QED  BY <2>2, <2>3, <2>4, <2>5, <2>6, OneMoves
<1>25. ASSUME NEW s \in Servers, RequeueNext(s)  PROVE EnqueuedIsStored'
  <2> SUFFICES ASSUME NEW i \in Jobs, pc'[i] = "sent"  PROVE Stored(i)'
    BY DEF EnqueuedIsStored
  <2>1. PICK j \in todo[s] :
          /\ todo' = [todo EXCEPT ![s] = @ \ {j}]
          /\ hand' = [hand EXCEPT ![s] = j]
    BY <1>25 DEF RequeueNext
  <2>2. Stored(i) /\ s \in Actors /\ s \notin Workers
    BY <1>25 DEF EnqueuedIsStored, RequeueNext
  <2>3. Queued(i) => Stored(i)'
    BY <1>25 DEF RequeueNext, Queued, Stored
  <2>4. \A r \in Servers : Entered(r, i) => processing'[r][i] # "none"
    BY <1>25 DEF RequeueNext, Entered
  <2>5. OnlyMoves(s)
    BY <1>25, <2>1 DEF RequeueNext, OnlyMoves
  <2>6. i \in todo[s] => Stored(i)'
    <3>1. i \in todo[s] => i \in todo'[s] \/ (pc'[s] \in RequeuePCs /\ hand'[s] = i)
      BY <1>25, <2>1 DEF RequeueNext
    <3> QED  BY <3>1 DEF Stored, WithWatcher
  <2>7. pc[s] \notin RequeuePCs
    BY <1>25 DEF RequeueNext
  <2> HIDE DEF Stored, Queued, Wipes, Keeps, Entered, RequeuePCs
  <2> QED  BY <2>2, <2>3, <2>4, <2>5, <2>6, <2>7, OneMoves
<1>26. ASSUME NEW s \in Servers, AnnounceServer(s)  PROVE EnqueuedIsStored'
  <2>1. UNCHANGED <<queueVars, processing, pc, hand, marked, todo, done, dropped>>
    BY <1>26 DEF AnnounceServer
  <2> HIDE DEF EnqueuedIsStored, queueVars
  <2> QED  BY <2>1, NothingMoves
<1>27. ASSUME NEW s \in Servers, RemoveTimedOutServer(s)  PROVE EnqueuedIsStored'
  <2>1. UNCHANGED <<queueVars, processing, pc, hand, marked, todo, done, dropped>>
    BY <1>27 DEF RemoveTimedOutServer
  <2> HIDE DEF EnqueuedIsStored, queueVars
  <2> QED  BY <2>1, NothingMoves
<1>28. ASSUME NEW s \in Servers, Crash(s)  PROVE EnqueuedIsStored'
  <2> SUFFICES ASSUME NEW i \in Jobs, pc'[i] = "sent"  PROVE Stored(i)'
    BY DEF EnqueuedIsStored
  <2> DEFINE A == {s} \cup {w \in Workers : ServerOf[w] = s}
  <2>1. Stored(i)
    BY <1>28 DEF EnqueuedIsStored, Crash
  <2>2. /\ pc' = [a \in Actors |-> IF a \in A THEN "idle" ELSE pc[a]]
        /\ hand' = [a \in Carriers |-> IF a \in A THEN NoJob ELSE hand[a]]
        /\ marked' = [w \in Workers |-> marked[w] /\ w \notin A]
        /\ todo' = [todo EXCEPT ![s] = {}]
        /\ dropped' = dropped \cup UNION {Unsaved(a) : a \in A}
        /\ UNCHANGED <<head, tail, item, processing, done>>
    BY <1>28 DEF Crash
  <2>3. CASE i \in done \cup dropped \/ Queued(i)
    BY <2>2, <2>3 DEF Stored, Queued
  <2>4. CASE InHand(i)
    <3>1. PICK w \in Workers :
            pc[w] \in {"advance", "mark"} \cup RequeuePCs /\ ~marked[w] /\ hand[w] = i
      BY <2>4 DEF InHand
    <3>2. CASE w \in A
      <4>1. i \in Unsaved(w)
        BY <3>1 DEF Unsaved
      <4> QED  BY <2>2, <3>2, <4>1 DEF Stored
    <3>3. CASE w \notin A
      <4>1. InHand(i)'
        BY <2>2, <3>1, <3>3 DEF InHand
      <4> QED  BY <4>1 DEF Stored
    <3> QED  BY <3>2, <3>3
  <2>5. CASE WithWatcher(i)
    <3>1. PICK r \in Servers : i \in todo[r] \/ (pc[r] \in RequeuePCs /\ hand[r] = i)
      BY <2>5 DEF WithWatcher
    <3>2. CASE r = s
      <4>1. i \in Unsaved(s)
        BY <3>1, <3>2 DEF Unsaved
      <4> QED  BY <2>2, <4>1 DEF Stored
    <3>3. CASE r # s
      <4>1. r \in Actors /\ r \in Carriers /\ r \notin A
        BY <3>3
      <4>2. WithWatcher(i)'
        BY <2>2, <3>1, <3>3, <4>1 DEF WithWatcher
      <4> QED  BY <4>2 DEF Stored
    <3> QED  BY <3>2, <3>3
  <2>6. ASSUME NEW r \in Servers, Entered(r, i)  PROVE Entered(r, i)'
    <3>1. processing'[r][i] # "none"
      BY <2>2, <2>6 DEF Entered
    <3>2. CASE r = s
      <4>1. \A w \in Workers : ~Wipes(w, r, i)'
        BY <2>2, <3>2 DEF Wipes
      <4> QED  BY <3>1, <4>1 DEF Entered
    <3>3. CASE r # s
      <4>1. \A v \in Workers : ServerOf[v] = r => v \notin A
        BY <3>3
      <4>2. \A v \in Workers : Wipes(v, r, i)' => Wipes(v, r, i)
        BY <2>2, <4>1 DEF Wipes
      <4>3. \A v \in Workers : Keeps(v, r, i) => Keeps(v, r, i)'
        BY <2>2, <4>1 DEF Keeps
      <4> QED  BY <2>6, <3>1, <4>2, <4>3, EntryStays
    <3> QED  BY <3>2, <3>3
  <2> QED  BY <2>1, <2>3, <2>4, <2>5, <2>6 DEF Stored
<1>29. ASSUME NEW s \in Servers, NEW j \in Jobs, GoStale(s, j)  PROVE EnqueuedIsStored'
  <2> SUFFICES ASSUME NEW i \in Jobs, pc'[i] = "sent"  PROVE Stored(i)'
    BY DEF EnqueuedIsStored
  <2>1. Stored(i)
    BY <1>29 DEF EnqueuedIsStored, GoStale
  <2>2. \A r \in Servers : processing[r][i] # "none" => processing'[r][i] # "none"
    BY <1>29 DEF GoStale
  <2>3. ASSUME NEW r \in Servers, Entered(r, i)  PROVE Entered(r, i)'
    BY <1>29, <2>2, <2>3 DEF GoStale, Entered, Wipes, Keeps
  <2> QED  BY <1>29, <2>1, <2>3 DEF GoStale, Stored, Queued, InHand, WithWatcher
<1>30. ASSUME NEW a \in Actors, CallFails(a)  PROVE EnqueuedIsStored'
  <2> SUFFICES ASSUME NEW i \in Jobs, pc'[i] = "sent"  PROVE Stored(i)'
    BY DEF EnqueuedIsStored
  <2>1. pc[i] = "sent" /\ Stored(i)
    BY <1>30 DEF EnqueuedIsStored, CallFails
  <2>2. Queued(i) => Stored(i)'
    BY <1>30 DEF CallFails, Queued, Stored
  <2>3. OnlyMoves(a)
    BY <1>30 DEF CallFails, OnlyMoves
  <2>4. \A s \in Servers : Entered(s, i) => processing'[s][i] # "none"
    BY <1>30 DEF CallFails, Entered
  <2>5. ASSUME a \in Workers, pc[a] \in {"advance", "mark"} \cup RequeuePCs, ~marked[a],
      hand[a] = i
        PROVE  Stored(i)'
    <3>1. i \in Unsaved(a)
      BY <2>5 DEF Unsaved
    <3> QED  BY <1>30, <2>5, <3>1 DEF CallFails, Stored
  <2>6. ASSUME a \in Servers, i \in todo[a] \/ (pc[a] \in RequeuePCs /\ hand[a] = i)
        PROVE  Stored(i)'
    <3>1. i \in Unsaved(a)
      BY <2>6 DEF Unsaved
    <3> QED  BY <1>30, <2>6, <3>1 DEF CallFails, Stored
  <2>7. ASSUME a \in Workers, NEW s \in Servers, Wipes(a, s, i)'  PROVE FALSE
    BY <1>30, <2>7 DEF CallFails, Wipes
  <2>8. ASSUME a \in Workers, NEW s \in Servers, Entered(s, i), Keeps(a, s, i)
        PROVE  Stored(i)'
    <3>1. CASE \E v \in Workers : v # a /\ Wipes(v, s, i)
      <4>1. PICK v \in Workers : v # a /\ Wipes(v, s, i)
        BY <3>1
      <4>2. Shares(a, v) /\ pc[v] = "unmark"
        BY <2>8, <4>1 DEF Wipes, Keeps, Shares
      <4>3. i \in Exposed(a)
        BY <2>8, <4>2 DEF Exposed, Keeps
      <4> QED  BY <1>30, <2>8, <4>3 DEF CallFails, Stored
    <3>2. CASE \A v \in Workers : v # a => ~Wipes(v, s, i)
      <4>1. \A v \in Workers : ~Wipes(v, s, i)'
        BY <2>3, <2>7, <3>2 DEF OnlyMoves, Wipes
      <4>2. Entered(s, i)'
        BY <2>4, <2>8, <4>1 DEF Entered
      <4> QED  BY <4>2 DEF Stored
    <3> QED  BY <3>1, <3>2
  <2> HIDE DEF Stored, Queued, Wipes, Keeps, Entered, RequeuePCs
  <2> QED  BY <2>1, <2>2, <2>3, <2>4, <2>5, <2>6, <2>7, <2>8, OneMoves
<1>31. ASSUME LeaseEnds  PROVE EnqueuedIsStored'
  BY <1>31 DEF LeaseEnds
<1> HIDE JobQueueAssumption
    DEF EnqueuedIsStored, Stored, Queued, InHand, WithWatcher, Entered, Keeps, Wipes,
        SlotsFit, HeadGuarded, TailGuarded, MarksFit, JobOf, Shape, TypeOK,
        ControlFits, HandsFit, Carriers, CarryPCs, EnqueuePCs, ClientPCs, DequeuePCs,
        RequeuePCs, Actors, Goto, Entry, Fault, PutBack, queueVars, lockVars,
        serverVars, actorVars, past, vars
<1>32. ASSUME NEW a \in Actors, EnqueueStep(a)  PROVE EnqueuedIsStored'
  BY <1>2, <1>3, <1>4, <1>32 DEF EnqueueStep
<1>33. ASSUME NEW a \in Workers \cup Servers, RequeueStep(a)  PROVE EnqueuedIsStored'
  <2>1. a \in Actors
    BY DEF Actors
  <2> QED
    BY <1>20, <1>21, <1>22, <1>23, <1>32, <1>33, <2>1 DEF RequeueStep
<1>34. ASSUME NEW w \in Workers, ServerOf[w] \in up, DequeueStep(w)  PROVE EnqueuedIsStored'
  BY <1>5, <1>6, <1>7, <1>8, <1>9, <1>10, <1>11, <1>12, <1>13, <1>34 DEF DequeueStep
<1>35. ASSUME NEW w \in Workers, WorkerStep(w) \/ Mishap(w)  PROVE EnqueuedIsStored'
  <2>1. CASE WorkerStep(w)
    BY <1>15, <1>17, <1>33, <1>34, <2>1 DEF WorkerStep
  <2>2. CASE Mishap(w)
    BY <1>14, <1>16, <1>18, <1>19, <2>2 DEF Mishap
  <2> QED
    BY <1>35, <2>1, <2>2
<1>36. ASSUME NEW s \in Servers, WatcherStep(s)  PROVE EnqueuedIsStored'
  BY <1>24, <1>25, <1>33, <1>36 DEF WatcherStep
<1> QED
  BY <1>1, <1>26, <1>27, <1>28, <1>29, <1>30, <1>31, <1>32, <1>35, <1>36 DEF Next, Actors

(* Where a job is, with a name for each kind of place.  A fetched job is   *)
(* where its entry is.                                                     *)
Places(j) ==
       ({"client"} \X {a \in {j} : pc[a] \in {"new"} \cup EnqueuePCs})
  \cup ({"slot"} \X {k \in head .. tail - 1 : item[k] = j})
  \cup ({"hand"} \X
          {a \in Carriers : pc[a] \in {"advance", "mark"} \cup RequeuePCs /\ hand[a] = j})
  \cup ({"todo"} \X {s \in Servers : j \in todo[s]})
  \cup ({"entry"} \X {s \in Servers : processing[s][j] # "none"})

(* No job is in two places. *)
OnePlace == \A j \in Jobs : \A p, q \in Places(j) : p = q

(* While nothing fails, a fetched job has a fresh entry and one worker. *)
FetchedOnce ==
  /\ \A w \in Workers :
       marked[w] => pc[w] \in {"run", "clear"} /\ processing[ServerOf[w]][hand[w]] = "fresh"
  /\ \A v, w \in Workers : marked[v] /\ marked[w] /\ hand[v] = hand[w] => v = w

(* Faults are never undone: this is inductive. *)
OneWhileNothingFails == faults = 0 => OnePlace /\ FetchedOnce

(* Every step that is not a fault takes a job from its one place to one    *)
(* other place, or nowhere.                                                *)
LEMMA OneKept ==
  ASSUME Shape, HeadGuarded, TailGuarded, SlotsFit, MarksFit, OneWhileNothingFails, Next
  PROVE  OneWhileNothingFails'
<1> USE JobQueueAssumption, SlotsType
    DEF OneWhileNothingFails, OnePlace, FetchedOnce, Places, SlotsFit, HeadGuarded,
        TailGuarded, MarksFit, JobOf, Shape, TypeOK, ControlFits, HandsFit, Carriers,
        CarryPCs, EnqueuePCs, ClientPCs, DequeuePCs, RequeuePCs, Actors, Goto, Entry,
        Fault, PutBack, queueVars, lockVars, serverVars, actorVars, past, vars
<1>1. ASSUME NEW j \in Jobs, StartEnqueue(j)  PROVE OneWhileNothingFails'
  BY <1>1 DEF StartEnqueue
<1>2. ASSUME NEW a \in Actors, EnqueueLock(a)  PROVE OneWhileNothingFails'
  BY <1>2 DEF EnqueueLock
<1>3. ASSUME NEW a \in Actors, EnqueueItem(a)  PROVE OneWhileNothingFails'
  BY <1>3 DEF EnqueueItem
<1>4. ASSUME NEW a \in Actors, EnqueueTail(a)  PROVE OneWhileNothingFails'
  <2> SUFFICES ASSUME faults' = 0  PROVE OnePlace' /\ FetchedOnce'
    BY DEF OneWhileNothingFails
  <2>1. OnePlace /\ FetchedOnce
    BY <1>4 DEF EnqueueTail, OneWhileNothingFails
  <2>2. /\ a \in Actors
        /\ \A b \in Actors : b # a => pc'[b] = pc[b]
        /\ \A b \in Carriers : b # a => hand'[b] = hand[b]
        /\ pc'[a] \in {"sent", "idle"}
        /\ UNCHANGED <<processing, todo, item, marked>>
    BY <1>4, <2>1 DEF EnqueueTail
  <2>3. /\ UNCHANGED <<item, head>>
        /\ item[tail] = JobOf(a) /\ tail' = tail + 1 /\ head \in Int /\ tail \in Int
    BY <1>4, <2>1 DEF EnqueueTail
  <2> DEFINE spot == IF a \in Jobs THEN <<"client", a>> ELSE <<"hand", a>>
  <2>4. JobOf(a) \in Jobs /\ spot \in Places(JobOf(a))
    BY <1>4 DEF EnqueueTail
  <2> HIDE DEF Shape, TypeOK, ControlFits, HandsFit, SlotsFit, HeadGuarded, TailGuarded, MarksFit
  <2>5. ASSUME NEW i \in Jobs, i # JobOf(a)  PROVE Places(i)' \subseteq Places(i)
    <3>1. \A k \in head' .. tail' - 1 : item'[k] = i => k \in head .. tail - 1 /\ item[k] = i
      <4> SUFFICES ASSUME NEW k \in head' .. tail' - 1, item'[k] = i
                   PROVE  k \in head .. tail - 1 /\ item[k] = i
        OBVIOUS
      <4>1. k \in head .. tail /\ item[k] = i
        BY <2>3
      <4>2. k # tail
        BY <2>3, <2>5, <4>1
      <4> QED  BY <2>3, <4>1, <4>2
    <3> QED  BY <2>2, <3>1
  <2>6. ASSUME NEW i \in Jobs, i = JobOf(a)
        PROVE  Places(i)' \subseteq (Places(i) \ {spot}) \cup {<<"slot", tail>>}
    <3>1. \A k \in head' .. tail' - 1 :
            item'[k] = i => (k \in head .. tail - 1 /\ item[k] = i) \/ k = tail
      BY <2>3
    <3> QED  BY <1>4, <2>2, <2>6, <3>1 DEF EnqueueTail
  <2>7. ASSUME NEW i \in Jobs  PROVE \A p, q \in Places(i)' : p = q
    <3>1. \A p, q \in Places(i) : p = q
      BY <2>1 DEF OnePlace
    <3> HIDE DEF Places
    <3>2. CASE i # JobOf(a)
      BY <2>5, <3>1, <3>2
    <3>3. CASE i = JobOf(a)
      <4>1. Places(i)' \subseteq (Places(i) \ {spot}) \cup {<<"slot", tail>>}
        BY <2>6, <3>3
      <4>2. \A p \in Places(i) : p = spot
        BY <2>4, <3>1, <3>3
      <4>3. \A p \in Places(i)' : p = <<"slot", tail>>
        BY <4>1, <4>2
      <4> QED  BY <4>3
    <3> QED  BY <3>2, <3>3
  <2>8. FetchedOnce'
    BY <1>4, <2>1, <2>2 DEF EnqueueTail
  <2> QED  BY <2>7, <2>8 DEF OnePlace
<1>5. ASSUME NEW w \in Workers, Wake(w)  PROVE OneWhileNothingFails'
  BY <1>5 DEF Wake
<1>6. ASSUME NEW w \in Workers, DequeueLock(w)  PROVE OneWhileNothingFails'
  BY <1>6 DEF DequeueLock
<1>7. ASSUME NEW w \in Workers, DequeueTimesOut(w)  PROVE OneWhileNothingFails'
  BY <1>7 DEF DequeueTimesOut
<1>8. ASSUME NEW w \in Workers, DequeueEmpty(w)  PROVE OneWhileNothingFails'
  BY <1>8 DEF DequeueEmpty
<1>9. ASSUME NEW w \in Workers, DequeueSkip(w)  PROVE OneWhileNothingFails'
  BY <1>9 DEF DequeueSkip
<1>10. ASSUME NEW w \in Workers, DequeueGet(w)  PROVE OneWhileNothingFails'
  BY <1>10 DEF DequeueGet
<1>11. ASSUME NEW w \in Workers, DequeueRemove(w)  PROVE OneWhileNothingFails'
  <2> SUFFICES ASSUME faults' = 0  PROVE OnePlace' /\ FetchedOnce'
    BY DEF OneWhileNothingFails
  <2>1. OnePlace /\ FetchedOnce
    BY <1>11 DEF DequeueRemove, OneWhileNothingFails
  <2>2. ASSUME NEW i \in Jobs  PROVE \A p, q \in Places(i)' : p = q
    <3>1. CASE i # hand[w]
      <4>1. Places(i)' \subseteq Places(i)
        BY <1>11, <3>1 DEF DequeueRemove
      <4> QED  BY <2>1, <2>2, <4>1 DEF OnePlace
    <3>2. CASE i = hand[w]
      <4>1. <<"slot", head>> \in Places(i)
        BY <1>11, <3>2 DEF DequeueRemove
      <4>2. Places(i)' \subseteq (Places(i) \ {<<"slot", head>>}) \cup {<<"hand", w>>}
        BY <1>11, <3>2 DEF DequeueRemove
      <4> HIDE DEF Places
      <4>3. \A p \in Places(i) : p = <<"slot", head>>
        BY <2>1, <4>1 DEF OnePlace
      <4>4. \A p \in Places(i)' : p = <<"hand", w>>
        BY <4>2, <4>3
      <4> QED  BY <4>4
    <3> QED  BY <3>1, <3>2
  <2>3. FetchedOnce'
    BY <1>11, <2>1 DEF DequeueRemove
  <2> QED  BY <2>2, <2>3 DEF OnePlace
<1>12. ASSUME NEW w \in Workers, DequeueAdvance(w)  PROVE OneWhileNothingFails'
  BY <1>12 DEF DequeueAdvance
<1>13. ASSUME NEW w \in Workers, ServerOf[w] \in up,
    MarkAsProcessing(w)  PROVE OneWhileNothingFails'
  <2> SUFFICES ASSUME faults' = 0  PROVE OnePlace' /\ FetchedOnce'
    BY DEF OneWhileNothingFails
  <2>1. OnePlace /\ FetchedOnce
    BY <1>13 DEF MarkAsProcessing, OneWhileNothingFails
  <2>2. ASSUME NEW i \in Jobs  PROVE \A p, q \in Places(i)' : p = q
    <3>1. CASE i # hand[w]
      <4>1. Places(i)' \subseteq Places(i)
        BY <1>13, <3>1 DEF MarkAsProcessing
      <4> QED  BY <2>1, <2>2, <4>1 DEF OnePlace
    <3>2. CASE i = hand[w]
      <4>1. <<"hand", w>> \in Places(i)
        BY <1>13, <3>2 DEF MarkAsProcessing
      <4>2. Places(i)' \subseteq (Places(i) \ {<<"hand", w>>}) \cup {<<"entry", ServerOf[w]>>}
        BY <1>13, <3>2 DEF MarkAsProcessing
      <4> HIDE DEF Places
      <4>3. \A p \in Places(i) : p = <<"hand", w>>
        BY <2>1, <4>1 DEF OnePlace
      <4>4. \A p \in Places(i)' : p = <<"entry", ServerOf[w]>>
        BY <4>2, <4>3
      <4> QED  BY <4>4
    <3> QED  BY <3>1, <3>2
  <2>3. FetchedOnce'
    <3>1. /\ ServerOf[w] \in Servers
          /\ hand[w] \in Jobs
          /\ <<"hand", w>> \in Places(hand[w])
      BY <1>13 DEF MarkAsProcessing
    <3>2. ASSUME NEW v \in Workers, marked[v]  PROVE hand[v] # hand[w]
      <4> SUFFICES ASSUME hand[v] = hand[w]  PROVE FALSE
        OBVIOUS
      <4>1. processing[ServerOf[v]][hand[w]] = "fresh" /\ ServerOf[v] \in Servers
        BY <2>1, <3>2
      <4>2. <<"entry", ServerOf[v]>> \in Places(hand[w])
        BY <4>1
      <4>3. \A p, q \in Places(hand[w]) : p = q
        BY <2>1, <3>1 DEF OnePlace
      <4>4. <<"entry", ServerOf[v]>> = <<"hand", w>>
        BY <3>1, <4>2, <4>3
      <4> QED  BY <4>4
    <3>3. ASSUME NEW v \in Workers, marked'[v]
          PROVE  pc'[v] \in {"run", "clear"} /\ processing'[ServerOf[v]][hand'[v]] = "fresh"
      <4>1. CASE v = w
        BY <1>13, <3>1, <4>1 DEF MarkAsProcessing
      <4>2. CASE v # w
        <5>1. marked[v] /\ pc'[v] = pc[v] /\ hand'[v] = hand[v]
          BY <1>13, <3>3, <4>2 DEF MarkAsProcessing
        <5>2. pc[v] \in {"run", "clear"} /\ processing[ServerOf[v]][hand[v]] = "fresh"
          BY <2>1, <5>1
        <5>3. hand[v] \in Jobs /\ ServerOf[v] \in Servers
          BY <5>2
        <5>4. processing'[ServerOf[v]][hand[v]] = "fresh"
          BY <1>13, <3>1, <5>2, <5>3 DEF MarkAsProcessing
        <5> QED  BY <5>1, <5>2, <5>4
      <4> QED  BY <4>1, <4>2
    <3>4. hand' = hand /\ \A v \in Workers : v # w => marked'[v] = marked[v]
      BY <1>13 DEF MarkAsProcessing
    <3>5. \A u, v \in Workers : marked'[u] /\ marked'[v] /\ hand'[u] = hand'[v] => u = v
      BY <2>1, <3>2, <3>4
    <3> QED  BY <3>3, <3>5
  <2> QED  BY <2>2, <2>3 DEF OnePlace
<1>14. ASSUME NEW w \in Workers, MarkFails(w)  PROVE OneWhileNothingFails'
  BY <1>14 DEF MarkFails
<1>15. ASSUME NEW w \in Workers, Perform(w)  PROVE OneWhileNothingFails'
  BY <1>15 DEF Perform
<1>16. ASSUME NEW w \in Workers, GiveUp(w)  PROVE OneWhileNothingFails'
  BY <1>16 DEF GiveUp
<1>17. ASSUME NEW w \in Workers, Clear(w)  PROVE OneWhileNothingFails'
  <2> SUFFICES ASSUME faults' = 0  PROVE OnePlace' /\ FetchedOnce'
    BY DEF OneWhileNothingFails
  <2>1. OnePlace /\ FetchedOnce /\ faults = 0
    BY <1>17 DEF Clear, OneWhileNothingFails
  <2>2. /\ pc[w] = "clear"
        /\ marked[w]
        /\ ServerOf[w] \in Servers
        /\ hand[w] \in Jobs
        /\ Entry(ServerOf[w], hand[w], "none")
        /\ \A b \in Actors : b # w => pc'[b] = pc[b]
        /\ \A b \in Carriers : b # w => hand'[b] = hand[b]
        /\ pc'[w] = "idle"
        /\ UNCHANGED <<head, tail, item, todo>>
    BY <1>17, <2>1 DEF Clear
  <2> HIDE DEF Shape, TypeOK, ControlFits, HandsFit, SlotsFit, HeadGuarded, TailGuarded, MarksFit
  <2>3. \A i \in Jobs : Places(i)' \subseteq Places(i)
    <3>1. \A i \in Jobs, s \in Servers : processing'[s][i] # "none" => processing[s][i] # "none"
      BY <2>2
    <3>2. \A a \in Carriers, i \in Jobs :
            /\ pc'[a] \in {"advance", "mark"} \cup RequeuePCs /\ hand'[a] = i
            => pc[a] \in {"advance", "mark"} \cup RequeuePCs /\ hand[a] = i
      BY <2>2
    <3>3. \A i \in Jobs : pc'[i] = pc[i]
      BY <2>2
    <3> QED  BY <2>2, <3>1, <3>2, <3>3
  <2>4. OnePlace'
    BY <2>1, <2>3 DEF OnePlace
  <2>5. ~marked'[w] /\ \A v \in Workers : v # w => marked'[v] = marked[v]
    BY <1>17 DEF Clear, Shape, TypeOK
  <2>6. ASSUME NEW v \in Workers, marked'[v]
        PROVE  pc'[v] \in {"run", "clear"} /\ processing'[ServerOf[v]][hand'[v]] = "fresh"
    <3>1. v # w /\ marked[v] /\ hand'[v] = hand[v] /\ pc'[v] = pc[v]
      BY <2>2, <2>5, <2>6
    <3>2. pc[v] \in {"run",
        "clear"} /\ processing[ServerOf[v]][hand[v]] = "fresh" /\ hand[v] # hand[w]
      BY <2>1, <2>2, <3>1
    <3>3. hand[v] \in Jobs /\ ServerOf[v] \in Servers
      BY <3>2 DEF Shape, HandsFit
    <3>4. processing'[ServerOf[v]][hand[v]] = processing[ServerOf[v]][hand[v]]
      BY <2>2, <3>2, <3>3
    <3> QED  BY <3>1, <3>2, <3>4
  <2>7. \A u, v \in Workers : marked'[u] /\ marked'[v] /\ hand'[u] = hand'[v] => u = v
    BY <2>1, <2>2, <2>5
  <2> QED  BY <2>4, <2>6, <2>7
<1>18. ASSUME NEW w \in Workers, ClearThrows(w)  PROVE OneWhileNothingFails'
  BY <1>18 DEF ClearThrows
<1>19. ASSUME NEW w \in Workers, Renew(w)  PROVE OneWhileNothingFails'
  BY <1>19 DEF Renew
<1>20. ASSUME NEW a \in Workers \cup Servers, RequeueLock(a)  PROVE OneWhileNothingFails'
  BY <1>20 DEF RequeueLock
<1>21. ASSUME NEW a \in Workers \cup Servers, RequeueItem(a)  PROVE OneWhileNothingFails'
  BY <1>21 DEF RequeueItem
<1>22. ASSUME NEW a \in Workers \cup Servers, RequeueHead(a)  PROVE OneWhileNothingFails'
  <2> SUFFICES ASSUME faults' = 0  PROVE OnePlace' /\ FetchedOnce'
    BY DEF OneWhileNothingFails
  <2>1. OnePlace /\ FetchedOnce
    BY <1>22 DEF RequeueHead, OneWhileNothingFails
  <2>2. /\ a \in Actors
        /\ \A b \in Actors : b # a => pc'[b] = pc[b]
        /\ \A b \in Carriers : b # a => hand'[b] = hand[b]
        /\ pc'[a] \in {"sent", "idle"}
        /\ UNCHANGED <<processing, todo, item, marked>>
    BY <1>22, <2>1 DEF RequeueHead
  <2>3. /\ UNCHANGED <<item, tail>>
        /\ item[head - 1] = hand[a] /\ head' = head - 1 /\ head \in Int /\ tail \in Int
    BY <1>22, <2>1 DEF RequeueHead
  <2>4. hand[a] \in Jobs /\ <<"hand", a>> \in Places(hand[a])
    BY <1>22 DEF RequeueHead
  <2> HIDE DEF Shape, TypeOK, ControlFits, HandsFit, SlotsFit, HeadGuarded, TailGuarded, MarksFit
  <2>5. ASSUME NEW i \in Jobs, i # hand[a]  PROVE Places(i)' \subseteq Places(i)
    <3>1. \A k \in head' .. tail' - 1 : item'[k] = i => k \in head .. tail - 1 /\ item[k] = i
      <4> SUFFICES ASSUME NEW k \in head' .. tail' - 1, item'[k] = i
                   PROVE  k \in head .. tail - 1 /\ item[k] = i
        OBVIOUS
      <4>1. k \in head - 1 .. tail - 1 /\ item[k] = i
        BY <2>3
      <4>2. k # head - 1
        BY <2>3, <2>5, <4>1
      <4> QED  BY <2>3, <4>1, <4>2
    <3> QED  BY <2>2, <3>1
  <2>6. ASSUME NEW i \in Jobs, i = hand[a]
        PROVE  Places(i)' \subseteq (Places(i) \ {<<"hand", a>>}) \cup {<<"slot", head - 1>>}
    <3>1. \A k \in head' .. tail' - 1 :
            item'[k] = i => (k \in head .. tail - 1 /\ item[k] = i) \/ k = head - 1
      BY <2>3
    <3> QED  BY <1>22, <2>2, <2>6, <3>1 DEF RequeueHead
  <2>7. ASSUME NEW i \in Jobs  PROVE \A p, q \in Places(i)' : p = q
    <3>1. \A p, q \in Places(i) : p = q
      BY <2>1 DEF OnePlace
    <3> HIDE DEF Places
    <3>2. CASE i # hand[a]
      BY <2>5, <3>1, <3>2
    <3>3. CASE i = hand[a]
      <4>1. Places(i)' \subseteq (Places(i) \ {<<"hand", a>>}) \cup {<<"slot", head - 1>>}
        BY <2>6, <3>3
      <4>2. \A p \in Places(i) : p = <<"hand", a>>
        BY <2>4, <3>1, <3>3
      <4>3. \A p \in Places(i)' : p = <<"slot", head - 1>>
        BY <4>1, <4>2
      <4> QED  BY <4>3
    <3> QED  BY <3>2, <3>3
  <2>8. FetchedOnce'
    BY <1>22, <2>1, <2>2 DEF RequeueHead
  <2> QED  BY <2>7, <2>8 DEF OnePlace
<1>23. ASSUME NEW a \in Workers \cup Servers,
              RequeueTimesOut(a)  PROVE OneWhileNothingFails'
  <2> SUFFICES ASSUME faults' = 0  PROVE OnePlace' /\ FetchedOnce'
    BY DEF OneWhileNothingFails
  <2>1. OnePlace /\ FetchedOnce
    BY <1>23 DEF RequeueTimesOut, OneWhileNothingFails
  <2>2. /\ \A b \in Actors : b # a => pc'[b] = pc[b]
        /\ a \in Actors \ Jobs /\ pc[a] = "reqLock" /\ pc'[a] = "enqLock"
        /\ UNCHANGED <<hand, marked, processing, todo, head, tail, item>>
    BY <1>23 DEF RequeueTimesOut
  <2> HIDE DEF Shape, TypeOK, ControlFits, HandsFit, SlotsFit, HeadGuarded, TailGuarded, MarksFit
  <2>3. \A i \in Jobs : Places(i)' \subseteq Places(i)
    <3>1. \A i \in Jobs : pc'[i] = pc[i]
      BY <2>2
    <3>2. \A b \in Carriers :
            pc'[b] \in {"advance", "mark"} \cup RequeuePCs =>
            pc[b] \in {"advance", "mark"} \cup RequeuePCs
      BY <2>2
    <3> QED  BY <2>2, <3>1, <3>2
  <2>4. OnePlace'
    BY <2>1, <2>3 DEF OnePlace
  <2>5. FetchedOnce'
    BY <2>1, <2>2
  <2> QED  BY <2>4, <2>5
<1>24. ASSUME NEW s \in Servers, TakeStale(s)  PROVE OneWhileNothingFails'
  <2> SUFFICES ASSUME faults' = 0  PROVE OnePlace' /\ FetchedOnce'
    BY DEF OneWhileNothingFails
  <2>1. OnePlace /\ FetchedOnce
    BY <1>24 DEF TakeStale, OneWhileNothingFails
  <2>2. PICK t \in known :
          /\ pc[s] = "idle"
          /\ todo[s] = {}
          /\ processing' = [processing EXCEPT ![t] =
               [j \in Jobs |-> IF j \in {k \in Jobs : processing[t][k] = "stale"}
                                THEN "none" ELSE @[j]]]
          /\ todo' = [todo EXCEPT ![s] = {j \in Jobs : processing[t][j] = "stale"}]
    BY <1>24, StaleTaken
  <2>3. t \in Servers /\ UNCHANGED <<head, tail, item, pc, hand, marked>>
    BY <1>24 DEF TakeStale
  <2>4. /\ \A r \in Servers, i \in Jobs :
             processing'[r][i] = IF r = t /\ processing[r][i] = "stale"
                                 THEN "none" ELSE processing[r][i]
        /\ \A r \in Servers : r # s => todo'[r] = todo[r]
        /\ todo'[s] = {j \in Jobs : processing[t][j] = "stale"}
    BY <2>2, <2>3
  <2> HIDE DEF Shape, TypeOK, ControlFits, HandsFit, SlotsFit, HeadGuarded, TailGuarded, MarksFit
  <2>5. ASSUME NEW i \in Jobs, processing[t][i] # "stale"
        PROVE  Places(i)' \subseteq Places(i)
    BY <2>3, <2>4, <2>5
  <2>6. ASSUME NEW i \in Jobs, processing[t][i] = "stale"
        PROVE  /\ <<"entry", t>> \in Places(i)
               /\ Places(i)' \subseteq (Places(i) \ {<<"entry", t>>}) \cup {<<"todo", s>>}
    <3>1. <<"entry", t>> \in Places(i)
      BY <2>3, <2>6
    <3>2. Places(i)' \subseteq (Places(i) \ {<<"entry", t>>}) \cup {<<"todo", s>>}
      BY <2>3, <2>4, <2>6
    <3> QED  BY <3>1, <3>2
  <2>7. ASSUME NEW i \in Jobs  PROVE \A p, q \in Places(i)' : p = q
    <3>1. \A p, q \in Places(i) : p = q
      BY <2>1 DEF OnePlace
    <3> HIDE DEF Places
    <3>2. CASE processing[t][i] # "stale"
      BY <2>5, <3>1, <3>2
    <3>3. CASE processing[t][i] = "stale"
      <4>1. \A p \in Places(i) : p = <<"entry", t>>
        BY <2>6, <3>1, <3>3
      <4>2. Places(i)' \subseteq (Places(i) \ {<<"entry", t>>}) \cup {<<"todo", s>>}
        BY <2>6, <3>3
      <4>3. \A p \in Places(i)' : p = <<"todo", s>>
        BY <4>1, <4>2
      <4> QED  BY <4>3
    <3> QED  BY <3>2, <3>3
  <2>8. FetchedOnce'
    <3>1. \A w \in Workers : marked[w] => hand[w] \in Jobs /\ ServerOf[w] \in Servers
      BY DEF Shape, MarksFit, HandsFit
    <3>2. \A r \in Servers, i \in Jobs : processing[r][i] = "fresh" => processing'[r][i] = "fresh"
      BY <2>4
    <3> QED  BY <2>1, <2>3, <3>1, <3>2
  <2> QED  BY <2>7, <2>8 DEF OnePlace
<1>25. ASSUME NEW s \in Servers, RequeueNext(s)  PROVE OneWhileNothingFails'
  <2> SUFFICES ASSUME faults' = 0  PROVE OnePlace' /\ FetchedOnce'
    BY DEF OneWhileNothingFails
  <2>1. OnePlace /\ FetchedOnce
    BY <1>25 DEF RequeueNext, OneWhileNothingFails
  <2>2. PICK j \in todo[s] :
          /\ todo' = [todo EXCEPT ![s] = @ \ {j}]
          /\ hand' = [hand EXCEPT ![s] = j]
    BY <1>25 DEF RequeueNext
  <2>3. /\ \A b \in Actors : b # s => pc'[b] = pc[b]
        /\ \A b \in Carriers : b # s => hand'[b] = hand[b]
        /\ \A r \in Servers : r # s => todo'[r] = todo[r]
        /\ s \in Carriers /\ s \notin Workers /\ s \notin Jobs /\ j \in Jobs
        /\ todo'[s] = todo[s] \ {j} /\ hand'[s] = j /\ pc[s] = "idle"
        /\ UNCHANGED <<head, tail, item, processing, marked>>
    BY <1>25, <2>2 DEF RequeueNext
  <2> HIDE DEF Shape, TypeOK, ControlFits, HandsFit, SlotsFit, HeadGuarded, TailGuarded, MarksFit
  <2>4. ASSUME NEW i \in Jobs, i # j  PROVE Places(i)' \subseteq Places(i)
    BY <2>3, <2>4
  <2>5. <<"todo", s>> \in Places(j)
    BY <2>2
  <2>6. Places(j)' \subseteq (Places(j) \ {<<"todo", s>>}) \cup {<<"hand", s>>}
    BY <2>3
  <2>7. ASSUME NEW i \in Jobs  PROVE \A p, q \in Places(i)' : p = q
    <3>1. \A p, q \in Places(i) : p = q
      BY <2>1 DEF OnePlace
    <3> HIDE DEF Places
    <3>2. CASE i # j
      BY <2>4, <3>1, <3>2
    <3>3. CASE i = j
      <4>1. \A p \in Places(i) : p = <<"todo", s>>
        BY <2>5, <3>1, <3>3
      <4>2. \A p \in Places(i)' : p = <<"hand", s>>
        BY <2>6, <3>3, <4>1
      <4> QED  BY <4>2
    <3> QED  BY <3>2, <3>3
  <2>8. FetchedOnce'
    <3>1. \A w \in Workers : pc'[w] = pc[w] /\ hand'[w] = hand[w]
      BY <2>3
    <3> QED  BY <2>1, <2>3, <3>1
  <2> QED  BY <2>7, <2>8 DEF OnePlace
<1>26. ASSUME NEW s \in Servers, AnnounceServer(s)  PROVE OneWhileNothingFails'
  BY <1>26 DEF AnnounceServer
<1>27. ASSUME NEW s \in Servers, RemoveTimedOutServer(s)  PROVE OneWhileNothingFails'
  BY <1>27 DEF RemoveTimedOutServer
<1>28. ASSUME NEW s \in Servers, Crash(s)  PROVE OneWhileNothingFails'
  <2> SUFFICES ASSUME faults' = 0  PROVE OnePlace' /\ FetchedOnce'
    BY DEF OneWhileNothingFails
  <2> DEFINE A == {s} \cup {w \in Workers : ServerOf[w] = s}
  <2>1. OnePlace /\ FetchedOnce
    BY <1>28 DEF Crash, OneWhileNothingFails
  <2>2. /\ pc' = [a \in Actors |-> IF a \in A THEN "idle" ELSE pc[a]]
        /\ hand' = [a \in Carriers |-> IF a \in A THEN NoJob ELSE hand[a]]
        /\ marked' = [w \in Workers |-> marked[w] /\ w \notin A]
        /\ todo' = [todo EXCEPT ![s] = {}]
        /\ UNCHANGED <<head, tail, item, processing>>
    BY <1>28 DEF Crash
  <2>3. /\ \A j \in Jobs : pc'[j] = pc[j]
        /\ \A a \in Carriers : pc'[a] # "idle" => pc'[a] = pc[a] /\ hand'[a] = hand[a]
        /\ \A w \in Workers : marked'[w] => marked[w] /\ pc'[w] = pc[w] /\ hand'[w] = hand[w]
        /\ \A r \in Servers : todo'[r] \subseteq todo[r]
    <3>1. \A j \in Jobs : j \in Actors /\ j \notin A
      OBVIOUS
    <3>2. \A j \in Jobs : pc'[j] = pc[j]
      BY <2>2, <3>1
    <3>3. \A a \in Carriers : pc'[a] # "idle" => pc'[a] = pc[a] /\ hand'[a] = hand[a]
      BY <2>2
    <3>4. \A w \in Workers : marked'[w] => marked[w] /\ pc'[w] = pc[w] /\ hand'[w] = hand[w]
      BY <2>2
    <3>5. \A r \in Servers : todo'[r] \subseteq todo[r]
      BY <2>2
    <3> QED  BY <3>2, <3>3, <3>4, <3>5
  <2> HIDE DEF Shape, TypeOK, ControlFits, HandsFit, SlotsFit, HeadGuarded, TailGuarded, MarksFit
  <2>4. \A i \in Jobs : Places(i)' \subseteq Places(i)
    BY <2>2, <2>3
  <2>5. OnePlace'
    BY <2>1, <2>4 DEF OnePlace
  <2>6. FetchedOnce'
    BY <2>1, <2>2, <2>3
  <2> QED  BY <2>5, <2>6
<1>29. ASSUME NEW s \in Servers, NEW j \in Jobs, GoStale(s, j)  PROVE OneWhileNothingFails'
  BY <1>29 DEF GoStale
<1>30. ASSUME NEW a \in Actors, CallFails(a)  PROVE OneWhileNothingFails'
  BY <1>30 DEF CallFails
<1>31. ASSUME LeaseEnds  PROVE OneWhileNothingFails'
  BY <1>31 DEF LeaseEnds
<1> HIDE JobQueueAssumption
    DEF OneWhileNothingFails, OnePlace, FetchedOnce, Places, SlotsFit, HeadGuarded,
        TailGuarded, MarksFit, JobOf, Shape, TypeOK, ControlFits, HandsFit, Carriers,
        CarryPCs, EnqueuePCs, ClientPCs, DequeuePCs, RequeuePCs, Actors, Goto, Entry,
        Fault, PutBack, queueVars, lockVars, serverVars, actorVars, past, vars
<1>32. ASSUME NEW a \in Actors, EnqueueStep(a)  PROVE OneWhileNothingFails'
  BY <1>2, <1>3, <1>4, <1>32 DEF EnqueueStep
<1>33. ASSUME NEW a \in Workers \cup Servers, RequeueStep(a)  PROVE OneWhileNothingFails'
  <2>1. a \in Actors
    BY DEF Actors
  <2> QED
    BY <1>20, <1>21, <1>22, <1>23, <1>32, <1>33, <2>1 DEF RequeueStep
<1>34. ASSUME NEW w \in Workers, ServerOf[w] \in up, DequeueStep(w)  PROVE OneWhileNothingFails'
  BY <1>5, <1>6, <1>7, <1>8, <1>9, <1>10, <1>11, <1>12, <1>13, <1>34 DEF DequeueStep
<1>35. ASSUME NEW w \in Workers, WorkerStep(w) \/ Mishap(w)  PROVE OneWhileNothingFails'
  <2>1. CASE WorkerStep(w)
    BY <1>15, <1>17, <1>33, <1>34, <2>1 DEF WorkerStep
  <2>2. CASE Mishap(w)
    BY <1>14, <1>16, <1>18, <1>19, <2>2 DEF Mishap
  <2> QED
    BY <1>35, <2>1, <2>2
<1>36. ASSUME NEW s \in Servers, WatcherStep(s)  PROVE OneWhileNothingFails'
  BY <1>24, <1>25, <1>33, <1>36 DEF WatcherStep
<1> QED
  BY <1>1, <1>26, <1>27, <1>28, <1>29, <1>30, <1>31, <1>32, <1>35, <1>36 DEF Next, Actors

-----------------------------------------------------------------------------
JobQueueInv ==
  /\ Shape
  /\ HeadGuarded
  /\ TailGuarded
  /\ SlotsFit
  /\ MarksFit
  /\ EnqueuedIsStored
  /\ OneWhileNothingFails

(* The empty queue and the idle servers of the beginning. *)
LEMMA InvAtFirst == Init => JobQueueInv
<1> SUFFICES ASSUME Init  PROVE JobQueueInv
  OBVIOUS
<1> USE JobQueueAssumption
    DEF Init
<1>1. Cardinality(Jobs) \in Nat
  BY FS_CardinalityType
<1>2. \A a \in Actors : pc[a] = IF a \in Jobs THEN "new" ELSE "idle"
  BY DEF Actors
<1>3. Shape
  BY <1>1, <1>2 DEF Shape, TypeOK, ControlFits, HandsFit, Slots, Actors, Carriers,
     CarryPCs, EnqueuePCs, ClientPCs, RequeuePCs
<1>4. HeadGuarded /\ TailGuarded /\ SlotsFit /\ MarksFit /\ EnqueuedIsStored
  BY <1>2
     DEF HeadGuarded, TailGuarded, SlotsFit, MarksFit, EnqueuedIsStored, Actors, Carriers
<1>5. OnePlace
  BY <1>2 DEF OnePlace, Places, Actors, Carriers, RequeuePCs
<1>6. FetchedOnce
  BY DEF FetchedOnce
<1> QED  BY <1>3, <1>4, <1>5, <1>6 DEF JobQueueInv, OneWhileNothingFails

(* A step that changes nothing. *)
LEMMA InvStuttering == ASSUME JobQueueInv, UNCHANGED vars  PROVE JobQueueInv'
BY DEF JobQueueInv, Shape, TypeOK, ControlFits, HandsFit, HeadGuarded, TailGuarded,
       SlotsFit, MarksFit, EnqueuedIsStored, Stored, Queued, InHand, WithWatcher,
       Entered, Keeps, Wipes, OneWhileNothingFails, OnePlace, FetchedOnce, Places,
       JobOf, up, vars, queueVars, lockVars, serverVars, actorVars, past

(* The inductive invariant of Enqueue, TryDequeue, Requeue, the fetched    *)
(* jobs and their watcher.                                                 *)
THEOREM InvAlways == Spec => []JobQueueInv
<1>1. Init => JobQueueInv
  BY InvAtFirst
<1>2. JobQueueInv /\ [Next]_vars => JobQueueInv'
  <2> SUFFICES ASSUME JobQueueInv, [Next]_vars  PROVE JobQueueInv'
    OBVIOUS
  <2>1. CASE Next
    BY <2>1, ShapeKept, LocksKept, SlotsKept, MarksKept, StoredKept, OneKept DEF JobQueueInv
  <2>2. CASE UNCHANGED vars
    BY <2>2, InvStuttering
  <2> QED  BY <2>1, <2>2
<1> QED  BY <1>1, <1>2, PTL DEF Spec

(* TypeOK: no counter leaves the slots, no worker marks or clears an entry *)
(* without a job in its hand.                                              *)
THEOREM TypeCorrect == Spec => []TypeOK
<1>1. JobQueueInv => TypeOK
  BY DEF JobQueueInv, Shape
<1> QED  BY <1>1, InvAlways, PTL

(* NoJobIsLost: a job whose Enqueue returned is performed, queued, in a    *)
(* processing set or in somebody's hands, unless its carrier crashed or    *)
(* failed in one of the three windows.                                     *)
THEOREM EnqueuedJobsStay == Spec => []NoJobIsLost
<1>1. JobQueueInv => NoJobIsLost
  <2> SUFFICES ASSUME JobQueueInv, NEW j \in Jobs, pc[j] = "sent"
               PROVE  \/ j \in done \cup dropped
                      \/ Queued(j)
                      \/ InProcessing(j)
                      \/ \E a \in Workers \cup Servers :
                           hand[a] = j \/ (a \in Servers /\ j \in todo[a])
    BY DEF NoJobIsLost
  <2>1. Stored(j)
    BY DEF JobQueueInv, EnqueuedIsStored
  <2> QED  BY <2>1 DEF Stored, InHand, WithWatcher, Entered, InProcessing
<1> QED  BY <1>1, InvAlways, PTL

(* A set without two elements. *)
LEMMA AtMostOneElement ==
  ASSUME NEW S, \A x, y \in S : x = y
  PROVE  /\ Cardinality(S) \in {0, 1}
         /\ S = {} => Cardinality(S) = 0
<1>1. CASE S = {}
  BY <1>1, FS_EmptySet
<1>2. CASE S # {}
  <2>1. PICK x : S = {x}
    BY <1>2
  <2> QED  BY <2>1, <1>2, FS_Singleton
<1> QED  BY <1>1, <1>2

(* The slots of a job and the workers that hold it are places of it. *)
LEMMA OnePlaceHolds ==
  ASSUME JobQueueInv, faults = 0, NEW j \in Jobs
  PROVE  Cardinality({k \in head .. tail - 1 : item[k] = j})
           + Cardinality({a \in Workers \cup Servers : Holding(a) /\ hand[a] = j}) <= 1
<1> DEFINE S == {k \in head .. tail - 1 : item[k] = j}
           H == {a \in Workers \cup Servers : Holding(a) /\ hand[a] = j}
<1>1. \A p, q \in Places(j) : p = q
  BY DEF JobQueueInv, OneWhileNothingFails, OnePlace
<1>2. FetchedOnce
  BY DEF JobQueueInv, OneWhileNothingFails
<1>3. \A k \in S : <<"slot", k>> \in Places(j)
  BY DEF Places
<1>4. ASSUME NEW a \in H
      PROVE  \/ <<"hand", a>> \in Places(j)
             \/ /\ a \in Workers /\ marked[a]
                /\ <<"entry", ServerOf[a]>> \in Places(j)
  <2>1. CASE pc[a] \in {"advance", "mark"} \cup RequeuePCs
    BY <2>1, <1>4 DEF Places, Carriers
  <2>2. CASE pc[a] = "run"
    <3>1. a \in Workers /\ marked[a] /\ hand[a] = j
      BY <1>4, <2>2 DEF JobQueueInv, MarksFit, Shape, ControlFits, RequeuePCs
    <3>2. ServerOf[a] \in Servers /\ processing[ServerOf[a]][j] = "fresh"
      BY <3>1, <1>2, JobQueueAssumption DEF FetchedOnce
    <3> QED  BY <3>1, <3>2 DEF Places
  <2> QED  BY <1>4, <2>1, <2>2 DEF Holding
<1>5. \A x, y \in S : x = y
  BY <1>1, <1>3
<1>6. ASSUME NEW a \in H, NEW b \in H  PROVE a = b
  <2>1. CASE <<"hand", a>> \in Places(j) /\ <<"hand", b>> \in Places(j)
    BY <1>1, <2>1
  <2>2. CASE marked[a] /\ marked[b] /\ a \in Workers /\ b \in Workers
    BY <1>2, <1>6, <2>2 DEF FetchedOnce
  <2>3. ~(<<"hand", a>> \in Places(j) /\ <<"entry", ServerOf[b]>> \in Places(j))
    BY <1>1
  <2>4. ~(<<"hand", b>> \in Places(j) /\ <<"entry", ServerOf[a]>> \in Places(j))
    BY <1>1
  <2> QED  BY <1>4, <1>6, <2>1, <2>2, <2>3, <2>4
<1>7. S = {} \/ H = {}
  <2> SUFFICES ASSUME NEW k \in S, NEW a \in H  PROVE FALSE
    OBVIOUS
  <2>1. <<"slot", k>> # <<"hand", a>> /\ <<"slot", k>> # <<"entry", ServerOf[a]>>
    OBVIOUS
  <2> QED  BY <1>1, <1>3, <1>4, <2>1
<1> HIDE DEF S, H
<1>8. Cardinality(S) \in {0, 1} /\ (S = {} => Cardinality(S) = 0)
  BY <1>5, AtMostOneElement
<1>9. Cardinality(H) \in {0, 1} /\ (H = {} => Cardinality(H) = 0)
  BY <1>6, AtMostOneElement
<1>10. Cardinality(S) + Cardinality(H) <= 1
  BY <1>7, <1>8, <1>9
<1> QED  BY <1>10 DEF S, H

(* JobIsInOnePlace: while nothing fails, no two workers have a job, and    *)
(* none has one that is still queued, also when servers crash and their    *)
(* jobs are recovered.                                                     *)
THEOREM JobsAreNeverTwice == Spec => []JobIsInOnePlace
<1>1. JobQueueInv => JobIsInOnePlace
  BY OnePlaceHolds DEF JobIsInOnePlace
<1> QED  BY <1>1, InvAlways, PTL


-----------------------------------------------------------------------------
(* The refinement of the line.  Slots without an item may lie in the queue *)
(* (a crash between DequeueRemove and DequeueAdvance leaves one): the line *)
(* is what remains.                                                        *)
HasJob(k) == k \in head .. tail - 1 /\ item[k] # NoJob

LEMMA LineDomain == DOMAIN Waiting = {i \in head .. tail - 1 : item[i] # NoJob}
BY DEF Waiting

(* A step that leaves the jobs in their slots. *)
LEMMA SameLine ==
  ASSUME head \in Int, tail \in Int, head' \in Int, tail' \in Int,
         \A k \in Int : HasJob(k)' <=> HasJob(k),
         \A k \in Int : HasJob(k) => item'[k] = item[k]
  PROVE  Waiting' = Waiting
<1> DEFINE D == {i \in head .. tail - 1 : item[i] # NoJob}
<1>1. \A k : k \in D <=> k \in Int /\ HasJob(k)
  BY DEF HasJob
<1>2. \A k : k \in D' <=> k \in Int /\ HasJob(k)'
  BY DEF HasJob
<1>3. D' = D
  <2> HIDE DEF D
  <2>1. \A k : k \in D' <=> k \in D
    BY <1>1, <1>2, Zenon
  <2> QED
    BY <2>1
<1>4. \A k \in D : item'[k] = item[k]
  BY <1>1, Zenon
<1> HIDE DEF D
<1> QED
  BY <1>3, <1>4 DEF Waiting, D

(* A step that adds the slot k, with a job, at one end. *)
LEMMA LineGrows ==
  ASSUME NEW k \in Int, NEW j, j # NoJob, item' = item, item[k] = j,
         head \in Int, tail \in Int, head' \in Int, tail' \in Int,
         \A i \in Int : i \in head' .. tail' - 1 <=> i = k \/ i \in head .. tail - 1
  PROVE  Line!PutAt(k, j)
<1> DEFINE D == {i \in head .. tail - 1 : item[i] # NoJob}
<1>1. \A i : i \in D <=> i \in Int /\ HasJob(i)
  BY DEF HasJob
<1>2. \A i : i \in D' <=> i \in Int /\ HasJob(i)'
  BY DEF HasJob
<1>3. \A i \in Int : HasJob(i)' <=> i = k \/ HasJob(i)
  BY DEF HasJob
<1>4. D' = D \cup {k}
  <2> HIDE DEF D
  <2>1. \A i : i \in D' <=> i \in D \cup {k}
    BY <1>1, <1>2, <1>3
  <2> QED
    BY <2>1
<1>5. Waiting = [i \in D |-> item[i]] /\ Waiting' = [i \in D \cup {k} |-> item[i]]
  BY <1>4 DEF Waiting
<1> HIDE DEF D
<1>6. DOMAIN Waiting = D
  BY <1>5
<1>7. \A i \in D \cup {k} : item[i] = IF i = k THEN j ELSE Waiting[i]
  BY <1>5
<1> QED
  BY <1>5, <1>6, <1>7 DEF Line!PutAt

(* A step that takes the job out of the slot k. *)
LEMMA LineShrinks ==
  ASSUME NEW k \in Int, HasJob(k), head \in Int, tail \in Int, UNCHANGED <<head, tail>>,
         item' = [item EXCEPT ![k] = NoJob],
         \A i \in Int : HasJob(i) => i \in DOMAIN item
  PROVE  Waiting' = [i \in DOMAIN Waiting \ {k} |-> Waiting[i]]
<1> DEFINE D == {i \in head .. tail - 1 : item[i] # NoJob}
<1>1. \A i : i \in D <=> i \in Int /\ HasJob(i)
  BY DEF HasJob
<1>2. \A i : i \in D' <=> i \in Int /\ HasJob(i)'
  BY DEF HasJob
<1>3. \A i \in Int : HasJob(i)' <=> i # k /\ HasJob(i)
  BY DEF HasJob
<1>4. D' = D \ {k}
  <2> HIDE DEF D
  <2>1. \A i : i \in D' <=> i \in D \ {k}
    BY <1>1, <1>2, <1>3
  <2> QED
    BY <2>1
<1>5. Waiting = [i \in D |-> item[i]] /\ Waiting' = [i \in D \ {k} |-> item'[i]]
  BY <1>4 DEF Waiting
<1>6. \A i \in D \ {k} : item'[i] = item[i]
  BY <1>1
<1> HIDE DEF D
<1> QED
  BY <1>5, <1>6

(* A step of nobody but the worker w, seen in the jobs that were taken. *)
LEMMA OneTaken ==
  ASSUME NEW w \in Workers,
         \A v \in Workers \ {w} : pc'[v] = pc[v] /\ hand'[v] = hand[v]
  PROVE  Taken' = [Taken EXCEPT ![w] = IF HasTaken(w)' THEN hand'[w] ELSE NoJob]
<1>1. \A v \in Workers \ {w} : HasTaken(v)' = HasTaken(v)
  BY DEF HasTaken
<1> QED
  BY <1>1 DEF Taken

LEMMA NoneTaken ==
  ASSUME \A v \in Workers : pc'[v] = pc[v] /\ hand'[v] = hand[v]
  PROVE  Taken' = Taken
<1>1. \A v \in Workers : HasTaken(v)' = HasTaken(v)
  BY DEF HasTaken
<1> QED
  BY <1>1 DEF Taken

(* A step that leaves the jobs in their slots, and in which some workers   *)
(* part with the job they took and nobody takes one.                       *)
LEMMA PartsOnly ==
  ASSUME HandsFit, Waiting' = Waiting,
         \A w \in Workers : HasTaken(w)' => HasTaken(w) /\ hand'[w] = hand[w]
  PROVE  Line!LineNext
<1> DEFINE W == {w \in Workers : HasTaken(w) /\ ~HasTaken(w)'}
<1>1. \A w \in W : Taken[w] # NoJob
  <2>1. \A w \in Workers : HasTaken(w) => hand[w] \in Jobs
    BY DEF HandsFit, HasTaken, Carriers, CarryPCs
  <2> QED
    BY <2>1, JobQueueAssumption DEF Taken
<1>2. Taken' = [w \in Workers |-> IF w \in W THEN NoJob ELSE Taken[w]]
  BY DEF Taken
<1>3. W \in SUBSET Workers
  OBVIOUS
<1> HIDE DEF W
<1>4. Line!PartWith(W)
  BY <1>1, <1>2 DEF Line!PartWith
<1> QED
  BY <1>3, <1>4 DEF Line!LineNext

(* When Enqueue or Requeue is done, who called it has no job any more that *)
(* it took: a worker gave it back, a client or watcher never had one.      *)
LEMMA PutBackGives ==
  ASSUME NEW a \in Actors, Shape, PutBack(a), pc[a] \in RequeuePCs,
         Line!PutFirst(JobOf(a)) \/ Line!PutLast(JobOf(a))
  PROVE  Line!LineNext
<1> USE JobQueueAssumption
    DEF Shape, TypeOK, Goto, PutBack, JobOf, Actors
<1>1. CASE a \in Workers
  <2>1. HasTaken(a) /\ ~HasTaken(a)' /\ hand[a] \in Jobs
    BY <1>1 DEF HasTaken, RequeuePCs, HandsFit, Carriers, CarryPCs
  <2>2. \A v \in Workers \ {a} : pc'[v] = pc[v] /\ hand'[v] = hand[v]
    BY <1>1
  <2>3. Taken[a] = hand[a] /\ hand[a] # NoJob /\ JobOf(a) = hand[a]
    BY <1>1, <2>1 DEF Taken
  <2> HIDE DEF Shape, TypeOK, Goto, PutBack, JobOf, Actors
  <2>4. Taken' = [Taken EXCEPT ![a] = NoJob]
    BY <1>1, <2>1, <2>2, OneTaken
  <2>5. Line!GiveBack(a)
    BY <2>3, <2>4 DEF Line!GiveBack
  <2> QED
    BY <1>1, <2>5 DEF Line!LineNext
<1>2. CASE a \notin Workers
  <2>1. \A v \in Workers : pc'[v] = pc[v] /\ hand'[v] = hand[v]
    BY <1>2
  <2>2. JobOf(a) \in Jobs
    BY <1>2 DEF HandsFit, Carriers, CarryPCs
  <2> HIDE DEF Shape, TypeOK, Goto, PutBack, JobOf, Actors
  <2>3. Taken' = Taken
    BY <2>1, NoneTaken
  <2>4. Line!Add(JobOf(a))
    BY <2>3 DEF Line!Add
  <2> QED
    BY <2>2, <2>4 DEF Line!LineNext
<1> QED
  BY <1>1, <1>2

(* The counter that moves publishes the item: at the tail for Enqueue, ... *)
LEMMA EnqueueTailAdds ==
  ASSUME NEW a \in Actors, Shape, SlotsFit, EnqueueTail(a)
  PROVE  Line!LineNext
<1>1. /\ head \in Int /\ tail \in Int /\ tail \in Slots
      /\ head' = head /\ tail' = tail + 1 /\ item' = item
      /\ head <= tail /\ item[tail] = JobOf(a)
  BY SlotsType DEF Shape, TypeOK, SlotsFit, EnqueueTail
<1>2. pc[a] \in RequeuePCs /\ PutBack(a)
  BY DEF EnqueueTail, RequeuePCs
<1>3. JobOf(a) # NoJob
  <2>1. JobOf(a) \in Jobs
    BY <1>2 DEF JobOf, Shape, HandsFit, Carriers, CarryPCs, Actors
  <2> QED
    BY <2>1, JobQueueAssumption
<1>4. \A i \in Int : i \in head' .. tail' - 1 <=> i = tail \/ i \in head .. tail - 1
  BY <1>1
<1>5. head' \in Int /\ tail' \in Int
  BY <1>1
<1>6. Line!PutAt(tail, JobOf(a))
  BY <1>1, <1>3, <1>4, <1>5, LineGrows
<1>7. \A i \in DOMAIN Waiting : i < tail
  BY <1>1, LineDomain
<1>8. Line!PutLast(JobOf(a))
  BY <1>1, <1>6, <1>7 DEF Line!PutLast
<1> QED
  BY <1>2, <1>8, PutBackGives

(* ... below the head for Requeue. *)
LEMMA RequeueHeadAdds ==
  ASSUME NEW a \in Workers \cup Servers, Shape, SlotsFit, RequeueHead(a)
  PROVE  Line!LineNext
<1>1. /\ head \in Int /\ tail \in Int /\ head - 1 \in Slots
      /\ head' = head - 1 /\ tail' = tail /\ item' = item
      /\ head <= tail /\ item[head - 1] = JobOf(a)
  BY SlotsType, JobQueueAssumption
     DEF Shape, TypeOK, SlotsFit, RequeueHead, JobOf, Carriers
<1>2. pc[a] \in RequeuePCs /\ PutBack(a) /\ a \in Actors
  BY DEF RequeueHead, RequeuePCs, Actors
<1>3. JobOf(a) # NoJob
  <2>1. JobOf(a) \in Jobs
    BY <1>2 DEF JobOf, Shape, HandsFit, Carriers, CarryPCs, Actors
  <2> QED
    BY <2>1, JobQueueAssumption
<1>4. \A i \in Int : i \in head' .. tail' - 1 <=> i = head - 1 \/ i \in head .. tail - 1
  BY <1>1
<1>5. head' \in Int /\ tail' \in Int /\ head - 1 \in Int
  BY <1>1
<1>6. Line!PutAt(head - 1, JobOf(a))
  BY <1>1, <1>3, <1>4, <1>5, LineGrows
<1>7. \A i \in DOMAIN Waiting : head - 1 < i
  BY <1>1, LineDomain
<1>8. Line!PutFirst(JobOf(a))
  BY <1>1, <1>6, <1>7 DEF Line!PutFirst
<1> QED
  BY <1>2, <1>8, PutBackGives

(* The removal of the item takes the first job of the line, whatever was   *)
(* added since the worker read it.                                         *)
LEMMA DequeueRemoveTakes ==
  ASSUME NEW w \in Workers, Shape, SlotsFit, DequeueRemove(w)
  PROVE  Line!LineNext
<1>1. /\ head \in Int /\ tail \in Int /\ UNCHANGED <<head, tail>>
      /\ head < tail /\ item[head] = hand[w]
      /\ item' = [item EXCEPT ![head] = NoJob]
  BY SlotsType DEF Shape, TypeOK, SlotsFit, DequeueRemove
<1>2. hand[w] \in Jobs /\ hand'[w] = hand[w] /\ ~HasTaken(w) /\ HasTaken(w)'
  BY DEF Shape, TypeOK, HandsFit, Carriers, CarryPCs, DequeueRemove, HasTaken,
     Goto, RequeuePCs, Actors
<1>3. HasJob(head)
  BY <1>1, <1>2, JobQueueAssumption DEF HasJob
<1>4. \A i \in Int : HasJob(i) => i \in DOMAIN item
  BY <1>1, SlotsBetween DEF HasJob, Shape, TypeOK
<1>5. Waiting' = [i \in DOMAIN Waiting \ {head} |-> Waiting[i]]
  BY <1>1, <1>3, <1>4, LineShrinks
<1>6. Line!First(head) /\ Waiting[head] = hand[w]
  <2>1. head \in DOMAIN Waiting
    BY <1>1, <1>3, LineDomain DEF HasJob
  <2>2. \A i \in DOMAIN Waiting : head <= i
    BY <1>1, LineDomain
  <2>3. Waiting[head] = item[head]
    BY <2>1, LineDomain DEF Waiting
  <2> QED
    BY <1>1, <2>1, <2>2, <2>3 DEF Line!First
<1>7. \A v \in Workers \ {w} : pc'[v] = pc[v] /\ hand'[v] = hand[v]
  BY DEF Shape, TypeOK, DequeueRemove, Goto, Actors
<1>8. Taken' = [Taken EXCEPT ![w] = hand[w]]
  BY <1>2, <1>7, OneTaken
<1>9. Taken[w] = NoJob
  BY <1>2 DEF Taken
<1>10. Line!Take(w)
  BY <1>5, <1>6, <1>8, <1>9 DEF Line!Take, Line!First
<1> QED
  BY <1>10 DEF Line!LineNext

(* What the line does not show: slots that keep their jobs, workers that   *)
(* take none.                                                              *)
SlotsRest ==
  /\ head \in Int /\ tail \in Int /\ head' \in Int /\ tail' \in Int
  /\ \A k \in Int : HasJob(k)' <=> HasJob(k)
  /\ \A k \in Int : HasJob(k) => item'[k] = item[k]

HandsRest == \A w \in Workers : HasTaken(w)' => HasTaken(w) /\ hand'[w] = hand[w]

LEMMA RestIsUnseen ==
  ASSUME HandsFit, HandsRest, SlotsRest \/ UNCHANGED queueVars
  PROVE  Line!LineNext
<1>1. CASE SlotsRest
  BY <1>1, SameLine, PartsOnly DEF SlotsRest, HandsRest
<1>2. CASE UNCHANGED queueVars
  <2>1. Waiting' = Waiting
    BY <1>2 DEF Waiting, queueVars
  <2> QED
    BY <2>1, PartsOnly DEF HandsRest
<1> QED
  BY <1>1, <1>2

(* Every step of the queue is a step of the line: the counter of Enqueue   *)
(* and of Requeue, the removal of TryDequeue, and the end of a fetched job *)
(* are the ones it shows.                                                  *)
LEMMA LineSteps ==
  ASSUME Shape, SlotsFit, Next
  PROVE  Line!LineNext
<1> USE JobQueueAssumption, SlotsType
    DEF HandsRest, HasTaken, SlotsFit, Shape, TypeOK, ControlFits, HandsFit, RequeuePCs,
        Carriers, CarryPCs, EnqueuePCs, ClientPCs, DequeuePCs, Actors, Goto, PutBack,
        queueVars, actorVars
<1>1. ASSUME NEW j \in Jobs, StartEnqueue(j)  PROVE Line!LineNext
  <2>1. UNCHANGED queueVars
    BY <1>1 DEF StartEnqueue
  <2>2. HandsRest
    BY <1>1 DEF StartEnqueue
  <2> QED
    BY <2>1, <2>2, RestIsUnseen
<1>2. ASSUME NEW a \in Actors, EnqueueLock(a)  PROVE Line!LineNext
  <2>1. UNCHANGED queueVars
    BY <1>2 DEF EnqueueLock
  <2>2. HandsRest
    BY <1>2 DEF EnqueueLock
  <2> QED
    BY <2>1, <2>2, RestIsUnseen
<1>3. ASSUME NEW a \in Actors, EnqueueItem(a)  PROVE Line!LineNext
  <2>1. /\ head \in Int /\ tail \in Int /\ UNCHANGED <<head, tail>>
        /\ \A k \in Int : k # tail => item'[k] = item[k]
    BY <1>3 DEF EnqueueItem
  <2>2. \A k \in head .. tail - 1 : k # tail
    BY <2>1
  <2>3. SlotsRest
    BY <2>1, <2>2 DEF SlotsRest, HasJob
  <2>4. HandsRest
    BY <1>3 DEF EnqueueItem
  <2> QED
    BY <2>3, <2>4, RestIsUnseen
<1>5. ASSUME NEW w \in Workers, Wake(w)  PROVE Line!LineNext
  <2>1. UNCHANGED queueVars
    BY <1>5 DEF Wake
  <2>2. HandsRest
    BY <1>5 DEF Wake
  <2> QED
    BY <2>1, <2>2, RestIsUnseen
<1>6. ASSUME NEW w \in Workers, DequeueLock(w)  PROVE Line!LineNext
  <2>1. UNCHANGED queueVars
    BY <1>6 DEF DequeueLock
  <2>2. HandsRest
    BY <1>6 DEF DequeueLock
  <2> QED
    BY <2>1, <2>2, RestIsUnseen
<1>7. ASSUME NEW w \in Workers, DequeueTimesOut(w)  PROVE Line!LineNext
  <2>1. UNCHANGED queueVars
    BY <1>7 DEF DequeueTimesOut
  <2>2. HandsRest
    BY <1>7 DEF DequeueTimesOut
  <2> QED
    BY <2>1, <2>2, RestIsUnseen
<1>8. ASSUME NEW w \in Workers, DequeueEmpty(w)  PROVE Line!LineNext
  <2>1. UNCHANGED queueVars
    BY <1>8 DEF DequeueEmpty
  <2>2. HandsRest
    BY <1>8 DEF DequeueEmpty
  <2> QED
    BY <2>1, <2>2, RestIsUnseen
<1>9. ASSUME NEW w \in Workers, DequeueSkip(w)  PROVE Line!LineNext
  <2>1. /\ head \in Int /\ tail \in Int /\ UNCHANGED <<tail, item>>
        /\ head' = head + 1 /\ item[head] = NoJob
    BY <1>9 DEF DequeueSkip
  <2> HIDE DEF HandsRest, HasTaken, SlotsFit, Shape, TypeOK, ControlFits, HandsFit
  <2>2. \A k \in Int : k # head => (k \in head' .. tail' - 1 <=> k \in head .. tail - 1)
    BY <2>1
  <2>3. \A k \in Int : HasJob(k)' <=> HasJob(k)
    BY <2>1, <2>2 DEF HasJob
  <2>4. head' \in Int /\ tail' \in Int
    BY <2>1
  <2>5. SlotsRest
    BY <2>1, <2>3, <2>4 DEF SlotsRest
  <2> USE DEF HandsRest, HasTaken, SlotsFit, Shape, TypeOK, ControlFits, HandsFit
  <2>6. HandsRest
    BY <1>9 DEF DequeueSkip
  <2> QED
    BY <2>5, <2>6, RestIsUnseen
<1>10. ASSUME NEW w \in Workers, DequeueGet(w)  PROVE Line!LineNext
  <2>1. UNCHANGED queueVars
    BY <1>10 DEF DequeueGet
  <2>2. HandsRest
    BY <1>10 DEF DequeueGet
  <2> QED
    BY <2>1, <2>2, RestIsUnseen
<1>12. ASSUME NEW w \in Workers, DequeueAdvance(w)  PROVE Line!LineNext
  <2>1. /\ head \in Int /\ tail \in Int /\ UNCHANGED <<tail, item>>
        /\ head' = head + 1 /\ item[head] = NoJob
    BY <1>12 DEF DequeueAdvance
  <2> HIDE DEF HandsRest, HasTaken, SlotsFit, Shape, TypeOK, ControlFits, HandsFit
  <2>2. \A k \in Int : k # head => (k \in head' .. tail' - 1 <=> k \in head .. tail - 1)
    BY <2>1
  <2>3. \A k \in Int : HasJob(k)' <=> HasJob(k)
    BY <2>1, <2>2 DEF HasJob
  <2>4. head' \in Int /\ tail' \in Int
    BY <2>1
  <2>5. SlotsRest
    BY <2>1, <2>3, <2>4 DEF SlotsRest
  <2> USE DEF HandsRest, HasTaken, SlotsFit, Shape, TypeOK, ControlFits, HandsFit
  <2>6. HandsRest
    BY <1>12 DEF DequeueAdvance
  <2> QED
    BY <2>5, <2>6, RestIsUnseen
<1>13. ASSUME NEW w \in Workers, MarkAsProcessing(w)  PROVE Line!LineNext
  <2>1. UNCHANGED queueVars
    BY <1>13 DEF MarkAsProcessing
  <2>2. HandsRest
    BY <1>13 DEF MarkAsProcessing
  <2> QED
    BY <2>1, <2>2, RestIsUnseen
<1>14. ASSUME NEW w \in Workers, MarkFails(w)  PROVE Line!LineNext
  <2>1. UNCHANGED queueVars
    BY <1>14 DEF MarkFails
  <2>2. HandsRest
    BY <1>14 DEF MarkFails
  <2> QED
    BY <2>1, <2>2, RestIsUnseen
<1>15. ASSUME NEW w \in Workers, Perform(w)  PROVE Line!LineNext
  <2>1. UNCHANGED queueVars
    BY <1>15 DEF Perform
  <2>2. HandsRest
    BY <1>15 DEF Perform
  <2> QED
    BY <2>1, <2>2, RestIsUnseen
<1>16. ASSUME NEW w \in Workers, GiveUp(w)  PROVE Line!LineNext
  <2>1. UNCHANGED queueVars
    BY <1>16 DEF GiveUp
  <2>2. HandsRest
    BY <1>16 DEF GiveUp
  <2> QED
    BY <2>1, <2>2, RestIsUnseen
<1>17. ASSUME NEW w \in Workers, Clear(w)  PROVE Line!LineNext
  <2>1. UNCHANGED queueVars
    BY <1>17 DEF Clear
  <2>2. HandsRest
    BY <1>17 DEF Clear
  <2> QED
    BY <2>1, <2>2, RestIsUnseen
<1>18. ASSUME NEW w \in Workers, ClearThrows(w)  PROVE Line!LineNext
  <2>1. UNCHANGED queueVars
    BY <1>18 DEF ClearThrows
  <2>2. HandsRest
    BY <1>18 DEF ClearThrows
  <2> QED
    BY <2>1, <2>2, RestIsUnseen
<1>19. ASSUME NEW w \in Workers, Renew(w)  PROVE Line!LineNext
  <2>1. UNCHANGED queueVars
    BY <1>19 DEF Renew
  <2>2. HandsRest
    BY <1>19 DEF Renew
  <2> QED
    BY <2>1, <2>2, RestIsUnseen
<1>20. ASSUME NEW a \in Workers \cup Servers, RequeueLock(a)  PROVE Line!LineNext
  <2>1. UNCHANGED queueVars
    BY <1>20 DEF RequeueLock
  <2>2. HandsRest
    BY <1>20 DEF RequeueLock
  <2> QED
    BY <2>1, <2>2, RestIsUnseen
<1>21. ASSUME NEW a \in Workers \cup Servers, RequeueItem(a)  PROVE Line!LineNext
  <2>1. /\ head \in Int /\ tail \in Int /\ UNCHANGED <<head, tail>>
        /\ \A k \in Int : k # head - 1 => item'[k] = item[k]
    BY <1>21 DEF RequeueItem
  <2>2. \A k \in head .. tail - 1 : k # head - 1
    BY <2>1
  <2>3. SlotsRest
    BY <2>1, <2>2 DEF SlotsRest, HasJob
  <2>4. HandsRest
    BY <1>21 DEF RequeueItem
  <2> QED
    BY <2>3, <2>4, RestIsUnseen
<1>23. ASSUME NEW a \in Workers \cup Servers, RequeueTimesOut(a)  PROVE Line!LineNext
  <2>1. UNCHANGED queueVars
    BY <1>23 DEF RequeueTimesOut
  <2>2. HandsRest
    BY <1>23 DEF RequeueTimesOut
  <2> QED
    BY <2>1, <2>2, RestIsUnseen
<1>24. ASSUME NEW s \in Servers, TakeStale(s)  PROVE Line!LineNext
  <2>1. UNCHANGED queueVars
    BY <1>24 DEF TakeStale
  <2>2. HandsRest
    BY <1>24 DEF TakeStale
  <2> QED
    BY <2>1, <2>2, RestIsUnseen
<1>25. ASSUME NEW s \in Servers, RequeueNext(s)  PROVE Line!LineNext
  <2>1. UNCHANGED queueVars
    BY <1>25 DEF RequeueNext
  <2>2. HandsRest
    BY <1>25 DEF RequeueNext
  <2> QED
    BY <2>1, <2>2, RestIsUnseen
<1>26. ASSUME NEW s \in Servers, AnnounceServer(s)  PROVE Line!LineNext
  <2>1. UNCHANGED queueVars
    BY <1>26 DEF AnnounceServer
  <2>2. HandsRest
    BY <1>26 DEF AnnounceServer
  <2> QED
    BY <2>1, <2>2, RestIsUnseen
<1>27. ASSUME NEW s \in Servers, RemoveTimedOutServer(s)  PROVE Line!LineNext
  <2>1. UNCHANGED queueVars
    BY <1>27 DEF RemoveTimedOutServer
  <2>2. HandsRest
    BY <1>27 DEF RemoveTimedOutServer
  <2> QED
    BY <2>1, <2>2, RestIsUnseen
<1>28. ASSUME NEW s \in Servers, Crash(s)  PROVE Line!LineNext
  <2>1. UNCHANGED queueVars
    BY <1>28 DEF Crash
  <2>2. HandsRest
    BY <1>28 DEF Crash
  <2> QED
    BY <2>1, <2>2, RestIsUnseen
<1>29. ASSUME NEW s \in Servers, NEW j \in Jobs, GoStale(s, j)  PROVE Line!LineNext
  <2>1. UNCHANGED queueVars
    BY <1>29 DEF GoStale
  <2>2. HandsRest
    BY <1>29 DEF GoStale
  <2> QED
    BY <2>1, <2>2, RestIsUnseen
<1>30. ASSUME NEW a \in Actors, CallFails(a)  PROVE Line!LineNext
  <2>1. UNCHANGED queueVars
    BY <1>30 DEF CallFails
  <2>2. HandsRest
    BY <1>30 DEF CallFails
  <2> QED
    BY <2>1, <2>2, RestIsUnseen
<1>31. ASSUME LeaseEnds  PROVE Line!LineNext
  <2>1. UNCHANGED queueVars
    BY <1>31 DEF LeaseEnds
  <2>2. HandsRest
    BY <1>31 DEF LeaseEnds
  <2> QED
    BY <2>1, <2>2, RestIsUnseen
<1> HIDE JobQueueAssumption, SlotsType
    DEF HandsRest, HasTaken, SlotsFit, Shape, TypeOK, ControlFits, HandsFit, RequeuePCs,
        Carriers, CarryPCs, EnqueuePCs, ClientPCs, DequeuePCs, Actors, Goto, PutBack,
        queueVars, actorVars
<1>32. ASSUME NEW a \in Actors, EnqueueStep(a)  PROVE Line!LineNext
  BY <1>2, <1>3, <1>32, EnqueueTailAdds DEF EnqueueStep
<1>33. ASSUME NEW a \in Workers \cup Servers, RequeueStep(a)  PROVE Line!LineNext
  <2>1. a \in Actors
    BY DEF Actors
  <2> QED
    BY <1>20, <1>21, <1>23, <1>32, <1>33, <2>1, RequeueHeadAdds DEF RequeueStep
<1>34. ASSUME NEW w \in Workers, DequeueStep(w)  PROVE Line!LineNext
  BY <1>5, <1>6, <1>7, <1>8, <1>9, <1>10, <1>12, <1>13, <1>34, DequeueRemoveTakes
     DEF DequeueStep
<1>35. ASSUME NEW w \in Workers, WorkerStep(w) \/ Mishap(w)  PROVE Line!LineNext
  <2>1. CASE WorkerStep(w)
    BY <1>15, <1>17, <1>33, <1>34, <2>1 DEF WorkerStep
  <2>2. CASE Mishap(w)
    BY <1>14, <1>16, <1>18, <1>19, <2>2 DEF Mishap
  <2> QED
    BY <1>35, <2>1, <2>2
<1>36. ASSUME NEW s \in Servers, WatcherStep(s)  PROVE Line!LineNext
  BY <1>24, <1>25, <1>33, <1>36 DEF WatcherStep
<1> QED
  BY <1>1, <1>26, <1>27, <1>28, <1>29, <1>30, <1>31, <1>32, <1>35, <1>36 DEF Next, Actors

(* ImplementsLine: the protocol of two counters, an item per slot and two  *)
(* locks is a line of jobs, for any number of clients, workers and         *)
(* servers, whatever crashes or throws.                                    *)
THEOREM QueueImplementsLine == Spec => ImplementsLine
<1>1. Init => Line!LineInit
  <2> SUFFICES ASSUME Init  PROVE Line!LineInit
    OBVIOUS
  <2>1. head = 0 /\ tail = 0
    BY DEF Init
  <2>2. {i \in head .. tail - 1 : item[i] # NoJob} = {}
    BY <2>1
  <2>3. Waiting = [k \in {} |-> NoJob]
    BY <2>2 DEF Waiting
  <2>4. \A w \in Workers : ~HasTaken(w)
    BY JobQueueAssumption DEF Init, HasTaken, Actors, RequeuePCs
  <2>5. Taken = [w \in Workers |-> NoJob]
    BY <2>4 DEF Taken
  <2> QED
    BY <2>3, <2>5 DEF Line!LineInit
<1>2. JobQueueInv /\ [Next]_vars => [Line!LineNext]_(Line!lineVars)
  <2> SUFFICES ASSUME JobQueueInv, [Next]_vars  PROVE [Line!LineNext]_(Line!lineVars)
    OBVIOUS
  <2>1. CASE Next
    BY <2>1, LineSteps DEF JobQueueInv
  <2>2. CASE UNCHANGED vars
    <3>1. Waiting' = Waiting
      BY <2>2 DEF Waiting, vars, queueVars
    <3>2. Taken' = Taken
      BY <2>2, NoneTaken DEF vars, actorVars
    <3> QED
      BY <3>1, <3>2 DEF Line!lineVars
  <2> QED
    BY <2>1, <2>2
<1> QED
  BY <1>1, <1>2, InvAlways, PTL DEF Spec, ImplementsLine, Line!LineSpec

-----------------------------------------------------------------------------
(* What EnqueuedIsDone rests on.  Whoever works on something runs: nothing *)
(* waits for an actor that is gone, and no list of stale jobs is left with *)
(* a watcher that is.                                                      *)
WorkGoesOn ==
  /\ \A w \in Workers : pc[w] # "idle" => ServerOf[w] \in up
  /\ \A s \in Servers : pc[s] # "idle" \/ todo[s] # {} => s \in up

(* Every lock has somebody inside who will give it back, or is an orphan,  *)
(* and ends with its lease.  No return, exception or crash on the way of   *)
(* Enqueue, TryDequeue and Requeue leaves one behind.                      *)
LocksHaveUsers ==
  /\ headLock \in Carriers =>
       pc[headLock] \in {"dequeue", "remove", "advance", "reqItem", "reqHead"}
  /\ tailLock \in Actors => pc[tailLock] \in {"enqItem", "enqTail"}

InUse == WorkGoesOn /\ LocksHaveUsers

(* Every step that leaves a critical section gives its lock back.          *)
LEMMA InUseKept ==
  ASSUME Shape, HeadGuarded, TailGuarded, InUse, Next
  PROVE  InUse'
<1> USE JobQueueAssumption
    DEF InUse, WorkGoesOn, LocksHaveUsers, HeadGuarded, TailGuarded, Release, Runs, up,
        Shape, TypeOK, ControlFits, Carriers, EnqueuePCs, ClientPCs, DequeuePCs,
        RequeuePCs, Actors, Goto, PutBack, queueVars, lockVars, serverVars, actorVars,
        past, vars
<1>1. ASSUME NEW j \in Jobs, StartEnqueue(j)  PROVE InUse'
  BY <1>1 DEF StartEnqueue
<1>2. ASSUME NEW a \in Actors, Runs(a), EnqueueLock(a)  PROVE InUse'
  BY <1>2 DEF EnqueueLock
<1>3. ASSUME NEW a \in Actors, Runs(a), EnqueueItem(a)  PROVE InUse'
  BY <1>3 DEF EnqueueItem
<1>4. ASSUME NEW a \in Actors, Runs(a), EnqueueTail(a)  PROVE InUse'
  BY <1>4 DEF EnqueueTail
<1>5. ASSUME NEW w \in Workers, ServerOf[w] \in up, Wake(w)  PROVE InUse'
  BY <1>5 DEF Wake
<1>6. ASSUME NEW w \in Workers, ServerOf[w] \in up, DequeueLock(w)  PROVE InUse'
  BY <1>6 DEF DequeueLock
<1>7. ASSUME NEW w \in Workers, ServerOf[w] \in up, DequeueTimesOut(w)  PROVE InUse'
  BY <1>7 DEF DequeueTimesOut
<1>8. ASSUME NEW w \in Workers, ServerOf[w] \in up, DequeueEmpty(w)  PROVE InUse'
  BY <1>8 DEF DequeueEmpty
<1>9. ASSUME NEW w \in Workers, ServerOf[w] \in up, DequeueSkip(w)  PROVE InUse'
  BY <1>9 DEF DequeueSkip
<1>10. ASSUME NEW w \in Workers, ServerOf[w] \in up, DequeueGet(w)  PROVE InUse'
  BY <1>10 DEF DequeueGet
<1>11. ASSUME NEW w \in Workers, ServerOf[w] \in up, DequeueRemove(w)  PROVE InUse'
  BY <1>11 DEF DequeueRemove
<1>12. ASSUME NEW w \in Workers, ServerOf[w] \in up, DequeueAdvance(w)  PROVE InUse'
  BY <1>12 DEF DequeueAdvance
<1>13. ASSUME NEW w \in Workers, ServerOf[w] \in up, MarkAsProcessing(w)  PROVE InUse'
  BY <1>13 DEF MarkAsProcessing
<1>14. ASSUME NEW w \in Workers, ServerOf[w] \in up, MarkFails(w)  PROVE InUse'
  BY <1>14 DEF MarkFails
<1>15. ASSUME NEW w \in Workers, ServerOf[w] \in up, Perform(w)  PROVE InUse'
  BY <1>15 DEF Perform
<1>16. ASSUME NEW w \in Workers, ServerOf[w] \in up, GiveUp(w)  PROVE InUse'
  BY <1>16 DEF GiveUp
<1>17. ASSUME NEW w \in Workers, ServerOf[w] \in up, Clear(w)  PROVE InUse'
  BY <1>17 DEF Clear
<1>18. ASSUME NEW w \in Workers, ServerOf[w] \in up, ClearThrows(w)  PROVE InUse'
  BY <1>18 DEF ClearThrows
<1>19. ASSUME NEW w \in Workers, ServerOf[w] \in up, Renew(w)  PROVE InUse'
  BY <1>19 DEF Renew
<1>20. ASSUME NEW a \in Carriers, Runs(a), RequeueLock(a)  PROVE InUse'
  BY <1>20 DEF RequeueLock
<1>21. ASSUME NEW a \in Carriers, Runs(a), RequeueItem(a)  PROVE InUse'
  BY <1>21 DEF RequeueItem
<1>22. ASSUME NEW a \in Carriers, Runs(a), RequeueHead(a)  PROVE InUse'
  BY <1>22 DEF RequeueHead
<1>23. ASSUME NEW a \in Carriers, Runs(a), RequeueTimesOut(a)  PROVE InUse'
  BY <1>23 DEF RequeueTimesOut
<1>24. ASSUME NEW s \in Servers, s \in up, TakeStale(s)  PROVE InUse'
  BY <1>24 DEF TakeStale
<1>25. ASSUME NEW s \in Servers, s \in up, RequeueNext(s)  PROVE InUse'
  BY <1>25 DEF RequeueNext
<1>26. ASSUME NEW s \in Servers, AnnounceServer(s)  PROVE InUse'
  BY <1>26 DEF AnnounceServer
<1>27. ASSUME NEW s \in Servers, RemoveTimedOutServer(s)  PROVE InUse'
  BY <1>27 DEF RemoveTimedOutServer
<1>28. ASSUME NEW s \in Servers, Crash(s)  PROVE InUse'
  BY <1>28 DEF Crash
<1>29. ASSUME NEW s \in Servers, NEW j \in Jobs, GoStale(s, j)  PROVE InUse'
  BY <1>29 DEF GoStale
<1>30. ASSUME NEW a \in Actors, CallFails(a)  PROVE InUse'
  BY <1>30 DEF CallFails
<1>31. ASSUME LeaseEnds  PROVE InUse'
  BY <1>31 DEF LeaseEnds
<1> HIDE JobQueueAssumption
    DEF InUse, WorkGoesOn, LocksHaveUsers, HeadGuarded, TailGuarded, Release, Runs, up,
        Shape, TypeOK, ControlFits, Carriers, EnqueuePCs, ClientPCs, DequeuePCs,
        RequeuePCs, Actors, Goto, PutBack, queueVars, lockVars, serverVars, actorVars,
        past, vars
<1>32. ASSUME NEW a \in Actors, Runs(a), EnqueueStep(a)  PROVE InUse'
  BY <1>2, <1>3, <1>4, <1>32 DEF EnqueueStep
<1>33. ASSUME NEW a \in Carriers, Runs(a), RequeueStep(a)  PROVE InUse'
  <2>1. a \in Actors
    BY DEF Actors, Carriers
  <2> QED
    BY <1>20, <1>21, <1>22, <1>23, <1>32, <1>33, <2>1 DEF RequeueStep
<1>34. ASSUME NEW w \in Workers, ServerOf[w] \in up, DequeueStep(w)  PROVE InUse'
  BY <1>5, <1>6, <1>7, <1>8, <1>9, <1>10, <1>11, <1>12, <1>13, <1>34 DEF DequeueStep
<1>35. ASSUME NEW w \in Workers, WorkerStep(w) \/ Mishap(w)  PROVE InUse'
  <2>1. w \in Carriers /\ (ServerOf[w] \in up => Runs(w))
    BY DEF Carriers, Runs
  <2>2. CASE WorkerStep(w)
    BY <1>15, <1>17, <1>33, <1>34, <2>1, <2>2 DEF WorkerStep
  <2>3. CASE Mishap(w)
    BY <1>14, <1>16, <1>18, <1>19, <2>3 DEF Mishap
  <2> QED
    BY <1>35, <2>2, <2>3
<1>36. ASSUME NEW s \in Servers, WatcherStep(s)  PROVE InUse'
  <2>1. s \in Carriers /\ (s \in up => Runs(s))
    BY DEF Carriers, Runs
  <2> QED
    BY <1>24, <1>25, <1>33, <1>36, <2>1 DEF WatcherStep
<1>37. ASSUME NEW j \in Jobs, EnqueueStep(j)  PROVE InUse'
  BY <1>32, <1>37 DEF Runs, Actors
<1> QED
  BY <1>1, <1>26, <1>27, <1>28, <1>29, <1>30, <1>31, <1>35, <1>36, <1>37 DEF Next

(* WorkGoesOn and LocksHaveUsers, together: neither lock waits for ever    *)
(* for somebody who is not there, whatever crashes or throws, and however  *)
(* many servers and workers there are.                                     *)
THEOREM NoLockIsStuck == Spec => [](WorkGoesOn /\ LocksHaveUsers)
<1>1. Init => InUse
  BY JobQueueAssumption DEF Init, InUse, WorkGoesOn, LocksHaveUsers, Actors, Carriers
<1>2. JobQueueInv /\ InUse /\ [Next]_vars => InUse'
  <2> SUFFICES ASSUME JobQueueInv, InUse, [Next]_vars  PROVE InUse'
    OBVIOUS
  <2>1. CASE Next
    BY <2>1, InUseKept DEF JobQueueInv
  <2>2. CASE UNCHANGED vars
    BY <2>2 DEF InUse, WorkGoesOn, LocksHaveUsers, up, vars, lockVars, serverVars, actorVars
  <2> QED
    BY <2>1, <2>2
<1>3. InUse => WorkGoesOn /\ LocksHaveUsers
  BY DEF InUse
<1> QED
  BY <1>1, <1>2, <1>3, InvAlways, PTL DEF Spec
=============================================================================
