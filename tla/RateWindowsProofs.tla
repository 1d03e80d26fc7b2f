-------------------------- MODULE RateWindowsProofs --------------------------
(***************************************************************************)
(* The window limiters, for every set of processes, every limit, window    *)
(* and replenishment and any number of crashes: who can shut everybody     *)
(* out, that a fixed window is charged by every write and never reopened,  *)
(* and what each of the three limiters grants at most in a stretch of      *)
(* time.  The last four take it that nobody outlives the lease of the lock *)
(* (Prompt).                                                               *)
(***************************************************************************)
EXTENDS RateWindows, TLAPS

(* TypeOK, but for the states themselves and what is made of them. *)
Shape ==
  /\ kind \in Kinds
  /\ now \in Times
  /\ keys \subseteq {"lock", "stats"}
  /\ pc \in [Procs -> PCs]
  /\ step \in [Procs -> 1 .. 3]
  /\ permits \in [Procs -> 0 .. Limit]
  /\ asked \in [Procs -> Times]

LEMMA ShapeIsInvariant == Spec => []Shape
<1> USE LeaseAssumption, WindowsAssumption
<1>1. Init => Shape
  BY DEF Init, Shape, PCs, Times
<1>2. Shape /\ [Next]_vars => Shape'
  <2> SUFFICES ASSUME Shape, [Next]_vars
               PROVE  Shape'
    OBVIOUS
  <2> USE DEF Shape, PCs, Goto, state, history
  <2>1. ASSUME NEW p \in Procs, Construct(p) \/ ConstructThrows(p)
        PROVE  Shape'
    <3>1. CASE Construct(p)
      <4>1. /\ UNCHANGED <<kind, now, permits, asked>>
            /\ \E l \in {"idle", "ctor"} : pc' = [pc EXCEPT ![p] = l]
        BY <3>1 DEF Construct
      <4>3. Order[step[p]] \in {"state", "lock", "stats"}
        BY DEF Order
      <4>4. keys' \subseteq {"lock", "stats"}
        <5>1. \/ keys' = keys
              \/ Order[step[p]] # "state" /\ keys' = keys \cup {Order[step[p]]}
          BY <3>1, Zenon DEF Construct, AddItem
        <5>2. keys \subseteq {"lock", "stats"}
          OBVIOUS
        <5> QED
          BY <4>3, <5>1, <5>2, Zenon
      <4>2. \E i \in 1 .. 3 : step' = [step EXCEPT ![p] = i]
        <5>1. CASE step[p] = 3
          BY <3>1, <5>1 DEF Construct
        <5>2. CASE step[p] # 3
          <6>1. step[p] + 1 \in 1 .. 3
            BY <5>2
          <6>2. \/ step' = [step EXCEPT ![p] = 1]
                \/ step' = [step EXCEPT ![p] = step[p] + 1]
            BY <3>1 DEF Construct
          <6> QED
            BY <6>1, <6>2
        <5> QED
          BY <5>1, <5>2
      <4> QED
        BY <4>1, <4>2, <4>4
    <3>2. CASE ConstructThrows(p)
      BY <3>2 DEF ConstructThrows
    <3> QED
      BY <2>1, <3>1, <3>2
  <2>2. ASSUME NEW p \in Procs,
               Ask(p) \/ Lock(p) \/ LockThrows(p) \/ LockTimesOut(p) \/ Get(p)
        PROVE  Shape'
    <3>1. CASE Ask(p)
      BY <3>1 DEF Ask, Times
    <3>2. CASE Lock(p)
      <4>1. asked' = asked \/ asked' = [asked EXCEPT ![p] = now]
        BY <3>2 DEF Lock
      <4> QED
        BY <3>2, <4>1 DEF Lock
    <3>4. CASE LockThrows(p)
      BY <3>4 DEF LockThrows
    <3>5. CASE LockTimesOut(p)
      BY <3>5 DEF LockTimesOut, End, Times
    <3>3. CASE Get(p)
      <4>1. permits' = permits \/ permits' = [permits EXCEPT ![p] = 0]
        BY <3>3 DEF Get
      <4> QED
        BY <3>3, <4>1 DEF Get
    <3> QED
      BY <2>2, <3>1, <3>2, <3>3, <3>4, <3>5
  <2>3. ASSUME NEW p \in Procs,
               Put(p) \/ CallThrows(p) \/ Unlock(p) \/ UnlockFails(p) \/ Crash(p)
        PROVE  Shape'
    <3>1. CASE Put(p)
      BY <3>1 DEF Put, End, Times
    <3>2. CASE CallThrows(p)
      BY <3>2 DEF CallThrows, End, Times
    <3>3. CASE Unlock(p) \/ UnlockFails(p)
      BY <3>3 DEF Unlock, UnlockFails
    <3>4. CASE Crash(p)
      BY <3>4 DEF Crash, End, Times
    <3> QED
      BY <2>3, <3>1, <3>2, <3>3, <3>4
  <2>4. CASE Tick
    BY <2>4 DEF Tick, Times
  <2>5. CASE UNCHANGED vars
    BY <2>5 DEF vars
  <2> QED
    BY <2>1, <2>2, <2>3, <2>4, <2>5 DEF Next
<1> QED
  BY <1>1, <1>2, PTL DEF Spec

-----------------------------------------------------------------------------
(* Until the item to be locked is there, either nothing is, or one         *)
(* constructor is on its way to add it and the others have given up.       *)
Untouched ==
  /\ item = NoItem
  /\ keys = {}
  /\ \A p \in Procs : pc[p] = "ctor" /\ step[p] = 1

Adds(p) ==
  /\ pc[p] = "ctor"
  /\ \A q \in Procs \ {p} : step[q] = 1
  /\ \/ step[p] = 2 /\ keys = {}
     \/ step[p] = 3 /\ kind # "fixed"

OneAdds ==
  /\ item # NoItem
  /\ ttl = Forever
  /\ \E p \in Procs : Adds(p)

(* And whoever is past Lock has found it. *)
LockFound == \A p \in Procs : pc[p] \in {"get", "put", "unlock"} => "lock" \in keys

OpeningInv == (cut \/ "lock" \in keys \/ Untouched \/ OneAdds) /\ LockFound

LEMMA AStateIsAnItem ==
  ASSUME Shape
  PROVE  Empty(now) # NoItem
<1> USE WindowsAssumption
<1>1. kind \in {"fixed", "sliding", "bucket"}
  BY DEF Shape
<1>2. CASE kind = "fixed"
  <2>1. [count |-> 0, expires |-> now] \in Fixed
    BY DEF Shape, Times, Fixed
  <2> QED
    BY <1>2, <2>1 DEF Empty
<1>3. CASE kind = "sliding"
  <2>1. None \in Sliding
    BY DEF None, Sliding, Tallies, Times
  <2> QED
    BY <1>3, <2>1 DEF Empty
<1>4. CASE kind = "bucket"
  <2>1. [tokens |-> Limit, refreshed |-> now] \in Bucket
    BY DEF Shape, Bucket
  <2> QED
    BY <1>4, <2>1 DEF Empty
<1> QED
  BY <1>1, <1>2, <1>3, <1>4

(* A step of the constructor. *)
LEMMA ConstructKeepsOpening ==
  ASSUME Shape, OpeningInv, NEW p \in Procs, Construct(p)
  PROVE  OpeningInv'
<1> USE DEF Shape, OpeningInv
<1>1. /\ pc[p] = "ctor"
      /\ \E l \in {"idle", "ctor"} : pc' = [pc EXCEPT ![p] = l]
      /\ keys \subseteq keys'
      /\ cut' = cut
      /\ kind' = kind
  BY DEF Construct, Goto, AddItem, state, history
<1>2. LockFound'
  BY <1>1 DEF LockFound
<1>3. CASE cut \/ "lock" \in keys
  BY <1>1, <1>2, <1>3
<1>4. CASE Untouched
  <2>1. Order[step[p]] = "state" /\ ~Exists("state") /\ step[p] = 1
    BY <1>4 DEF Untouched, Order, Exists
  <2>2. /\ item' = Empty(now) /\ ttl' = Forever /\ keys' = keys
        /\ step' = [step EXCEPT ![p] = 2]
        /\ pc' = [pc EXCEPT ![p] = "ctor"]
    BY <2>1 DEF Construct, AddItem, Goto
  <2>3. Adds(p)'
    BY <1>4, <2>2 DEF Untouched, Adds
  <2> QED
    BY <1>2, <2>2, <2>3, AStateIsAnItem DEF OneAdds
<1>5. CASE OneAdds /\ "lock" \notin keys
  <2>1. PICK a \in Procs : Adds(a)
    BY <1>5 DEF OneAdds
  <2>2. CASE p # a
    <3>1. Order[step[p]] = "state" /\ Exists("state") /\ step[p] = 1
      BY <1>5, <2>1, <2>2 DEF Adds, OneAdds, Order, Exists
    <3>2. /\ UNCHANGED <<item, ttl, keys>>
          /\ step' = [step EXCEPT ![p] = 1]
          /\ pc' = [pc EXCEPT ![p] = "idle"]
      BY <3>1 DEF Construct, Goto, state
    <3>3. Adds(a)'
      BY <1>1, <2>1, <2>2, <3>2 DEF Adds
    <3> QED
      BY <1>2, <1>5, <3>2, <3>3 DEF OneAdds
  <2>3. CASE p = a /\ Order[step[p]] = "lock"
    <3>1. "lock" \in keys'
      BY <1>5, <2>3 DEF Construct, AddItem, Exists
    <3> QED
      BY <1>2, <3>1
  <2>4. CASE p = a /\ Order[step[p]] # "lock"
    <3>1. Order[step[p]] = "stats" /\ step[p] = 2 /\ keys = {} /\ kind # "fixed"
      BY <2>1, <2>4 DEF Adds, Order
    <3>2. /\ UNCHANGED <<item, ttl>>
          /\ step' = [step EXCEPT ![p] = 3]
          /\ pc' = [pc EXCEPT ![p] = "ctor"]
      BY <3>1 DEF Construct, AddItem, Exists, Goto
    <3>3. Adds(a)'
      BY <1>1, <2>1, <2>4, <3>1, <3>2 DEF Adds
    <3> QED
      BY <1>2, <1>5, <3>2, <3>3 DEF OneAdds
  <2> QED
    BY <2>2, <2>3, <2>4
<1> QED
  BY <1>3, <1>4, <1>5

(* Everything else leaves a first constructor alone, or cuts it short. *)
LEMMA OpeningIsInvariant == Spec => []OpeningInv
<1> USE LeaseAssumption, WindowsAssumption
<1>1. Init => OpeningInv
  BY DEF Init, OpeningInv, Untouched, LockFound
<1>2. Shape /\ OpeningInv /\ [Next]_vars => OpeningInv'
  <2> SUFFICES ASSUME Shape, OpeningInv, [Next]_vars
               PROVE  OpeningInv'
    OBVIOUS
  <2> USE DEF Shape, OpeningInv, LockFound, PCs, Goto, state, history
  <2>1. ASSUME NEW p \in Procs, Construct(p)
        PROVE  OpeningInv'
    BY <2>1, ConstructKeepsOpening
  <2>2. ASSUME NEW p \in Procs, ConstructThrows(p)
        PROVE  OpeningInv'
    BY <2>2 DEF ConstructThrows
  <2>3. ASSUME NEW p \in Procs, Ask(p) \/ LockTimesOut(p) \/ LockThrows(p)
        PROVE  OpeningInv'
    <3>1. /\ pc[p] \in {"idle", "wait"}
          /\ \E l \in {"idle", "wait"} : pc' = [pc EXCEPT ![p] = l]
          /\ UNCHANGED <<cut, kind, item, ttl, keys, step>>
      BY <2>3 DEF Ask, LockTimesOut, LockThrows, End
    <3>2. ~Untouched
      BY <3>1 DEF Untouched
    <3>3. OneAdds => OneAdds'
      BY <3>1 DEF OneAdds, Adds
    <3> QED
      BY <3>1, <3>2, <3>3
  <2>4. ASSUME NEW p \in Procs,
               Lock(p) \/ Get(p) \/ Put(p) \/ CallThrows(p) \/ Unlock(p) \/ UnlockFails(p)
        PROVE  OpeningInv'
    <3>1. "lock" \in keys
      BY <2>4 DEF Lock, Get, Put, CallThrows, Unlock, UnlockFails
    <3>2. "lock" \in keys'
      BY <2>4, <3>1 DEF Lock, Get, Put, CallThrows, Unlock, UnlockFails
    <3> QED
      BY <3>2
  <2>5. ASSUME NEW p \in Procs, Crash(p)
        PROVE  OpeningInv'
    <3>1. CASE pc[p] = "ctor"
      BY <2>5, <3>1 DEF Crash, End
    <3>2. CASE pc[p] # "ctor"
      <4>1. /\ step' = [step EXCEPT ![p] = 1]
            /\ pc' = [pc EXCEPT ![p] = "ctor"]
            /\ UNCHANGED <<kind, item, ttl, keys>>
            /\ cut => cut'
        BY <2>5, <3>2 DEF Crash, End
      <4>2. ~Untouched
        BY <3>2 DEF Untouched
      <4>3. OneAdds => OneAdds'
        BY <3>2, <4>1 DEF OneAdds, Adds
      <4> QED
        BY <4>1, <4>2, <4>3
    <3> QED
      BY <3>1, <3>2
  <2>6. CASE Tick
    <3>1. /\ UNCHANGED <<cut, kind, keys, pc, step>>
          /\ item' = IF ttl = 1 THEN NoItem ELSE item
          /\ ttl = Forever => ttl' = Forever
      BY <2>6 DEF Tick
    <3>2. Untouched => Untouched'
      BY <3>1 DEF Untouched
    <3>3. OneAdds => OneAdds'
      BY <3>1 DEF OneAdds, Adds, Forever
    <3> QED
      BY <3>1, <3>2, <3>3
  <2>7. CASE UNCHANGED vars
    BY <2>7 DEF vars, Untouched, OneAdds, Adds
  <2> QED
    BY <2>1, <2>2, <2>3, <2>4, <2>5, <2>6, <2>7 DEF Next
<1> QED
  BY <1>1, <1>2, ShapeIsInvariant, PTL DEF Spec

(* EnsureInitialized: a manager whose calls are refused for ever, because  *)
(* there is no item to lock, owes it to a constructor that was cut short.  *)
THEOREM OnlyACutConstructorShutsOut == Spec => []ShutOutOnlyByCutConstructor
<1>1. Shape /\ OpeningInv => ShutOutOnlyByCutConstructor
  BY DEF Shape, OpeningInv, Untouched, OneAdds, Adds, ShutOutOnlyByCutConstructor
<1> QED
  BY <1>1, ShapeIsInvariant, OpeningIsInvariant, PTL

-----------------------------------------------------------------------------
(* Prompt processes have the lock from LockKey to the write. *)
LockIsHeld == \A p \in Procs : pc[p] \in {"get", "put"} => holder = p

LEMMA TheLockIsHeld == Prompt => (Spec => []LockIsHeld)
<1> USE LeaseAssumption
<1>1. Init => LockIsHeld
  BY DEF Init, LockIsHeld
<1>2. Prompt /\ Shape /\ LockIsHeld /\ [Next]_vars => LockIsHeld'
  <2> SUFFICES ASSUME Prompt, Shape, LockIsHeld, [Next]_vars
               PROVE  LockIsHeld'
    OBVIOUS
  <2> USE DEF Shape, LockIsHeld, PCs, Goto, End, lockVars
  <2>1. ASSUME NEW p \in Procs, Lock(p)
        PROVE  LockIsHeld'
    BY <2>1 DEF Lock, LockKey, Free
  <2>2. ASSUME NEW p \in Procs, LockThrows(p)
        PROVE  LockIsHeld'
    BY <2>2 DEF LockThrows, Free
  <2>3. ASSUME NEW p \in Procs,
               \/ Construct(p) \/ ConstructThrows(p) \/ Ask(p) \/ LockTimesOut(p)
               \/ Get(p) \/ Put(p) \/ CallThrows(p)
        PROVE  LockIsHeld'
    <3>1. holder' = holder
      BY <2>3 DEF Construct, ConstructThrows, Ask, LockTimesOut, Get, Put, CallThrows
    <3>2. /\ pc[p] \in {"get", "put"} \/ pc'[p] \notin {"get", "put"}
          /\ \E l \in PCs : pc' = [pc EXCEPT ![p] = l]
      BY <2>3 DEF Construct, ConstructThrows, Ask, LockTimesOut, Get, Put, CallThrows
    <3> QED
      BY <3>1, <3>2
  <2>4. ASSUME NEW p \in Procs, Unlock(p) \/ UnlockFails(p) \/ Crash(p)
        PROVE  LockIsHeld'
    <3>1. /\ UnlockKey(p) \/ Abandon(p)
          /\ \E l \in {"idle", "ctor"} : pc' = [pc EXCEPT ![p] = l]
      BY <2>4 DEF Unlock, UnlockFails, Crash
    <3> QED
      BY <3>1 DEF UnlockKey, Abandon
  <2>5. CASE Tick
    BY <2>5 DEF Tick, LeaseRuns
  <2>6. CASE UNCHANGED vars
    BY <2>6 DEF vars
  <2> QED
    BY <2>1, <2>2, <2>3, <2>4, <2>5, <2>6 DEF Next
<1>3. ASSUME Prompt
      PROVE  Spec => []LockIsHeld
  <2>1. Shape /\ LockIsHeld /\ [Next]_vars => LockIsHeld'
    BY <1>2, <1>3
  <2> QED
    BY <1>1, <2>1, ShapeIsInvariant, PTL DEF Spec
<1> QED
  BY <1>3

(* What a write does to the window that is there. *)
Charges(s, t) ==
  \/ /\ t.expires = s.expires
     /\ t.count \in s.count + 1 .. Limit
  \/ /\ t.expires >= s.expires + Window
     /\ t.count \in 1 .. Limit

(* The fixed window's item is there before the item to be locked is, and   *)
(* stays; and whoever is about to write has charged the item that is there. *)
FixedInv ==
  kind = "fixed" =>
    /\ item \in Fixed \cup {NoItem}
    /\ item # NoItem => ttl = Forever
    /\ copy \in [Procs -> Fixed \cup {NoItem}]
    /\ "lock" \in keys \/ (\E p \in Procs : step[p] > 1) => item # NoItem
    /\ \A p \in Procs :
         /\ pc[p] \in {"wait", "get"} => permits[p] > 0
         /\ copy[p] # NoItem => pc[p] = "put" /\ Charges(item, copy[p])

LEMMA GetCharges ==
  ASSUME kind = "fixed", item \in Fixed, Shape, NEW p \in Procs, permits[p] > 0,
         Allowed(Current(Fetched(asked[p]), asked[p]), permits[p])
  PROVE  LET t == Charged(Current(Fetched(asked[p]), asked[p]), asked[p], permits[p])
         IN t \in Fixed /\ Charges(item, t)
<1> USE WindowsAssumption
<1> DEFINE s == CurrentWindow(item, asked[p])
<1>1. Current(Fetched(asked[p]), asked[p]) = s
  BY DEF Current, Fetched
<1>2. /\ permits[p] \in 1 .. Limit /\ asked[p] \in 0 .. MaxTime
      /\ item.count \in 0 .. Limit /\ item.expires \in 0 .. MaxTime + Window
      /\ Window \in Nat \ {0} /\ MaxTime \in Nat /\ Limit \in Nat \ {0}
  BY DEF Shape, Fixed, Times
<1>3. s.count + permits[p] <= Limit
  BY <1>1 DEF Allowed
<1>4. Charged(s, asked[p], permits[p]) = [s EXCEPT !.count = @ + permits[p]]
  BY DEF Charged
<1>5. CASE item.expires <= asked[p]
  <2>1. s = [count |-> 0, expires |-> asked[p] + Window]
    BY <1>5 DEF CurrentWindow
  <2>2. [s EXCEPT !.count = @ + permits[p]]
          = [count |-> permits[p], expires |-> asked[p] + Window]
    BY <1>2, <2>1
  <2> QED
    BY <1>1, <1>2, <1>4, <1>5, <2>2 DEF Fixed, Charges
<1>6. CASE ~(item.expires <= asked[p])
  <2>1. s = item
    BY <1>6 DEF CurrentWindow
  <2>2. [s EXCEPT !.count = @ + permits[p]]
          = [count |-> item.count + permits[p], expires |-> item.expires]
    BY <2>1 DEF Fixed
  <2> QED
    BY <1>1, <1>2, <1>3, <1>4, <2>1, <2>2 DEF Fixed, Charges
<1> QED
  BY <1>5, <1>6

LEMMA FixedInvariant == Prompt => (Spec => []FixedInv)
<1> USE LeaseAssumption, WindowsAssumption
<1>1. Init => FixedInv
  BY DEF Init, FixedInv
<1>2. Shape /\ LockIsHeld /\ OpeningInv /\ FixedInv /\ [Next]_vars => FixedInv'
  <2> SUFFICES ASSUME Shape, LockIsHeld, OpeningInv, FixedInv, [Next]_vars
               PROVE  FixedInv'
    OBVIOUS
  <2>0. kind' = kind
    BY DEF Next, vars, Construct, ConstructThrows, Ask, Lock, LockThrows, LockTimesOut, Get,
           Put, CallThrows, Unlock, UnlockFails, Crash, Tick
  <2> SUFFICES ASSUME kind = "fixed"
               PROVE  FixedInv'
    BY <2>0 DEF FixedInv
  <2> USE <2>0 DEF Shape, FixedInv, PCs, Goto, state, history
  <2>1. ASSUME NEW p \in Procs, Construct(p)
        PROVE  FixedInv'
    <3>1. /\ UNCHANGED <<permits, copy>>
          /\ pc[p] = "ctor"
          /\ \E l \in {"idle", "ctor"} : pc' = [pc EXCEPT ![p] = l]
      BY <2>1 DEF Construct
    <3>2. CASE step[p] = 1 /\ item = NoItem
      <4>1. Order[step[p]] = "state" /\ ~Exists("state")
        BY <3>2 DEF Order, Exists
      <4>2. item' = [count |-> 0, expires |-> now] /\ ttl' = Forever
        BY <2>1, <4>1 DEF Construct, AddItem, Empty
      <4>3. item' \in Fixed
        BY <4>2 DEF Fixed, Times
      <4>4. \A q \in Procs : pc[q] # "put"
        BY <3>2 DEF OpeningInv, LockFound
      <4> QED
        BY <3>1, <4>2, <4>3, <4>4
    <3>3. CASE step[p] = 1 /\ item # NoItem
      <4>1. Order[step[p]] = "state" /\ Exists("state")
        BY <3>3 DEF Order, Exists
      <4>2. UNCHANGED <<item, ttl, keys>>
        BY <2>1, <4>1 DEF Construct
      <4> QED
        BY <3>1, <3>3, <4>2
    <3>4. CASE step[p] # 1
      <4>1. item # NoItem /\ Order[step[p]] \in {"lock", "stats"}
        BY <3>4 DEF Order
      <4>2. UNCHANGED <<item, ttl>>
        BY <2>1, <4>1 DEF Construct, AddItem
      <4> QED
        BY <3>1, <4>1, <4>2
    <3> QED
      BY <3>2, <3>3, <3>4
  <2>2. ASSUME NEW p \in Procs, ConstructThrows(p) \/ Unlock(p) \/ UnlockFails(p)
        PROVE  FixedInv'
    <3>1. /\ UNCHANGED <<item, ttl, keys, permits, copy>>
          /\ step' = step \/ step' = [step EXCEPT ![p] = 1]
          /\ pc' = pc \/ pc' = [pc EXCEPT ![p] = "idle"]
          /\ pc[p] # "put"
      BY <2>2 DEF ConstructThrows, Unlock, UnlockFails
    <3> QED
      BY <3>1
  <2>3. ASSUME NEW p \in Procs, Ask(p)
        PROVE  FixedInv'
    <3>1. PICK n \in 1 .. Limit : permits' = [permits EXCEPT ![p] = n]
      BY <2>3 DEF Ask
    <3> QED
      BY <2>3, <3>1 DEF Ask
  <2>4. ASSUME NEW p \in Procs, Lock(p) \/ LockThrows(p)
        PROVE  FixedInv'
    BY <2>4 DEF Lock, LockThrows
  <2>5. ASSUME NEW p \in Procs, LockTimesOut(p)
        PROVE  FixedInv'
    BY <2>5 DEF LockTimesOut, End
  <2>6. ASSUME NEW p \in Procs, Get(p)
        PROVE  FixedInv'
    <3>1. item \in Fixed /\ permits[p] > 0
      BY <2>6 DEF Get, OpeningInv, LockFound
    <3> DEFINE s == Current(Fetched(asked[p]), asked[p])
               t == Charged(s, asked[p], permits[p])
    <3>2. CASE Allowed(s, permits[p])
      <4>1. t \in Fixed /\ Charges(item, t)
        BY <3>1, <3>2, GetCharges
      <4>2. copy' = [copy EXCEPT ![p] = t]
        BY <2>6, <3>2 DEF Get
      <4> HIDE DEF t
      <4> QED
        BY <2>6, <4>1, <4>2 DEF Get
    <3>3. CASE ~Allowed(s, permits[p])
      <4>1. copy' = [copy EXCEPT ![p] = NoItem]
        BY <2>6, <3>3 DEF Get
      <4> QED
        BY <2>6, <4>1 DEF Get
    <3> QED
      BY <3>2, <3>3
  <2>7. ASSUME NEW p \in Procs, Put(p) \/ CallThrows(p)
        PROVE  FixedInv'
    <3>1. /\ pc[p] \in {"get", "put"}
          /\ End(p, "unlock")
          /\ keys \subseteq keys'
          /\ step' = step
          /\ \/ UNCHANGED <<item, ttl>>
             \/ copy[p] # NoItem /\ item' = copy[p] /\ ttl' = Forever
      BY <2>7 DEF Put, CallThrows, InsertState, Life
    <3>2. \A q \in Procs \ {p} : pc[q] # "put"
      BY <3>1 DEF LockIsHeld
    <3>3. item # NoItem
      BY <3>1 DEF OpeningInv, LockFound
    <3>4. /\ item' \in Fixed /\ ttl' = Forever
          /\ copy' = [copy EXCEPT ![p] = NoItem]
          /\ permits' = [permits EXCEPT ![p] = 0]
          /\ pc' = [pc EXCEPT ![p] = "unlock"]
      BY <3>1, <3>3 DEF End
    <3>5. item' # NoItem
      BY <3>4
    <3> QED
      BY <3>2, <3>4, <3>5
  <2>8. ASSUME NEW p \in Procs, Crash(p)
        PROVE  FixedInv'
    BY <2>8 DEF Crash, End
  <2>9. CASE Tick
    BY <2>9 DEF Tick, Forever
  <2>10. CASE UNCHANGED vars
    BY <2>10 DEF vars
  <2> QED
    BY <2>1, <2>2, <2>3, <2>4, <2>5, <2>6, <2>7, <2>8, <2>9, <2>10 DEF Next
<1>3. ASSUME Prompt
      PROVE  Spec => []FixedInv
  <2>1. Spec => []LockIsHeld
    BY <1>3, TheLockIsHeld
  <2> QED
    BY <1>1, <1>2, <2>1, ShapeIsInvariant, OpeningIsInvariant, PTL DEF Spec
<1> QED
  BY <1>3

(* The fixed window's item under processes that finish within their lease: *)
(* no write of it loses another, none goes past the limit, and a new       *)
(* window starts when the old one is over or later.                        *)
THEOREM EveryWindowIsCharged == Prompt => (Spec => WindowsAreCharged)
<1> DEFINE Kept == kind = "fixed" /\ item # NoItem =>
                     \/ /\ item'.expires = item.expires
                        /\ item'.count \in item.count + 1 .. Limit
                     \/ /\ item'.expires >= item.expires + Window
                        /\ item'.count \in 1 .. Limit
<1>1. OpeningInv /\ FixedInv /\ [Next]_vars => [Kept]_item
  <2> SUFFICES ASSUME OpeningInv, FixedInv, [Next]_vars, kind = "fixed", item # NoItem,
                      item' # item
               PROVE  Kept
    OBVIOUS
  <2>1. ASSUME NEW p \in Procs, Construct(p)
        PROVE  FALSE
    BY <2>1 DEF Construct, AddItem, Exists, state
  <2>2. ASSUME NEW p \in Procs, Put(p) \/ CallThrows(p)
        PROVE  Kept
    BY <2>2 DEF Put, CallThrows, InsertState, FixedInv, Charges
  <2>3. CASE Tick
    BY <2>3 DEF Tick, FixedInv, Forever
  <2> QED
    BY <2>1, <2>2, <2>3
       DEF Next, vars, state, ConstructThrows, Ask, Lock, LockThrows, LockTimesOut, Get,
           Unlock, UnlockFails, Crash
<1>2. ASSUME Prompt
      PROVE  Spec => WindowsAreCharged
  <2>1. Spec => []FixedInv
    BY <1>2, FixedInvariant
  <2> QED
    BY <1>1, <2>1, OpeningIsInvariant, PTL DEF Spec, WindowsAreCharged
<1> QED
  BY <1>2
-----------------------------------------------------------------------------
(* Arithmetic of the library's operators on a pair, and of periods. *)
LEMMA MaxOfTwo ==
  ASSUME NEW a \in Int, NEW b \in Int
  PROVE  Max({a, b}) = IF a >= b THEN a ELSE b
BY DEF Max

LEMMA MinOfTwo ==
  ASSUME NEW a \in Int, NEW b \in Int
  PROVE  Min({a, b}) = IF a <= b THEN a ELSE b
BY DEF Min

LEMMA Division ==
  ASSUME NEW a \in Nat, NEW d \in Nat \ {0}
  PROVE  /\ a \div d \in Nat
         /\ (a \div d) * d <= a
         /\ a < (a \div d) * d + d
OBVIOUS

-----------------------------------------------------------------------------
(* Tallies: what is counted up to a time, and what is counted after it. *)
Since(f, t) == f[MaxTime] - Upto(f, t)

LEMMA NoneIsATally ==
  /\ None \in Tallies
  /\ \A t \in Int : Upto(None, t) = 0 /\ Since(None, t) = 0
<1> USE WindowsAssumption DEF Times
<1>1. None \in Tallies
  BY DEF None, Tallies
<1>2. ASSUME NEW t \in Int
      PROVE  Upto(None, t) = 0
  BY DEF None, Upto
<1> QED
  BY <1>1, <1>2 DEF Since, None

LEMMA UptoGrows ==
  ASSUME NEW f \in Tallies
  PROVE  /\ \A t \in Int : Upto(f, t) \in Nat /\ Since(f, t) \in Nat
         /\ \A t \in Int : Upto(f, t) <= f[MaxTime]
         /\ \A t \in Int, u \in Int :
              t <= u => Upto(f, t) <= Upto(f, u) /\ Since(f, u) <= Since(f, t)
         /\ f[MaxTime] \in Nat
         /\ \A t \in Int : t >= MaxTime => Since(f, t) = 0
<1> USE WindowsAssumption DEF Times
<1>1. /\ \A t \in Times : f[t] \in Nat
      /\ \A t, u \in Times : t <= u => f[t] <= f[u]
      /\ MaxTime \in Times
  BY DEF Tallies
<1>2. ASSUME NEW t \in Int
      PROVE  /\ Upto(f, t) \in Nat
             /\ Upto(f, t) <= f[MaxTime]
             /\ t >= MaxTime => Upto(f, t) = f[MaxTime]
  <2>1. CASE t < 0
    BY <1>1, <2>1 DEF Upto
  <2>2. CASE t \in Times
    BY <1>1, <2>2 DEF Upto
  <2>3. CASE t > MaxTime
    BY <1>1, <2>3 DEF Upto
  <2> QED
    BY <2>1, <2>2, <2>3
<1>3. ASSUME NEW t \in Int, NEW u \in Int, t <= u
      PROVE  Upto(f, t) <= Upto(f, u)
  <2>1. CASE t < 0
    BY <1>2, <2>1 DEF Upto
  <2>2. CASE u > MaxTime
    BY <1>1, <1>2, <2>2 DEF Upto
  <2>3. CASE t \in Times /\ u \in Times
    BY <1>1, <1>3, <2>3 DEF Upto
  <2> QED
    BY <1>3, <2>1, <2>2, <2>3
<1> QED
  BY <1>1, <1>2, <1>3 DEF Since

LEMMA CountedCounts ==
  ASSUME NEW f \in Tallies, NEW t \in Times, NEW n \in Nat
  PROVE  /\ Counted(f, t, n) \in Tallies
         /\ Counted(f, t, n)[MaxTime] = f[MaxTime] + n
         /\ \A u \in Int :
              Upto(Counted(f, t, n), u) = Upto(f, u) + IF u >= t THEN n ELSE 0
         /\ \A u \in Int :
              Since(Counted(f, t, n), u) = Since(f, u) + IF u >= t THEN 0 ELSE n
<1> USE WindowsAssumption DEF Times
<1> DEFINE g == Counted(f, t, n)
<1>1. /\ \A u \in Times : f[u] \in Nat
      /\ \A u, v \in Times : u <= v => f[u] <= f[v]
      /\ MaxTime \in Times
  <2>1. MaxTime \in Times
    OBVIOUS
  <2>2. f \in [Times -> Nat] /\ \A u, v \in Times : u <= v => f[u] <= f[v]
    BY Zenon DEF Tallies
  <2> HIDE WindowsAssumption DEF Times
  <2> QED
    BY <2>1, <2>2
<1>2. \A u \in Times : g[u] = IF u >= t THEN f[u] + n ELSE f[u]
  BY DEF Counted
<1>3. g \in [Times -> Nat]
  BY <1>1 DEF Counted
<1> HIDE DEF g
<1>4. g \in Tallies
  <2>1. ASSUME NEW u \in Times, NEW v \in Times, u <= v
        PROVE  g[u] <= g[v]
    <3>1. f[u] \in Nat /\ f[v] \in Nat /\ f[u] <= f[v]
      BY <1>1, <2>1
    <3> QED
      BY <1>2, <2>1, <3>1
  <2> QED
    BY <1>3, <2>1 DEF Tallies
<1>5. g[MaxTime] = f[MaxTime] + n
  BY <1>1, <1>2
<1>6. ASSUME NEW u \in Int
      PROVE  Upto(g, u) = Upto(f, u) + IF u >= t THEN n ELSE 0
  <2>1. CASE u < 0
    BY <2>1 DEF Upto
  <2>2. CASE u \in Times
    BY <1>1, <1>2, <2>2 DEF Upto
  <2>3. CASE u > MaxTime
    BY <1>5, <2>3 DEF Upto
  <2> QED
    BY <2>1, <2>2, <2>3
<1>7. ASSUME NEW u \in Int
      PROVE  Since(g, u) = Since(f, u) + IF u >= t THEN 0 ELSE n
  <2>1. Upto(f, u) \in Int /\ f[MaxTime] \in Int
    BY UptoGrows
  <2> QED
    BY <1>5, <1>6, <2>1 DEF Since
<1> QED
  BY <1>4, <1>5, <1>6, <1>7 DEF g

LEMMA StampsAreTrimmed ==
  ASSUME NEW s \in Sliding, NEW t \in Times
  PROVE  /\ CurrentStamps(s, t) \in Sliding
         /\ \A u \in Int :
              u >= t - Window => Since(CurrentStamps(s, t), u) = Since(s, u)
<1> USE WindowsAssumption DEF Times
<1> DEFINE b == t - Window
           g == CurrentStamps(s, t)
<1>1. s \in Tallies /\ s[MaxTime] <= Limit /\ b \in Int
  BY DEF Sliding
<1>2. \A u \in Times : s[u] = Upto(s, u)
  BY <1>1 DEF Upto
<1>3. \A u \in Times : g[u] = IF u <= b THEN 0 ELSE Upto(s, u) - Upto(s, b)
  <2>1. b = (t - Window + 1) - 1
    OBVIOUS
  <2> QED
    BY <2>1 DEF CurrentStamps, Over
<1>4. /\ \A u \in Int : Upto(s, u) \in Nat
      /\ \A u \in Int, v \in Int : u <= v => Upto(s, u) <= Upto(s, v)
      /\ s[MaxTime] \in Nat
  BY <1>1, UptoGrows
<1>5. g = [u \in Times |-> g[u]]
  BY DEF CurrentStamps
<1> HIDE DEF g, b
<1>6. \A u \in Times : g[u] \in Nat
  BY <1>1, <1>3, <1>4
<1>7. \A u, v \in Times : u <= v => g[u] <= g[v]
  BY <1>1, <1>3, <1>4
<1>8. MaxTime \in Times /\ b < MaxTime
  BY DEF b
<1>9. g[MaxTime] = s[MaxTime] - Upto(s, b)
  BY <1>1, <1>2, <1>3, <1>8
<1>10. g \in Sliding
  <2>1. g \in [Times -> Nat]
    BY <1>5, <1>6
  <2>2. g \in Tallies
    BY <1>7, <2>1 DEF Tallies
  <2>3. g[MaxTime] <= Limit
    BY <1>1, <1>4, <1>9
  <2> QED
    BY <2>2, <2>3 DEF Sliding
<1>11. ASSUME NEW u \in Int, u >= b
       PROVE  Since(g, u) = Since(s, u)
  <2>1. CASE u < 0
    <3>1. Upto(g, u) = 0 /\ Upto(s, u) = 0 /\ Upto(s, b) = 0
      BY <1>1, <1>11, <2>1 DEF Upto
    <3> QED
      BY <1>4, <1>9, <3>1 DEF Since
  <2>2. CASE u \in Times
    <3>1. Upto(g, u) = g[u] /\ Upto(s, u) = s[u]
      BY <2>2 DEF Upto
    <3>2. g[u] = Upto(s, u) - Upto(s, b)
      BY <1>1, <1>3, <1>4, <1>11, <2>2
    <3> QED
      BY <1>1, <1>4, <1>9, <3>1, <3>2 DEF Since
  <2>3. CASE u > MaxTime
    <3>1. Upto(g, u) = g[MaxTime] /\ Upto(s, u) = s[MaxTime]
      BY <2>3 DEF Upto
    <3> QED
      BY <1>4, <1>6, <1>8, <3>1 DEF Since
  <2> QED
    BY <2>1, <2>2, <2>3
<1> QED
  BY <1>10, <1>11 DEF g, b
-----------------------------------------------------------------------------
(* The states, their lifetimes and the tallies, under any processes. *)
StatesFit ==
  /\ LeaseTypeOK
  /\ item \in States \cup {NoItem}
  /\ ttl \in Nat \cup {Forever}
  /\ item = NoItem <=> ttl = 0
  /\ waited \in [Procs -> 0 .. MaxWait]
  /\ copy \in [Procs -> States \cup {NoItem}]
  /\ faults \in 0 .. MaxFaults
  /\ cut \in BOOLEAN
  /\ granted \in Tallies
  /\ lag \in Times
  /\ back \in Tallies
  /\ \A p \in Procs : asked[p] <= now

LEMMA NoItemIsNoState == kind \in Kinds => NoItem \notin States
  BY WindowsAssumption DEF States

LEMMA EmptyIsAState ==
  ASSUME kind \in Kinds, NEW t \in Times
  PROVE  Empty(t) \in States
<1> USE WindowsAssumption
<1>1. t \in 0 .. MaxTime + Window /\ 0 \in 0 .. Limit /\ Limit \in 0 .. Limit
  BY DEF Times
<1>2. None \in Sliding
  BY NoneIsATally DEF None, Sliding, Times
<1> QED
  BY <1>1, <1>2 DEF Empty, States, Fixed, Bucket

LEMMA FetchedIsAState ==
  ASSUME kind \in Kinds, item \in States \cup {NoItem}, NEW t \in Times
  PROVE  Fetched(t) \in States
<1>1. 0 \in Times
  BY WindowsAssumption DEF Times
<1> QED
  BY <1>1, EmptyIsAState DEF Fetched

LEMMA TokensAreReplenished ==
  ASSUME NEW s \in Bucket, NEW t \in Times
  PROVE  LET new == CurrentTokens(s, t)
         IN /\ new \in Bucket
            /\ IF s.refreshed <= t
               THEN /\ new.refreshed <= t
                    /\ t < new.refreshed + Window
               ELSE new = s
            /\ \E k \in Nat :
                 /\ new.refreshed = s.refreshed + k * Window
                 /\ new.tokens <= s.tokens + k * PerPeriod
<1> USE WindowsAssumption
<1> DEFINE d == Max({0, t - s.refreshed})
           k == d \div Window
           n == s.tokens + k * PerPeriod
<1>1. /\ s.tokens \in 0 .. Limit /\ s.refreshed \in 0 .. MaxTime /\ t \in 0 .. MaxTime
      /\ s = [tokens |-> s.tokens, refreshed |-> s.refreshed]
  BY DEF Bucket, Times
<1>2. d = IF s.refreshed <= t THEN t - s.refreshed ELSE 0
  BY <1>1, MaxOfTwo
<1>3. d \in Nat
  BY <1>1, <1>2
<1> HIDE DEF d
<1>4. /\ k \in Nat
      /\ k * Window <= d
      /\ d < k * Window + Window
  BY <1>3, Division
<1>5. d = 0 => k = 0
  BY <1>4
<1>6. CurrentTokens(s, t)
        = [tokens |-> Min({Limit, n}), refreshed |-> s.refreshed + k * Window]
  BY DEF CurrentTokens, d
<1> HIDE DEF k
<1>7. k * PerPeriod \in Nat /\ k * Window \in Nat
  BY <1>4
<1>8. n \in Nat /\ n >= s.tokens
  BY <1>1, <1>7
<1>9. Min({Limit, n}) = IF Limit <= n THEN Limit ELSE n
  BY <1>8, MinOfTwo
<1> HIDE DEF n
<1>10. CurrentTokens(s, t) \in Bucket
  <2>1. s.refreshed + k * Window \in 0 .. MaxTime
    BY <1>1, <1>2, <1>4, <1>5, <1>7
  <2>2. Min({Limit, n}) \in 0 .. Limit
    BY <1>1, <1>8, <1>9
  <2> QED
    BY <1>6, <2>1, <2>2 DEF Bucket, Times
<1>11. CASE s.refreshed <= t
  <2>1. s.refreshed + k * Window <= t /\ t < s.refreshed + k * Window + Window
    BY <1>1, <1>2, <1>4, <1>7, <1>11
  <2> QED
    BY <1>4, <1>6, <1>8, <1>9, <1>10, <1>11, <2>1 DEF n
<1>12. CASE ~(s.refreshed <= t)
  <2>1. k = 0
    BY <1>2, <1>5, <1>12
  <2>2. s.refreshed + k * Window = s.refreshed /\ n = s.tokens
    BY <1>1, <2>1 DEF n
  <2>3. CurrentTokens(s, t) = s
    BY <1>1, <1>6, <1>9, <2>2
  <2>4. s.refreshed = s.refreshed + 0 * Window /\ s.tokens <= s.tokens + 0 * PerPeriod
    BY <1>1
  <2> QED
    BY <1>10, <1>12, <2>3, <2>4
<1> QED
  BY <1>11, <1>12

LEMMA CurrentIsAState ==
  ASSUME kind \in Kinds, NEW s \in States, NEW t \in Times
  PROVE  Current(s, t) \in States
<1> USE WindowsAssumption
<1>1. CASE kind = "fixed"
  <2>1. s \in Fixed /\ 0 \in 0 .. Limit /\ t + Window \in 0 .. MaxTime + Window
    BY <1>1 DEF States, Times
  <2>2. CurrentWindow(s, t) \in Fixed
    BY <2>1 DEF CurrentWindow, Fixed
  <2> QED
    BY <1>1, <2>2 DEF Current, States
<1>2. CASE kind = "sliding"
  BY <1>2, StampsAreTrimmed DEF Current, States
<1>3. CASE kind = "bucket"
  BY <1>3, TokensAreReplenished DEF Current, States
<1> QED
  BY <1>1, <1>2, <1>3

LEMMA ChargedIsAState ==
  ASSUME kind \in Kinds, NEW s \in States, NEW t \in Times, NEW n \in 0 .. Limit,
         Allowed(s, n)
  PROVE  Charged(s, t, n) \in States
<1> USE WindowsAssumption
<1>1. CASE kind = "fixed"
  <2>1. s \in Fixed /\ s.count + n <= Limit
    BY <1>1 DEF States, Allowed
  <2>2. s.count + n \in 0 .. Limit
    BY <2>1 DEF Fixed
  <2>3. [s EXCEPT !.count = @ + n] \in Fixed
    BY <2>1, <2>2 DEF Fixed
  <2> QED
    BY <1>1, <2>3 DEF Charged, States
<1>2. CASE kind = "sliding"
  <2>1. s \in Tallies /\ s[MaxTime] + 1 <= Limit
    BY <1>2, UptoGrows DEF States, Allowed, Sliding
  <2>2. Counted(s, t, 1) \in Tallies /\ Counted(s, t, 1)[MaxTime] = s[MaxTime] + 1
    <3>1. 1 \in Nat /\ s \in Tallies
      BY <2>1
    <3> HIDE WindowsAssumption
    <3> QED
      BY <3>1, CountedCounts
  <2>3. Counted(s, t, 1) \in Sliding
    BY <2>1, <2>2 DEF Sliding
  <2> QED
    BY <1>2, <2>3 DEF Charged, States
<1>3. CASE kind = "bucket"
  <2>1. s \in Bucket /\ s.tokens >= n
    BY <1>3 DEF States, Allowed
  <2>2. s.tokens - n \in 0 .. Limit
    BY <2>1 DEF Bucket
  <2>3. [s EXCEPT !.tokens = @ - n] \in Bucket
    BY <2>1, <2>2 DEF Bucket
  <2> QED
    BY <1>3, <2>3 DEF Charged, States
<1> QED
  BY <1>1, <1>2, <1>3

LEMMA LifeIsPositive == kind \in Kinds => Life \in (Nat \ {0}) \cup {Forever}
<1> USE WindowsAssumption
<1> DEFINE c == (Limit + PerPeriod - 1) \div PerPeriod
<1>1. c \in Nat /\ c * PerPeriod >= Limit
  <2>1. Limit + PerPeriod - 1 \in Nat /\ PerPeriod \in Nat \ {0} /\ Limit \in Nat
    OBVIOUS
  <2> HIDE WindowsAssumption DEF c
  <2>2. c \in Nat /\ Limit + PerPeriod - 1 < (c + 1) * PerPeriod
    BY <2>1, Division DEF c
  <2> QED
    BY <2>1, <2>2
<1> HIDE DEF c
<1>2. c \in Nat \ {0}
  BY <1>1
<1>3. c * Window \in Nat \ {0}
  BY <1>2
<1> QED
  BY <1>3 DEF Life, c
(* The part of StatesFit that is about the item, and about the calls. *)
ItemFits ==
  /\ item \in States \cup {NoItem}
  /\ ttl \in Nat \cup {Forever}
  /\ item = NoItem <=> ttl = 0

CallsFit ==
  /\ waited \in [Procs -> 0 .. MaxWait]
  /\ copy \in [Procs -> States \cup {NoItem}]
  /\ \A p \in Procs : asked[p] <= now

HistoryFits ==
  /\ cut \in BOOLEAN
  /\ granted \in Tallies
  /\ lag \in Times
  /\ back \in Tallies

LEMMA StatesAreOfAKind == kind' = kind => States' = States
  BY DEF States

OrphanLocks == Free /\ holder' = Orphan /\ left' \in Lifetimes

LEMMA LeaseStaysALease ==
  ASSUME LeaseTypeOK, NEW p \in Procs,
         \/ LockKey(p) \/ OrphanLocks \/ UnlockKey(p) \/ Abandon(p)
         \/ UNCHANGED lockVars
  PROVE  LeaseTypeOK'
<1> USE LeaseAssumption DEF LeaseTypeOK, Holders, Free, Forever
<1>1. CASE LockKey(p) \/ OrphanLocks
  <2>1. left' \in Lifetimes /\ holder' \in {p, Orphan}
    BY <1>1 DEF LockKey, OrphanLocks
  <2>2. left' \in (Nat \ {0}) \cup {-1}
    BY <2>1
  <2> QED
    BY <2>1, <2>2
<1>2. CASE UnlockKey(p)
  BY <1>2 DEF UnlockKey, lockVars
<1>3. CASE Abandon(p)
  BY <1>3 DEF Abandon
<1>4. CASE UNCHANGED lockVars
  BY <1>4 DEF lockVars
<1> QED
  BY <1>1, <1>2, <1>3, <1>4

LEMMA WriteFits ==
  ASSUME kind \in Kinds, StatesFit, NEW p \in Procs, InsertState(p), kind' = kind
  PROVE  ItemFits'
<1>1. States' = States
  BY StatesAreOfAKind
<1>2. CASE copy[p] = NoItem
  BY <1>1, <1>2 DEF InsertState, ItemFits, StatesFit
<1>3. CASE copy[p] # NoItem
  <2>1. copy[p] \in States
    BY <1>3 DEF StatesFit
  <2>2. item' = copy[p] /\ ttl' = Life
    BY <1>3 DEF InsertState
  <2> QED
    BY <1>1, <1>3, <2>1, <2>2, LifeIsPositive DEF ItemFits, Forever
<1> QED
  BY <1>2, <1>3

LEMMA StatesFitIsInvariant == Spec => []StatesFit
<1> USE LeaseAssumption, WindowsAssumption
<1>1. Init => StatesFit
  <2>1. 0 \in Times
    BY DEF Times
  <2> SUFFICES ASSUME Init
               PROVE  StatesFit
    OBVIOUS
  <2>2. LeaseTypeOK
    BY DEF Init, LockInit, LeaseTypeOK, Holders, Free
  <2>3. granted \in Tallies /\ back \in Tallies
    BY NoneIsATally DEF Init
  <2>4. ASSUME NEW p \in Procs
        PROVE  asked[p] <= now
    <3>1. asked[p] = 0 /\ now = 0
      BY DEF Init
    <3> QED
      BY <3>1
  <2>5. 0 \in 0 .. MaxWait /\ 0 \in 0 .. MaxFaults
    OBVIOUS
  <2>6. /\ waited \in [Procs -> 0 .. MaxWait]
        /\ copy \in [Procs -> States \cup {NoItem}]
    BY <2>5 DEF Init
  <2> QED
    BY <2>1, <2>2, <2>3, <2>4, <2>5, <2>6 DEF Init, StatesFit
<1>2. Shape /\ StatesFit /\ [Next]_vars => StatesFit'
  <2> SUFFICES ASSUME Shape, StatesFit, [Next]_vars
               PROVE  StatesFit'
    OBVIOUS
  <2>0. /\ kind' = kind /\ kind \in Kinds
        /\ now \in Times /\ \A p \in Procs : asked[p] \in Times
    BY DEF Shape, Next, vars, Construct, ConstructThrows, Ask, Lock, LockThrows,
           LockTimesOut, Get, Put, CallThrows, Unlock, UnlockFails, Crash, Tick
  <2>s. States' = States
    BY <2>0, StatesAreOfAKind
  <2> USE <2>0
  <2>i. UNCHANGED state => ItemFits'
    BY <2>s DEF StatesFit, ItemFits, state
  <2>w. LeaseTypeOK' /\ ItemFits' /\ CallsFit' /\ HistoryFits' /\ faults' \in 0 .. MaxFaults
          => StatesFit'
    BY DEF StatesFit, ItemFits, CallsFit, HistoryFits
  <2>e. ASSUME NEW p \in Procs, NEW l, End(p, l), now' = now
        PROVE  CallsFit'
    BY <2>s, <2>e DEF StatesFit, CallsFit, End, Times, Shape
  <2>1. ASSUME NEW p \in Procs, Construct(p)
        PROVE  StatesFit'
    <3>1. CASE UNCHANGED state
      BY <2>1, <2>s, <2>i, <2>w, <3>1, LeaseStaysALease
      DEF Construct, StatesFit, CallsFit, HistoryFits, history, lockVars
    <3>2. CASE ~UNCHANGED state
      <4>1. AddItem(Order[step[p]])
        BY <2>1, <3>2 DEF Construct
      <4>2. ItemFits'
        BY <2>s, <4>1, EmptyIsAState, NoItemIsNoState
           DEF AddItem, ItemFits, StatesFit, Forever
      <4> QED
        BY <2>1, <2>s, <2>w, <4>2, LeaseStaysALease
        DEF Construct, StatesFit, CallsFit, HistoryFits, history, lockVars
    <3> QED
      BY <3>1, <3>2
  <2>2. ASSUME NEW p \in Procs,
               ConstructThrows(p) \/ Unlock(p) \/ UnlockFails(p) \/ LockThrows(p)
        PROVE  StatesFit'
    <3>1. LeaseTypeOK'
      BY <2>2, LeaseStaysALease
      DEF ConstructThrows, Unlock, UnlockFails, LockThrows, StatesFit, OrphanLocks
    <3>2. faults' \in 0 .. MaxFaults
      BY <2>2 DEF ConstructThrows, Unlock, UnlockFails, LockThrows, StatesFit
    <3> QED
      BY <2>2, <2>s, <2>i, <2>w, <3>1, <3>2
         DEF ConstructThrows, Unlock, UnlockFails, LockThrows, StatesFit, CallsFit,
             HistoryFits, history
  <2>3. ASSUME NEW p \in Procs, Ask(p)
        PROVE  StatesFit'
    BY <2>3, <2>s, <2>i, <2>w, LeaseStaysALease
    DEF Ask, StatesFit, CallsFit, HistoryFits, history, Times, Shape
  <2>4. ASSUME NEW p \in Procs, Lock(p)
        PROVE  StatesFit'
    <3>1. LeaseTypeOK'
      BY <2>4, LeaseStaysALease DEF Lock, StatesFit
    <3>2. \A q \in Procs : asked'[q] <= now
      BY <2>4 DEF Lock, StatesFit, Shape, Times
    <3> QED
      BY <2>4, <2>s, <2>i, <2>w, <3>1, <3>2
         DEF Lock, StatesFit, CallsFit, HistoryFits, history
  <2>5. ASSUME NEW p \in Procs, LockTimesOut(p)
        PROVE  StatesFit'
    BY <2>5, <2>e, <2>i, <2>w, LeaseStaysALease
       DEF LockTimesOut, StatesFit, HistoryFits, history
  <2>6. ASSUME NEW p \in Procs, Get(p)
        PROVE  StatesFit'
    <3> DEFINE s == Current(Fetched(asked[p]), asked[p])
    <3>1. s \in States
      BY FetchedIsAState, CurrentIsAState DEF StatesFit
    <3>2. permits[p] \in 0 .. Limit
      BY DEF Shape
    <3>3. Allowed(s, permits[p]) => Charged(s, asked[p], permits[p]) \in States
      BY <3>1, <3>2, ChargedIsAState
    <3>4. PICK c \in States \cup {NoItem} : copy' = [copy EXCEPT ![p] = c]
      <4> HIDE DEF s
      <4>1. copy' = [copy EXCEPT ![p] =
                       CASE Allowed(s, permits[p]) -> Charged(s, asked[p], permits[p])
                         [] ~Allowed(s, permits[p]) /\ kind = "sliding" -> s
                         [] OTHER -> NoItem]
        BY <2>6 DEF Get, s
      <4> QED
        BY <3>1, <3>3, <4>1
    <3>5. back' \in Tallies
      <4>1. kind = "bucket" => Made \in Int
        BY DEF Made, StatesFit, States, Bucket, Times
      <4>2. kind = "bucket" => Max({0, Made - asked[p]}) \in Nat
        BY <4>1, MaxOfTwo DEF Times
      <4> QED
        BY <2>6, <4>2, CountedCounts DEF Get, StatesFit
    <3> HIDE DEF s
    <3> QED
      BY <2>6, <2>s, <2>i, <2>w, <3>4, <3>5, LeaseStaysALease
      DEF Get, StatesFit, CallsFit, HistoryFits
  <2>7. ASSUME NEW p \in Procs, Put(p)
        PROVE  StatesFit'
    <3>1. ItemFits'
      BY <2>7, WriteFits DEF Put
    <3>2. CallsFit'
      BY <2>7, <2>e DEF Put
    <3>3. HistoryFits'
      <4>1. CASE ~(permits[p] > 0)
        BY <2>7, <4>1 DEF Put, StatesFit, HistoryFits
      <4>2. CASE permits[p] > 0
        <5>1. Taken(permits[p]) \in Nat /\ (IF kind = "fixed" THEN now ELSE asked[p]) \in Times
          BY DEF Taken, Shape
        <5>2. granted' \in Tallies
          <6>1. granted' = Counted(granted, IF kind = "fixed" THEN now ELSE asked[p],
                                   Taken(permits[p]))
            BY <2>7, <4>2 DEF Put
          <6> QED
            BY <5>1, <6>1, CountedCounts DEF StatesFit
        <5>3. now - asked[p] \in Times
          BY DEF StatesFit, Times
        <5>4. lag' \in Times
          BY <2>7, <4>2, <5>3, MaxOfTwo DEF Put, StatesFit, Times
        <5> QED
          BY <2>7, <5>2, <5>4 DEF Put, StatesFit, HistoryFits
      <4> QED
        BY <4>1, <4>2
    <3> QED
      BY <2>7, <2>w, <3>1, <3>2, <3>3, LeaseStaysALease DEF Put, StatesFit
  <2>8. ASSUME NEW p \in Procs, CallThrows(p)
        PROVE  StatesFit'
    <3>1. ItemFits'
      BY <2>8, <2>i, WriteFits DEF CallThrows, state, StatesFit, ItemFits
    <3>2. CallsFit'
      BY <2>8, <2>e DEF CallThrows
    <3>3. faults' \in 0 .. MaxFaults /\ HistoryFits'
      BY <2>8 DEF CallThrows, StatesFit, HistoryFits, history
    <3> QED
      BY <2>8, <2>w, <3>1, <3>2, <3>3, LeaseStaysALease DEF CallThrows, StatesFit
  <2>9. ASSUME NEW p \in Procs, Crash(p)
        PROVE  StatesFit'
    <3>1. CallsFit'
      BY <2>9, <2>e DEF Crash
    <3>2. faults' \in 0 .. MaxFaults /\ HistoryFits'
      BY <2>9 DEF Crash, StatesFit, HistoryFits
    <3> QED
      BY <2>9, <2>i, <2>w, <3>1, <3>2, LeaseStaysALease DEF Crash, StatesFit
  <2>10. CASE Tick
    <3>1. LeaseTypeOK'
      BY <2>10 DEF Tick, LeaseRuns, LeaseTypeOK, StatesFit, Holders, Free, Forever, lockVars
    <3>2. ItemFits'
      BY <2>10, <2>s DEF Tick, StatesFit, ItemFits, Forever
    <3>3. waited' \in [Procs -> 0 .. MaxWait]
      <4>1. ASSUME NEW q \in Procs
            PROVE  Min({MaxWait, waited[q] + 1}) \in 0 .. MaxWait
        BY MinOfTwo DEF StatesFit
      <4> QED
        BY <2>10, <4>1 DEF Tick, StatesFit
    <3>4. \A q \in Procs : asked[q] <= now + 1
      BY DEF StatesFit, Times
    <3>5. CallsFit'
      BY <2>10, <2>s, <3>3, <3>4 DEF Tick, StatesFit, CallsFit
    <3> QED
      BY <2>10, <2>w, <3>1, <3>2, <3>5 DEF Tick, StatesFit, HistoryFits, history
  <2>11. CASE UNCHANGED vars
    BY <2>11, <2>s DEF vars, lockVars, state, history, StatesFit, LeaseTypeOK, Free
  <2> QED
    BY <2>1, <2>2, <2>3, <2>4, <2>5, <2>6, <2>7, <2>8, <2>9, <2>10, <2>11 DEF Next
<1> QED
  BY <1>1, <1>2, ShapeIsInvariant, PTL DEF Spec

(* Whatever the processes do and whenever they are interrupted, the items  *)
(* are of their kind: no count goes past the limit, no bucket over its     *)
(* brim, and an item is in the cache just as long as it has time left.     *)
THEOREM TypeCorrect == Spec => []TypeOK
<1>1. Shape /\ StatesFit => TypeOK
  BY DEF Shape, StatesFit, TypeOK
<1> QED
  BY <1>1, ShapeIsInvariant, StatesFitIsInvariant, PTL
-----------------------------------------------------------------------------
(* What a step looks like from the state item and from the process that    *)
(* works on it: the process holds the lock from LockKey to the write, so   *)
(* that there is one of them.                                              *)
InSection(p) == pc[p] \in {"get", "put"}

Stays(q) == /\ pc'[q] = pc[q] /\ asked'[q] = asked[q]
            /\ copy'[q] = copy[q] /\ permits'[q] = permits[q]

Outside(q) == /\ pc'[q] \notin {"get", "put"}
              /\ copy'[q] = NoItem \/ (copy'[q] = copy[q] /\ pc[q] # "put")

QuietStep ==
  /\ UNCHANGED <<now, item, ttl, granted, lag, back>>
  /\ \A q \in Procs : Outside(q) \/ Stays(q)

StateStep ==
  /\ item = NoItem /\ item' = Empty(now) /\ ttl' = Forever
  /\ UNCHANGED <<now, granted, lag, back>>
  /\ \A q \in Procs : Outside(q) \/ Stays(q)

LockStep(p) ==
  /\ UNCHANGED <<now, item, ttl, granted, lag, back>>
  /\ pc'[p] = "get" /\ copy'[p] = copy[p] /\ pc[p] = "wait"
  /\ kind # "fixed" => asked'[p] = now
  /\ \A q \in Procs \ {p} : Outside(q)

GetStep(p) == Get(p) /\ \A q \in Procs \ {p} : Outside(q)

PutStep(p) == Put(p) /\ \A q \in Procs : Outside(q)

ThrowStep(p) ==
  /\ InSection(p) /\ InsertState(p)
  /\ UNCHANGED <<now, granted, lag, back>>
  /\ \A q \in Procs : Outside(q)

TickStep == Tick /\ \A q \in Procs : Stays(q)

LEMMA StepsOnTheItem ==
  ASSUME Shape, StatesFit, LockIsHeld, [Next]_vars
  PROVE  /\ kind' = kind
         /\ \/ QuietStep \/ StateStep \/ TickStep
            \/ \E p \in Procs :
                 LockStep(p) \/ GetStep(p) \/ PutStep(p) \/ ThrowStep(p)
<1> USE LeaseAssumption
<1>0. kind' = kind
  BY DEF Next, vars, Construct, ConstructThrows, Ask, Lock, LockThrows, LockTimesOut,
         Get, Put, CallThrows, Unlock, UnlockFails, Crash, Tick
<1>o. ASSUME NEW p \in Procs, InSection(p), NEW q \in Procs \ {p}
      PROVE  pc[q] \notin {"get", "put"}
  BY <1>o DEF LockIsHeld, InSection
<1>e. ASSUME NEW p \in Procs, NEW l \in PCs \ {"get", "put"}, End(p, l)
      PROVE  /\ Outside(p)
             /\ \A q \in Procs \ {p} :
                  /\ Stays(q)
                  /\ pc[q] \notin {"get", "put"} => Outside(q)
  BY <1>e DEF End, Goto, Shape, StatesFit, Outside, Stays, PCs
<1>1. ASSUME NEW p \in Procs, Construct(p)
      PROVE  QuietStep \/ StateStep
  <2>1. \A q \in Procs : Outside(q) \/ Stays(q)
    BY <1>1 DEF Construct, Goto, Shape, Outside, Stays
  <2> QED
    BY <1>1, <2>1 DEF Construct, AddItem, Exists, QuietStep, StateStep, state, history
<1>2. ASSUME NEW p \in Procs,
             ConstructThrows(p) \/ Ask(p) \/ LockThrows(p) \/ Unlock(p) \/ UnlockFails(p)
      PROVE  QuietStep
  <2>1. \A q \in Procs : Outside(q) \/ Stays(q)
    BY <1>2
    DEF ConstructThrows, Ask, LockThrows, Unlock, UnlockFails, Goto, Shape, Outside, Stays
  <2> QED
    BY <1>2, <2>1
    DEF ConstructThrows, Ask, LockThrows, Unlock, UnlockFails, QuietStep, state, history
<1>3. ASSUME NEW p \in Procs, LockTimesOut(p) \/ Crash(p)
      PROVE  QuietStep
  <2>1. \A q \in Procs : Outside(q) \/ Stays(q)
    BY <1>3, <1>e DEF LockTimesOut, Crash, PCs
  <2> QED
    BY <1>3, <2>1 DEF LockTimesOut, Crash, QuietStep, state, history
<1>4. ASSUME NEW p \in Procs, Lock(p)
      PROVE  LockStep(p)
  <2>1. \A q \in Procs \ {p} : pc[q] \notin {"get", "put"}
    BY <1>4 DEF Lock, LockKey, Free, LockIsHeld
  <2> QED
    BY <1>4, <2>1 DEF Lock, LockStep, Goto, Shape, Outside, state, history
<1>5. ASSUME NEW p \in Procs, Get(p)
      PROVE  GetStep(p)
  <2>1. \A q \in Procs \ {p} : pc[q] \notin {"get", "put"}
    BY <1>5, <1>o DEF Get, InSection
  <2>2. \A q \in Procs \ {p} : pc'[q] = pc[q] /\ copy'[q] = copy[q]
    BY <1>5 DEF Get, Goto, Shape
  <2> QED
    BY <1>5, <2>1, <2>2 DEF GetStep, Outside
<1>6. ASSUME NEW p \in Procs, Put(p)
      PROVE  PutStep(p)
  <2>1. InSection(p) /\ End(p, "unlock")
    BY <1>6 DEF Put, InSection
  <2> QED
    BY <1>6, <2>1, <1>o, <1>e DEF PutStep, PCs
<1>7. ASSUME NEW p \in Procs, CallThrows(p)
      PROVE  ThrowStep(p) \/ QuietStep
  <2>1. /\ InSection(p) /\ End(p, "unlock")
        /\ InsertState(p) \/ UNCHANGED <<item, ttl>>
        /\ UNCHANGED <<now, granted, lag, back>>
    BY <1>7 DEF CallThrows, InSection, history
  <2>2. \A q \in Procs : Outside(q)
    BY <2>1, <1>o, <1>e DEF PCs
  <2> QED
    BY <2>1, <2>2 DEF ThrowStep, QuietStep
<1>8. CASE Tick
  BY <1>8 DEF Tick, TickStep, Stays
<1>9. CASE UNCHANGED vars
  BY <1>9 DEF vars, state, history, QuietStep, Stays
<1> QED
  BY <1>0, <1>1, <1>2, <1>3, <1>4, <1>5, <1>6, <1>7, <1>8, <1>9 DEF Next

(* Nothing is granted or dated back at a time that is still to come: not   *)
(* for the clock, and, under the lock, not for the time the call read.     *)
NothingAfter(t) == Since(granted, t) = 0 /\ Since(back, t) = 0

CountedInTime ==
  /\ NothingAfter(now)
  /\ \A p \in Procs :
       /\ kind # "fixed" /\ InSection(p) => NothingAfter(asked[p])
       /\ copy[p] # NoItem => pc[p] = "put"

LEMMA CountedInTimeInvariant == Prompt => (Spec => []CountedInTime)
<1> USE LeaseAssumption, WindowsAssumption
<1>1. Init => CountedInTime
  <2>1. 0 \in Int
    OBVIOUS
  <2> QED
    BY <2>1, NoneIsATally DEF Init, CountedInTime, NothingAfter, InSection
<1>2. Shape /\ StatesFit /\ LockIsHeld /\ CountedInTime /\ [Next]_vars => CountedInTime'
  <2> SUFFICES ASSUME Shape, StatesFit, LockIsHeld, CountedInTime, [Next]_vars
               PROVE  CountedInTime'
    OBVIOUS
  <2>0. /\ kind' = kind
        /\ now \in Times /\ granted \in Tallies /\ back \in Tallies
        /\ \A p \in Procs : asked[p] \in Times /\ asked[p] <= now
    BY StepsOnTheItem DEF Shape, StatesFit
  <2>1. CASE QuietStep \/ StateStep
    BY <2>0, <2>1
    DEF QuietStep, StateStep, CountedInTime, NothingAfter, InSection, Outside, Stays
  <2>2. ASSUME NEW p \in Procs, LockStep(p)
        PROVE  CountedInTime'
    BY <2>0, <2>2 DEF LockStep, CountedInTime, NothingAfter, InSection, Outside
  <2>3. ASSUME NEW p \in Procs, GetStep(p)
        PROVE  CountedInTime'
    <3>1. /\ granted' = granted /\ now' = now /\ asked' = asked
          /\ pc'[p] = "put" /\ InSection(p)
      BY <2>3 DEF GetStep, Get, Goto, Shape, InSection
    <3>2. \A t \in Int : t >= asked[p] => Since(back', t) = Since(back, t)
      <4>1. CASE kind # "bucket"
        BY <2>3, <4>1 DEF GetStep, Get
      <4>2. CASE kind = "bucket"
        <5>1. Made \in Int
          BY <4>2 DEF Made, StatesFit, Shape, States, Bucket, Times
        <5>2. Max({0, Made - asked[p]}) \in Nat
          BY <2>0, <5>1, MaxOfTwo DEF Times
        <5>3. back' = Counted(back, asked[p], Max({0, Made - asked[p]}))
          BY <2>3, <4>2 DEF GetStep, Get
        <5>4. \A t \in Int : Since(back, t) \in Int
          BY <2>0, UptoGrows
        <5> HIDE WindowsAssumption, LeaseAssumption
        <5>5. \A t \in Int : Since(back', t)
                = Since(back, t)
                    + IF t >= asked[p] THEN 0 ELSE Max({0, Made - asked[p]})
          BY <2>0, <5>2, <5>3, CountedCounts
        <5> QED
          BY <5>4, <5>5
      <4> QED
        BY <4>1, <4>2
    <3>3. NothingAfter(now)' /\ (kind # "fixed" => NothingAfter(asked[p])')
      BY <2>0, <3>1, <3>2 DEF CountedInTime, NothingAfter, Times
    <3> QED
      BY <2>0, <2>3, <3>1, <3>3 DEF GetStep, CountedInTime, InSection, Outside
  <2>4. ASSUME NEW p \in Procs, PutStep(p)
        PROVE  CountedInTime'
    <3>1. back' = back /\ now' = now
      BY <2>4 DEF PutStep, Put
    <3>2. Since(granted', now) = 0
      <4>1. CASE permits[p] > 0
        <5> DEFINE t == IF kind = "fixed" THEN now ELSE asked[p]
                   n == Taken(permits[p])
        <5>1. t \in Times /\ n \in Nat /\ t <= now
          BY <2>0 DEF Taken, Shape, Times
        <5>2. granted' = Counted(granted, t, n)
          BY <2>4, <4>1 DEF PutStep, Put
        <5> HIDE DEF t, n
        <5>3. now \in Int
          BY <2>0 DEF Times
        <5>4. Since(granted', now) = Since(granted, now) + IF now >= t THEN 0 ELSE n
          <6> HIDE WindowsAssumption, LeaseAssumption
          <6> QED
            BY <2>0, <5>1, <5>2, <5>3, CountedCounts
        <5> QED
          BY <5>1, <5>3, <5>4 DEF CountedInTime, NothingAfter, Times
      <4>2. CASE ~(permits[p] > 0)
        BY <2>4, <4>2 DEF PutStep, Put, CountedInTime, NothingAfter
      <4> QED
        BY <4>1, <4>2
    <3> QED
      BY <2>0, <2>4, <3>1, <3>2 DEF PutStep, CountedInTime, NothingAfter, InSection, Outside
  <2>5. ASSUME NEW p \in Procs, ThrowStep(p)
        PROVE  CountedInTime'
    BY <2>5 DEF ThrowStep, CountedInTime, NothingAfter, InSection, Outside
  <2>6. CASE TickStep
    <3>1. /\ now' = now + 1 /\ UNCHANGED <<granted, back>>
          /\ \A q \in Procs : Stays(q)
      BY <2>6 DEF TickStep, Tick, history
    <3>2. NothingAfter(now)'
      <4>1. /\ Since(granted, now + 1) \in Nat /\ Since(granted, now + 1) <= Since(granted, now)
            /\ Since(back, now + 1) \in Nat /\ Since(back, now + 1) <= Since(back, now)
        <5>1. now \in Int /\ now + 1 \in Int /\ now <= now + 1
          BY <2>0 DEF Times
        <5> HIDE WindowsAssumption, LeaseAssumption
        <5> QED
          BY <2>0, <5>1, UptoGrows
      <4> QED
        BY <3>1, <4>1 DEF CountedInTime, NothingAfter
    <3> QED
      BY <2>0, <3>1, <3>2 DEF CountedInTime, NothingAfter, InSection, Stays
  <2> QED
    BY <2>1, <2>2, <2>3, <2>4, <2>5, <2>6, StepsOnTheItem
<1>3. ASSUME Prompt
      PROVE  Spec => []CountedInTime
  <2>1. Spec => []LockIsHeld
    BY <1>3, TheLockIsHeld
  <2> QED
    BY <1>1, <1>2, <2>1, ShapeIsInvariant, StatesFitIsInvariant, PTL DEF Spec
<1> QED
  BY <1>3
-----------------------------------------------------------------------------
(* The sliding window.  A list of stamps covers the grants from a time on  *)
(* when it has a stamp for each of them, and for x more at time a.         *)
Covers(g, s, t, x, a) ==
  \A u \in Int : u >= t => Since(g, u) + (IF u < a THEN x ELSE 0) <= Since(s, u)

One(n) == IF n > 0 THEN 1 ELSE 0

(* The item covers the last window, and so does what is about to be        *)
(* written.  Who reads or wrote with a time at most Grace ago finds the    *)
(* window before that time covered, too: an item that is gone was written  *)
(* a window and Grace ago, or earlier.                                     *)
GoneIsOld ==
  ttl # Forever => Since(granted, now + ttl - Window - Grace) = 0

ItemCovers ==
  item # NoItem => Covers(granted, item, now - Window, 0, 0)

ReadCovers(p) ==
  pc[p] = "get" /\ item # NoItem /\ now - asked[p] <= Grace =>
    Covers(granted, item, asked[p] - Window, 0, 0)

CopyCovers(p) ==
  pc[p] = "put" =>
    /\ copy[p] # NoItem
    /\ Covers(granted, copy[p], now - Window, One(permits[p]), asked[p])
    /\ now - asked[p] <= Grace =>
         Covers(granted, copy[p], asked[p] - Window, One(permits[p]), asked[p])

SlidingInv ==
  kind = "sliding" =>
    /\ GoneIsOld
    /\ ItemCovers
    /\ \A p \in Procs : ReadCovers(p) /\ CopyCovers(p)
    /\ SlidingWithinLimit

LEMMA CoversLater ==
  ASSUME NEW g, NEW s, NEW x, NEW a, NEW t \in Int, NEW u \in Int,
         t <= u, Covers(g, s, t, x, a)
  PROVE  Covers(g, s, u, x, a)
BY DEF Covers

LEMMA SlidingGet ==
  ASSUME kind = "sliding", Shape, StatesFit, CountedInTime, SlidingInv,
         NEW p \in Procs, Get(p)
  PROVE  CopyCovers(p)'
<1> USE WindowsAssumption
<1> DEFINE a == asked[p]
           f == Fetched(a)
           s == CurrentStamps(f, a)
<1>1. /\ now \in Int /\ a \in Times /\ a \in Int /\ a <= now /\ kind \in Kinds
      /\ granted \in Tallies
      /\ item \in Sliding \cup {NoItem}
      /\ pc[p] = "get" /\ permits[p] \in 0 .. Limit
  BY DEF Shape, StatesFit, States, Times, Get
<1>2. f \in Sliding
  <2>1. CASE item = NoItem
    BY <1>1, <2>1, EmptyIsAState DEF Fetched, States
  <2>2. CASE item # NoItem
    BY <1>1, <2>2 DEF Fetched
  <2> QED
    BY <2>1, <2>2
<1>3. /\ s \in Sliding
      /\ \A u \in Int : u >= a - Window => Since(s, u) = Since(f, u)
  BY <1>1, <1>2, StampsAreTrimmed
<1>4. /\ \A u \in Int : Since(granted, u) \in Nat
      /\ \A t \in Int, u \in Int : t <= u => Since(granted, u) <= Since(granted, t)
  BY <1>1, UptoGrows
<1>5. /\ Covers(granted, f, now - Window, 0, 0)
      /\ now - a <= Grace => Covers(granted, f, a - Window, 0, 0)
  <2>1. CASE item # NoItem
    BY <1>1, <2>1 DEF SlidingInv, ItemCovers, ReadCovers, Fetched
  <2>2. CASE item = NoItem
    <3>1. f = None
      BY <2>2 DEF Fetched, Empty
    <3>2. ttl = 0 /\ Since(granted, now - Window - Grace) = 0
      BY <1>1, <2>2 DEF StatesFit, SlidingInv, GoneIsOld, Forever
    <3>3. \A u \in Int : u >= now - Window - Grace => Since(granted, u) = 0
      BY <1>1, <1>4, <3>2
    <3>4. \A u \in Int : Since(f, u) = 0
      BY <3>1, NoneIsATally
    <3> HIDE DEF f
    <3> QED
      BY <1>1, <3>3, <3>4 DEF Covers
  <2> QED
    BY <2>1, <2>2
<1>6. s \in Tallies
  BY <1>3 DEF Sliding
<1>7. \A u \in Int : Since(s, u) \in Nat
  BY <1>6, UptoGrows
<1> HIDE DEF f
<1>8. /\ Covers(granted, s, now - Window, 0, 0)
      /\ now - a <= Grace => Covers(granted, s, a - Window, 0, 0)
  <2>1. ASSUME NEW t \in Int, t >= a - Window, Covers(granted, f, t, 0, 0)
        PROVE  Covers(granted, s, t, 0, 0)
    BY <1>1, <1>3, <2>1 DEF Covers
  <2> QED
    BY <1>1, <1>5, <2>1
<1> HIDE DEF s
<1>9. Current(Fetched(a), a) = s
  BY DEF Current, s, f
<1>10. /\ granted' = granted /\ now' = now /\ asked' = asked
       /\ pc'[p] = "put"
  BY DEF Get, Goto, Shape
<1>11. Since(granted, a) = 0
  BY <1>1 DEF CountedInTime, InSection, NothingAfter
<1>12. CASE Allowed(s, permits[p])
  <2> DEFINE c == Counted(s, a, 1)
  <2>1. copy'[p] = c /\ permits'[p] = permits[p]
    BY <1>9, <1>12 DEF Get, Charged, StatesFit, Shape
  <2>2. c \in Tallies /\ \A u \in Int : Since(c, u) = Since(s, u) + IF u >= a THEN 0 ELSE 1
    <3>1. 1 \in Nat
      OBVIOUS
    <3> HIDE WindowsAssumption
    <3> QED
      BY <1>1, <1>6, <3>1, CountedCounts
  <2>3. c # NoItem
    <3>1. c \in Sliding
      <4>1. s[MaxTime] < Limit
        BY <1>12 DEF Allowed
      <4>2. c = Charged(s, a, permits[p]) /\ s \in States
        BY <1>3 DEF Charged, States, s
      <4> QED
        BY <1>1, <1>12, <4>2, ChargedIsAState DEF States
    <3> QED
      BY <3>1
  <2> HIDE DEF c
  <2>4. One(permits[p]) \in {0, 1}
    BY DEF One
  <2>5. ASSUME NEW t \in Int, Covers(granted, s, t, 0, 0)
        PROVE  Covers(granted, c, t, One(permits[p]), a)
    <3>1. ASSUME NEW u \in Int, u >= t
          PROVE  Since(granted, u) + (IF u < a THEN One(permits[p]) ELSE 0) <= Since(c, u)
      <4>1. /\ Since(granted, u) <= Since(s, u)
            /\ Since(granted, u) \in Nat /\ Since(s, u) \in Nat
        BY <1>4, <1>7, <2>5, <3>1 DEF Covers
      <4>2. Since(c, u) = Since(s, u) + IF u >= a THEN 0 ELSE 1
        BY <2>2
      <4> HIDE DEF a
      <4> QED
        BY <1>1, <2>4, <4>1, <4>2
    <3> QED
      BY <3>1 DEF Covers
  <2> HIDE DEF a
  <2>6. /\ Covers(granted, c, now - Window, One(permits[p]), a)
        /\ now - a <= Grace => Covers(granted, c, a - Window, One(permits[p]), a)
    BY <1>1, <1>8, <2>5
  <2>7. asked'[p] = a
    BY <1>10 DEF a
  <2> QED
    BY <1>10, <2>1, <2>3, <2>6, <2>7 DEF CopyCovers
<1>13. CASE ~Allowed(s, permits[p])
  <2>1. copy'[p] = s /\ permits'[p] = 0
    BY <1>9, <1>13 DEF Get, StatesFit, Shape
  <2>2. s # NoItem /\ One(0) = 0
    BY <1>3 DEF One, s
  <2>3. ASSUME NEW t \in Int, Covers(granted, s, t, 0, 0)
        PROVE  Covers(granted, s, t, 0, a)
    BY <2>3 DEF Covers
  <2> HIDE DEF a
  <2>4. /\ Covers(granted, s, now - Window, 0, a)
        /\ now - a <= Grace => Covers(granted, s, a - Window, 0, a)
    BY <1>1, <1>8, <2>3
  <2>5. asked'[p] = a
    BY <1>10 DEF a
  <2> QED
    BY <1>10, <2>1, <2>2, <2>4, <2>5 DEF CopyCovers
<1> QED
  BY <1>12, <1>13
LEMMA SlidingGrant ==
  ASSUME kind = "sliding", Shape, StatesFit, SlidingInv,
         NEW p \in Procs, Put(p), permits[p] > 0
  PROVE  /\ granted' = Counted(granted, asked[p], 1)
         /\ \A u \in Int : Since(granted', u)
                             = Since(granted, u) + IF u >= asked[p] THEN 0 ELSE 1
         /\ SlidingWithinLimit'
<1> USE WindowsAssumption
<1> DEFINE a == asked[p]
           c == copy[p]
<1>1. /\ now \in Int /\ a \in Times /\ a \in Int /\ a <= now /\ kind \in Kinds
      /\ granted \in Tallies /\ lag \in Int /\ pc[p] = "put"
  BY DEF Shape, StatesFit, Times, Put
<1>2. /\ granted' = Counted(granted, a, 1)
      /\ lag' = Max({lag, now - a})
  BY DEF Put, Taken
<1>3. lag' = IF lag >= now - a THEN lag ELSE now - a
  BY <1>1, <1>2, MaxOfTwo
<1>4. /\ granted' \in Tallies
      /\ \A u \in Int : Upto(granted', u) = Upto(granted, u) + IF u >= a THEN 1 ELSE 0
      /\ \A u \in Int : Since(granted', u) = Since(granted, u) + IF u >= a THEN 0 ELSE 1
  <2>1. 1 \in Nat
    OBVIOUS
  <2> HIDE WindowsAssumption
  <2> QED
    BY <1>1, <1>2, <2>1, CountedCounts
<1>5. /\ \A u \in Int : Upto(granted, u) \in Nat /\ Since(granted, u) \in Nat
      /\ \A u \in Int : Upto(granted', u) \in Nat /\ Upto(granted', u) <= granted'[MaxTime]
      /\ granted'[MaxTime] \in Nat
  BY <1>1, <1>4, UptoGrows
<1>6. c \in Sliding
  BY <1>1 DEF SlidingInv, CopyCovers, StatesFit, States
<1>7. \A u \in Int : Since(c, u) \in Nat /\ Since(c, u) <= Limit
  <2>1. c \in Tallies /\ c[MaxTime] <= Limit
    BY <1>6 DEF Sliding
  <2>2. c[MaxTime] \in Nat /\ \A u \in Int : Upto(c, u) \in Nat /\ Since(c, u) \in Nat
    BY <2>1, UptoGrows
  <2> QED
    BY <2>1, <2>2 DEF Since
<1> HIDE DEF c
<1>8. SlidingWithinLimit'
  <2> SUFFICES ASSUME lag' <= Grace, NEW s \in Times
               PROVE  Over(granted', s, s + Window - 1) <= Limit
    BY DEF SlidingWithinLimit
  <2>0. /\ lag <= Grace /\ now - a <= Grace
        /\ s \in Int /\ s - 1 \in Int /\ s + Window - 1 \in Int
    BY <1>1, <1>3 DEF Times
  <2>1. Over(granted, s, s + Window - 1) <= Limit
    BY <2>0 DEF SlidingInv, SlidingWithinLimit
  <2>2. CASE a < s \/ a > s + Window - 1
    <3>1. Over(granted', s, s + Window - 1) = Over(granted, s, s + Window - 1)
      BY <1>1, <1>4, <1>5, <2>0, <2>2 DEF Over
    <3> QED
      BY <2>1, <3>1
  <2>3. CASE s <= a /\ a <= s + Window - 1
    <3>1. Over(granted', s, s + Window - 1) <= Since(granted', s - 1)
      BY <1>5, <2>0 DEF Over, Since
    <3>2. Since(granted', s - 1) = Since(granted, s - 1) + 1
      BY <1>1, <1>4, <2>0, <2>3
    <3>3. Covers(granted, c, a - Window, 1, a)
      BY <1>1, <2>0 DEF SlidingInv, CopyCovers, One, c
    <3>4. Since(granted, s - 1) + 1 <= Since(c, s - 1)
      BY <1>1, <2>0, <2>3, <3>3 DEF Covers
    <3>5. /\ Since(c, s - 1) <= Limit /\ Since(c, s - 1) \in Nat
          /\ Since(granted, s - 1) \in Nat
          /\ Over(granted', s, s + Window - 1) \in Int
      BY <1>5, <1>7, <2>0 DEF Over
    <3> QED
      BY <3>1, <3>2, <3>4, <3>5
  <2> QED
    BY <1>1, <2>0, <2>2, <2>3
<1> QED
  BY <1>2, <1>4, <1>8

(* A write, with a grant or without. *)
LEMMA SlidingWrite ==
  ASSUME kind = "sliding", kind' = kind, Shape, StatesFit, CountedInTime, CountedInTime',
         SlidingInv, NEW p \in Procs, PutStep(p) \/ ThrowStep(p)
  PROVE  SlidingInv'
<1> USE WindowsAssumption
<1>1. /\ now' = now /\ now \in Int /\ granted \in Tallies
      /\ InsertState(p) /\ pc[p] \in {"get", "put"}
      /\ \A q \in Procs : pc'[q] \notin {"get", "put"}
  BY DEF PutStep, ThrowStep, Put, InSection, Shape, StatesFit, Times, Outside
<1>2. \A q \in Procs : ReadCovers(q)' /\ CopyCovers(q)'
  BY <1>1 DEF ReadCovers, CopyCovers
<1>3. \/ /\ granted' = granted /\ lag' = lag
      \/ PutStep(p) /\ permits[p] > 0
  BY DEF PutStep, ThrowStep, Put
<1>4. SlidingWithinLimit'
  <2>1. CASE granted' = granted /\ lag' = lag
    BY <2>1 DEF SlidingInv, SlidingWithinLimit
  <2>2. CASE PutStep(p) /\ permits[p] > 0
    BY <2>2, SlidingGrant DEF PutStep
  <2> QED
    BY <1>3, <2>1, <2>2
<1>5. CASE copy[p] # NoItem
  <2>1. item' = copy[p] /\ ttl' = Window + Grace /\ pc[p] = "put"
    BY <1>1, <1>5 DEF InsertState, Life, CountedInTime
  <2>2. Since(granted', now) = 0
    BY <1>1 DEF CountedInTime, NothingAfter
  <2>3. GoneIsOld'
    <3>1. now' + ttl' - Window - Grace = now
      BY <1>1, <2>1
    <3> QED
      BY <2>2, <3>1 DEF GoneIsOld
  <2>4. Covers(granted, copy[p], now - Window, One(permits[p]), asked[p])
    BY <2>1 DEF SlidingInv, CopyCovers
  <2>5. Covers(granted', copy[p], now - Window, 0, 0)
    <3>1. \A u \in Int : Since(granted, u) \in Nat
      BY <1>1, UptoGrows
    <3>2. CASE granted' = granted
      <4>1. One(permits[p]) \in {0, 1}
        BY DEF One
      <4>2. copy[p] \in Tallies
        BY <1>5 DEF StatesFit, States, Sliding
      <4>3. \A u \in Int : Since(copy[p], u) \in Nat
        BY <4>2, UptoGrows
      <4> QED
        BY <2>4, <3>1, <3>2, <4>1, <4>3 DEF Covers
    <3>3. CASE PutStep(p) /\ permits[p] > 0
      <4>1. \A u \in Int : Since(granted', u)
                             = Since(granted, u) + IF u >= asked[p] THEN 0 ELSE 1
        BY <3>3, SlidingGrant DEF PutStep
      <4>2. One(permits[p]) = 1 /\ asked[p] \in Int
        BY <3>3 DEF One, Shape, Times
      <4>3. ASSUME NEW u \in Int, u >= now - Window
            PROVE  Since(granted', u) + (IF u < 0 THEN 0 ELSE 0) <= Since(copy[p], u)
        <5>1. Since(granted, u) + (IF u < asked[p] THEN 1 ELSE 0) <= Since(copy[p], u)
          BY <2>4, <4>2, <4>3 DEF Covers
        <5>2. Since(granted', u) = Since(granted, u) + IF u < asked[p] THEN 1 ELSE 0
          BY <4>1, <4>2
        <5>3. Since(granted', u) \in Int
          BY <3>1, <5>2
        <5> QED
          BY <5>1, <5>2, <5>3
      <4> QED
        BY <4>3 DEF Covers
    <3> QED
      BY <1>3, <3>2, <3>3
  <2>6. ItemCovers'
    BY <1>1, <2>1, <2>5 DEF ItemCovers
  <2> QED
    BY <1>2, <1>4, <2>3, <2>6 DEF SlidingInv
<1>6. CASE copy[p] = NoItem
  <2>1. pc[p] # "put" /\ UNCHANGED <<item, ttl>>
    BY <1>1, <1>6 DEF InsertState, SlidingInv, CopyCovers
  <2>2. UNCHANGED granted
    BY <2>1 DEF PutStep, Put, ThrowStep
  <2>3. GoneIsOld' /\ ItemCovers'
    BY <1>1, <2>1, <2>2 DEF SlidingInv, GoneIsOld, ItemCovers
  <2> QED
    BY <1>2, <1>4, <2>3 DEF SlidingInv
<1> QED
  BY <1>5, <1>6

LEMMA SlidingInvariant == Prompt => (Spec => []SlidingInv)
<1> USE LeaseAssumption, WindowsAssumption
<1>1. Init => SlidingInv
  <2> SUFFICES ASSUME Init
               PROVE  SlidingInv
    OBVIOUS
  <2>1. /\ item = NoItem /\ now = 0 /\ ttl = 0 /\ granted = None
        /\ \A p \in Procs : pc[p] = "ctor"
    BY DEF Init
  <2>2. GoneIsOld
    <3>1. now + ttl - Window - Grace \in Int
      BY <2>1
    <3> QED
      BY <2>1, <3>1, NoneIsATally DEF GoneIsOld
  <2>3. SlidingWithinLimit
    <3>1. ASSUME NEW s \in Times
          PROVE  Over(granted, s, s + Window - 1) <= Limit
      <4>1. s - 1 \in Int /\ s + Window - 1 \in Int
        BY DEF Times
      <4>2. Over(granted, s, s + Window - 1) = 0 - 0
        BY <2>1, <4>1, NoneIsATally DEF Over
      <4> QED
        BY <4>2
    <3> QED
      BY <3>1 DEF SlidingWithinLimit
  <2> QED
    BY <2>1, <2>2, <2>3 DEF SlidingInv, ItemCovers, ReadCovers, CopyCovers
<1>2. /\ Shape /\ StatesFit /\ LockIsHeld /\ CountedInTime /\ CountedInTime' /\ SlidingInv
      /\ [Next]_vars
      => SlidingInv'
  <2> SUFFICES ASSUME Shape, StatesFit, LockIsHeld, CountedInTime, CountedInTime', SlidingInv,
                      [Next]_vars, kind = "sliding"
               PROVE  SlidingInv'
    BY StepsOnTheItem DEF SlidingInv
  <2>0. /\ kind' = kind /\ kind \in Kinds
        /\ now \in Times /\ now \in Int /\ granted \in Tallies
        /\ \A p \in Procs : asked[p] \in Int /\ asked[p] <= now
    BY StepsOnTheItem DEF Shape, StatesFit, Times
  <2>f. /\ \A u \in Int : Since(granted, u) \in Nat
        /\ \A t \in Int, u \in Int : t <= u => Since(granted, u) <= Since(granted, t)
    BY <2>0, UptoGrows
  <2>1. CASE QuietStep
    <3>1. UNCHANGED <<now, item, ttl, granted, lag>>
      BY <2>1 DEF QuietStep
    <3>2. GoneIsOld' /\ ItemCovers' /\ SlidingWithinLimit'
      BY <2>0, <3>1 DEF SlidingInv, GoneIsOld, ItemCovers, SlidingWithinLimit
    <3>3. ASSUME NEW q \in Procs
          PROVE  ReadCovers(q)' /\ CopyCovers(q)'
      <4>1. CASE Outside(q)
        BY <4>1 DEF Outside, ReadCovers, CopyCovers
      <4>2. CASE Stays(q)
        BY <3>1, <4>2 DEF SlidingInv, Stays, ReadCovers, CopyCovers
      <4> QED
        BY <2>1, <4>1, <4>2 DEF QuietStep
    <3> QED
      BY <3>2, <3>3 DEF SlidingInv
  <2>2. CASE StateStep
    <3>1. /\ UNCHANGED <<now, granted, lag>>
          /\ item = NoItem /\ item' = None /\ ttl' = Forever
      BY <2>2 DEF StateStep, Empty
    <3>2. Since(granted, now - Window - Grace) = 0
      <4>1. ttl = 0 /\ ttl # Forever
        BY <3>1 DEF StatesFit, Forever
      <4> QED
        BY <2>0, <4>1 DEF SlidingInv, GoneIsOld
    <3>3. ASSUME NEW t \in Int, t >= now - Window - Grace
          PROVE  Covers(granted, None, t, 0, 0)
      <4>1. now - Window - Grace \in Int
        BY <2>0
      <4>2. ASSUME NEW u \in Int, u >= t
            PROVE  Since(granted, u) = 0
        <5>1. Since(granted, u) <= Since(granted, now - Window - Grace)
          BY <2>0, <2>f, <3>3, <4>1, <4>2
        <5> QED
          BY <2>f, <3>2, <5>1
      <4> QED
        BY <4>2, NoneIsATally DEF Covers
    <3>4. GoneIsOld' /\ ItemCovers' /\ SlidingWithinLimit'
      <4>1. Covers(granted, None, now - Window, 0, 0)
        BY <2>0, <3>3
      <4> QED
        BY <2>0, <3>1, <4>1 DEF SlidingInv, GoneIsOld, ItemCovers, SlidingWithinLimit
    <3>5. ASSUME NEW q \in Procs
          PROVE  ReadCovers(q)' /\ CopyCovers(q)'
      <4>1. CASE Outside(q)
        BY <4>1 DEF Outside, ReadCovers, CopyCovers
      <4>2. CASE Stays(q)
        <5>1. now - asked[q] <= Grace => Covers(granted, None, asked[q] - Window, 0, 0)
          BY <2>0, <3>3
        <5> QED
          BY <3>1, <4>2, <5>1 DEF SlidingInv, Stays, ReadCovers, CopyCovers
      <4> QED
        BY <2>2, <4>1, <4>2 DEF StateStep
    <3> QED
      BY <3>4, <3>5 DEF SlidingInv
  <2>3. ASSUME NEW p \in Procs, LockStep(p)
        PROVE  SlidingInv'
    <3>1. /\ UNCHANGED <<now, item, ttl, granted, lag>>
          /\ pc'[p] = "get" /\ asked'[p] = now
          /\ \A q \in Procs \ {p} : pc'[q] \notin {"get", "put"}
      BY <2>3 DEF LockStep, Outside
    <3>2. GoneIsOld' /\ ItemCovers' /\ SlidingWithinLimit'
      BY <2>0, <3>1 DEF SlidingInv, GoneIsOld, ItemCovers, SlidingWithinLimit
    <3>3. \A q \in Procs : ReadCovers(q)' /\ CopyCovers(q)'
      BY <3>1 DEF SlidingInv, ItemCovers, ReadCovers, CopyCovers
    <3> QED
      BY <3>2, <3>3 DEF SlidingInv
  <2>4. ASSUME NEW p \in Procs, GetStep(p)
        PROVE  SlidingInv'
    <3>1. /\ UNCHANGED <<now, item, ttl, granted, lag>>
          /\ pc'[p] = "put"
          /\ \A q \in Procs \ {p} : pc'[q] \notin {"get", "put"}
      BY <2>4 DEF GetStep, Get, Goto, Shape, Outside, state
    <3>2. GoneIsOld' /\ ItemCovers' /\ SlidingWithinLimit'
      BY <2>0, <3>1 DEF SlidingInv, GoneIsOld, ItemCovers, SlidingWithinLimit
    <3>3. CopyCovers(p)'
      BY <2>4, SlidingGet DEF GetStep
    <3>4. \A q \in Procs : ReadCovers(q)' /\ CopyCovers(q)'
      BY <3>1, <3>3 DEF ReadCovers, CopyCovers
    <3> QED
      BY <3>2, <3>4 DEF SlidingInv
  <2>5. ASSUME NEW p \in Procs, PutStep(p) \/ ThrowStep(p)
        PROVE  SlidingInv'
    BY <2>0, <2>5, SlidingWrite
  <2>6. CASE TickStep
    <3>1. /\ now' = now + 1 /\ UNCHANGED <<granted, lag>>
          /\ ttl' = IF ttl \in {0, Forever} THEN ttl ELSE ttl - 1
          /\ item' \in {item, NoItem}
          /\ \A q \in Procs : Stays(q)
      BY <2>6 DEF TickStep, Tick, history
    <3>2. GoneIsOld'
      <4>1. CASE ttl = Forever
        BY <3>1, <4>1 DEF GoneIsOld, Forever
      <4>2. CASE ttl # Forever
        <5>1. /\ ttl \in Nat /\ ttl' \in Nat
              /\ now + ttl - Window - Grace \in Int
              /\ now' + ttl' - Window - Grace \in Int
              /\ now + ttl - Window - Grace <= now' + ttl' - Window - Grace
          BY <2>0, <3>1, <4>2 DEF StatesFit, Forever
        <5>2. Since(granted, now + ttl - Window - Grace) = 0
          BY <4>2 DEF SlidingInv, GoneIsOld
        <5>3. /\ Since(granted, now' + ttl' - Window - Grace)
                   <= Since(granted, now + ttl - Window - Grace)
              /\ Since(granted, now' + ttl' - Window - Grace) \in Nat
          BY <2>f, <5>1
        <5>4. Since(granted, now' + ttl' - Window - Grace) = 0
          BY <5>2, <5>3
        <5> QED
          BY <3>1, <5>4 DEF GoneIsOld
      <4> QED
        BY <4>1, <4>2
    <3>3. /\ now - Window \in Int /\ now' - Window \in Int
          /\ now - Window <= now' - Window
          /\ \A q \in Procs : now' - asked[q] <= Grace => now - asked[q] <= Grace
      BY <2>0, <3>1
    <3>c. ASSUME NEW s, NEW x, NEW a, Covers(granted, s, now - Window, x, a)
          PROVE  Covers(granted, s, now' - Window, x, a)
      BY <3>3, <3>c, CoversLater
    <3>4. ItemCovers'
      <4>1. item # NoItem => Covers(granted, item, now - Window, 0, 0)
        BY DEF SlidingInv, ItemCovers
      <4>2. item # NoItem => Covers(granted, item, now' - Window, 0, 0)
        BY <3>c, <4>1
      <4> QED
        BY <3>1, <4>2 DEF ItemCovers
    <3>5. ASSUME NEW q \in Procs
          PROVE  ReadCovers(q)' /\ CopyCovers(q)'
      <4>1. ReadCovers(q) /\ CopyCovers(q) /\ Stays(q)
        BY <3>1 DEF SlidingInv
      <4>2. ReadCovers(q)'
        BY <3>1, <3>3, <4>1 DEF Stays, ReadCovers
      <4>3. pc[q] = "put" =>
              Covers(granted, copy[q], now' - Window, One(permits[q]), asked[q])
        BY <3>c, <4>1 DEF CopyCovers
      <4>4. CopyCovers(q)'
        BY <3>1, <3>3, <4>1, <4>3 DEF Stays, CopyCovers
      <4> QED
        BY <4>2, <4>4
    <3>6. SlidingWithinLimit'
      BY <2>0, <3>1 DEF SlidingInv, SlidingWithinLimit
    <3> QED
      BY <3>2, <3>4, <3>5, <3>6 DEF SlidingInv
  <2> QED
    BY <2>1, <2>2, <2>3, <2>4, <2>5, <2>6, StepsOnTheItem
<1>3. ASSUME Prompt
      PROVE  Spec => []SlidingInv
  <2>1. Spec => []LockIsHeld
    BY <1>3, TheLockIsHeld
  <2>2. Spec => []CountedInTime
    BY <1>3, CountedInTimeInvariant
  <2> QED
    BY <1>1, <1>2, <2>1, <2>2, ShapeIsInvariant, StatesFitIsInvariant, PTL DEF Spec
<1> QED
  BY <1>3

(* The sliding window of processes that finish within their lease, however *)
(* many there are and however often they or their calls fail: as long as   *)
(* no grant is older than the item's extra second, no window of its length *)
(* sees more grants than the limit, the windows that span an expiration of *)
(* the item included.                                                      *)
THEOREM NoWindowExceedsTheLimit == Prompt => (Spec => []SlidingWithinLimit)
<1>1. SlidingInv => SlidingWithinLimit
  BY DEF SlidingInv, SlidingWithinLimit
<1>2. ASSUME Prompt
      PROVE  Spec => []SlidingWithinLimit
  <2>1. Spec => []SlidingInv
    BY <1>2, SlidingInvariant
  <2> QED
    BY <1>1, <2>1, PTL
<1> QED
  BY <1>2
-----------------------------------------------------------------------------
(* The fixed window.  The windows that have a grant at s or later expire   *)
(* after s less the age of the oldest grant, and a window or more apart:   *)
(* Age says how long ago the first of them can have expired when the last  *)
(* one does.                                                               *)
Age(s) == item.expires - s + lag - 1

Granted(s) == Since(granted, s - 1)

ExpiresInTime ==
  item # NoItem => item.expires <= now + Window

(* Whoever is about to write has a window that is not over for its time,   *)
(* the one that is there or a later one, and has charged it.               *)
NextWindow(p) ==
  /\ copy[p] # NoItem =>
       /\ asked[p] < copy[p].expires /\ copy[p].expires <= now + Window
       /\ \/ /\ copy[p].expires = item.expires
             /\ copy[p].count >= item.count + permits[p]
          \/ /\ copy[p].expires >= item.expires + Window
             /\ copy[p].count >= permits[p]
  /\ pc[p] = "put" /\ permits[p] > 0 => copy[p] # NoItem

EveryWindowCounts ==
  \A s \in Times :
    Granted(s) > 0 =>
      /\ item # NoItem /\ Age(s) >= 0
      /\ Granted(s) <= Limit * (Age(s) \div Window) + item.count

BurstInv ==
  kind = "fixed" =>
    /\ ExpiresInTime
    /\ \A p \in Procs : NextWindow(p)
    /\ EveryWindowCounts
    /\ BurstIsBounded

LEMMA DivisionShifts ==
  ASSUME NEW a \in Nat, NEW k \in Nat, NEW d \in Nat \ {0}
  PROVE  (a + k * d) \div d = (a \div d) + k
BY Division

LEMMA DivisionGrows ==
  ASSUME NEW a \in Nat, NEW b \in Nat, NEW d \in Nat \ {0}
  PROVE  /\ a <= b => a \div d <= b \div d
         /\ a + d <= b => (a \div d) + 1 <= b \div d
BY Division

LEMMA AnotherWindow ==
  ASSUME NEW a \in Nat, NEW b \in Nat, NEW c \in 0 .. Limit, NEW d \in Nat,
         NEW n \in Nat, NEW g \in Nat,
         g <= Limit * (a \div Window) + c,
         (a <= b /\ c + n <= d) \/ (a + Window <= b /\ n <= d)
  PROVE  g + n <= Limit * (b \div Window) + d
<1> USE WindowsAssumption
<1> DEFINE x == a \div Window
           y == b \div Window
<1>1. x \in Nat /\ y \in Nat
  BY Division
<1>2. /\ a <= b => x <= y
      /\ a + Window <= b => x + 1 <= y
  BY DivisionGrows
<1> HIDE DEF x, y
<1>3. /\ x <= y => Limit * x <= Limit * y
      /\ x + 1 <= y => Limit * x + Limit <= Limit * y
      /\ Limit * x \in Nat /\ Limit * y \in Nat
  BY <1>1
<1>4. g <= Limit * x + c
  BY DEF x
<1>5. g + n <= Limit * y + d
  BY <1>2, <1>3, <1>4
<1> QED
  BY <1>5 DEF y

(* The processes at work on a fixed window find the item. *)
LEMMA FixedItemIsThere ==
  ASSUME kind = "fixed", OpeningInv, FixedInv, NEW p \in Procs, InSection(p)
  PROVE  item \in Fixed /\ item # NoItem
BY DEF OpeningInv, LockFound, FixedInv, InSection

LEMMA BurstGet ==
  ASSUME kind = "fixed", Shape, StatesFit, OpeningInv, FixedInv, BurstInv,
         NEW p \in Procs, Get(p)
  PROVE  NextWindow(p)'
<1> USE WindowsAssumption
<1> DEFINE a == asked[p]
           n == permits[p]
           s == CurrentWindow(item, a)
<1>1. /\ item \in Fixed /\ item # NoItem
      /\ a \in Int /\ a <= now /\ now \in Int /\ n \in 0 .. Limit
      /\ item.expires <= now + Window
      /\ item.expires \in Int /\ item.count \in 0 .. Limit
  <2>1. InSection(p)
    BY DEF Get, InSection
  <2>2. item \in Fixed /\ item # NoItem
    BY <2>1, FixedItemIsThere
  <2> QED
    BY <2>2 DEF Shape, StatesFit, Times, BurstInv, ExpiresInTime, Fixed
<1>2. Current(Fetched(a), a) = s
  BY <1>1 DEF Current, Fetched
<1>3. UNCHANGED <<now, item, asked>>
  BY DEF Get, state
<1>4. CASE Allowed(s, n)
  <2>1. copy'[p] = [s EXCEPT !.count = @ + n] /\ permits'[p] = n
    BY <1>2, <1>4 DEF Get, Charged, StatesFit, Shape
  <2>2. CASE item.expires <= a
    <3>1. copy'[p] = [count |-> n, expires |-> a + Window]
      BY <1>1, <2>1, <2>2 DEF CurrentWindow
    <3>2. copy'[p] # NoItem
      <4>1. copy'[p] \in Fixed
        BY <1>1, <3>1 DEF Fixed, Shape, Times
      <4> QED
        BY <4>1
    <3> QED
      BY <1>1, <1>3, <2>1, <2>2, <3>1, <3>2 DEF NextWindow
  <2>3. CASE a < item.expires
    <3>1. copy'[p] = [count |-> item.count + n, expires |-> item.expires]
      BY <1>1, <2>1, <2>3 DEF CurrentWindow, Fixed
    <3>2. copy'[p] # NoItem
      <4>1. item.count + n \in 0 .. Limit
        <5>1. s = item
          BY <1>1, <2>3 DEF CurrentWindow
        <5> QED
          BY <1>1, <1>4, <5>1 DEF Allowed
      <4>2. copy'[p] \in Fixed
        BY <1>1, <3>1, <4>1 DEF Fixed
      <4> QED
        BY <4>2
    <3> QED
      BY <1>1, <1>3, <2>1, <2>3, <3>1, <3>2 DEF NextWindow
  <2> QED
    BY <1>1, <2>2, <2>3
<1>5. CASE ~Allowed(s, n)
  <2>1. copy'[p] = NoItem /\ permits'[p] = 0
    BY <1>2, <1>5 DEF Get, StatesFit, Shape
  <2> QED
    BY <2>1 DEF NextWindow
<1> QED
  BY <1>4, <1>5

LEMMA BurstWrite ==
  ASSUME kind = "fixed", kind' = kind, Shape, StatesFit, OpeningInv, CountedInTime,
         CountedInTime', FixedInv, FixedInv', BurstInv,
         NEW p \in Procs, PutStep(p) \/ ThrowStep(p)
  PROVE  BurstInv'
<1> USE WindowsAssumption
<1> DEFINE n == IF granted' = granted THEN 0 ELSE permits[p]
<1>1. /\ now' = now /\ now \in Times /\ now \in Int
      /\ granted \in Tallies /\ lag \in Nat
      /\ asked[p] \in Int /\ asked[p] <= now /\ permits[p] \in Nat
      /\ item \in Fixed /\ item # NoItem
      /\ InSection(p) /\ InsertState(p)
      /\ \A q \in Procs : Outside(q)
  <2>1. InSection(p)
    BY DEF PutStep, ThrowStep, Put, InSection
  <2> QED
    BY <2>1, FixedItemIsThere DEF PutStep, ThrowStep, Put, Shape, StatesFit, Times
<1>2. \A q \in Procs : NextWindow(q)'
  BY <1>1 DEF NextWindow, Outside, CountedInTime
<1>3. \/ granted' = granted /\ lag' = lag
      \/ /\ PutStep(p) /\ permits[p] > 0
         /\ granted' = Counted(granted, now, permits[p])
         /\ lag' = Max({lag, now - asked[p]})
         /\ copy[p] # NoItem
  BY DEF PutStep, ThrowStep, Put, Taken, BurstInv, NextWindow
<1>4. /\ granted' \in Tallies
      /\ \A u \in Int : Upto(granted', u) = Upto(granted, u) + IF u >= now THEN n ELSE 0
      /\ \A u \in Int : Since(granted', u) = Since(granted, u) + IF u >= now THEN 0 ELSE n
      /\ n \in Nat
  <2>1. \A u \in Int : Upto(granted, u) \in Nat /\ Since(granted, u) \in Nat
    BY <1>1, UptoGrows
  <2>2. CASE granted' = granted
    BY <1>1, <2>1, <2>2
  <2>3. CASE granted' # granted
    <3>1. granted' = Counted(granted, now, permits[p]) /\ n = permits[p]
      BY <1>3, <2>3
    <3> HIDE WindowsAssumption DEF n
    <3> QED
      BY <1>1, <3>1, CountedCounts
  <2> QED
    BY <2>2, <2>3
<1>5. /\ lag' \in Nat /\ lag <= lag' /\ lag' \in Times
      /\ n > 0 => now - asked[p] <= lag' /\ copy[p] # NoItem
  <2>1. CASE granted' = granted /\ lag' = lag
    BY <1>1, <2>1 DEF StatesFit
  <2>2. CASE lag' = Max({lag, now - asked[p]}) /\ copy[p] # NoItem
    <3>1. lag' = IF lag >= now - asked[p] THEN lag ELSE now - asked[p]
      BY <1>1, <2>2, MaxOfTwo
    <3> QED
      BY <1>1, <2>2, <3>1 DEF StatesFit, Shape, Times
  <2> QED
    BY <1>3, <2>1, <2>2
<1>6. /\ \A u \in Int : Upto(granted, u) \in Nat /\ Since(granted, u) \in Nat
      /\ \A u \in Int : Upto(granted', u) \in Nat /\ Upto(granted', u) <= granted'[MaxTime]
      /\ granted'[MaxTime] \in Nat
  BY <1>1, <1>4, UptoGrows
<1>7. n <= permits[p]
  BY <1>1
<1> HIDE DEF n
(* The item after the write. *)
<1>8. /\ item' \in Fixed /\ item' # NoItem
      /\ item'.expires <= now + Window
      /\ item'.expires \in Int /\ item'.count \in 0 .. Limit
      /\ item.expires \in Int /\ item.count \in 0 .. Limit
      /\ \/ item'.expires = item.expires /\ item'.count >= item.count + n
         \/ item'.expires >= item.expires + Window /\ item'.count >= n
      /\ n > 0 => asked[p] < item'.expires
  <2>1. item.expires \in Int /\ item.count \in 0 .. Limit
    BY <1>1 DEF Fixed
  <2>2. CASE copy[p] = NoItem
    <3>1. item' = item /\ n = 0
      BY <1>1, <1>4, <1>5, <2>2 DEF InsertState
    <3> QED
      BY <1>1, <2>1, <3>1 DEF BurstInv, ExpiresInTime
  <2>3. CASE copy[p] # NoItem
    <3>1. item' = copy[p]
      BY <1>1, <2>3 DEF InsertState
    <3>2. item' \in Fixed /\ item' # NoItem
      BY <2>3, <3>1 DEF FixedInv
    <3>3. item'.expires \in Int /\ item'.count \in 0 .. Limit
      BY <3>2 DEF Fixed
    <3>4. /\ asked[p] < item'.expires /\ item'.expires <= now + Window
          /\ \/ item'.expires = item.expires /\ item'.count >= item.count + permits[p]
             \/ item'.expires >= item.expires + Window /\ item'.count >= permits[p]
      BY <2>3, <3>1 DEF BurstInv, NextWindow
    <3> QED
      BY <1>1, <1>4, <1>7, <2>1, <3>2, <3>3, <3>4
  <2> QED
    BY <2>2, <2>3
<1>9. EveryWindowCounts'
  <2> SUFFICES ASSUME NEW s \in Times, Granted(s)' > 0
               PROVE  /\ Age(s)' >= 0
                      /\ Granted(s)' <= Limit * (Age(s)' \div Window) + item'.count
    BY <1>8 DEF EveryWindowCounts
  <2>1. s \in Int /\ s - 1 \in Int /\ s >= 0
    BY DEF Times
  <2>2. Age(s)' = item'.expires - s + lag' - 1 /\ Age(s) = item.expires - s + lag - 1
    BY DEF Age
  <2>3. /\ Granted(s)' = Granted(s) + IF s - 1 >= now THEN 0 ELSE n
        /\ Granted(s) \in Nat
    BY <1>4, <1>6, <2>1 DEF Granted
  <2>4. CASE Granted(s) > 0
    <3>1. /\ Age(s) >= 0
          /\ Granted(s) <= Limit * (Age(s) \div Window) + item.count
      BY <2>4 DEF BurstInv, EveryWindowCounts
    <3>2. /\ Age(s) \in Nat /\ Age(s)' \in Nat
          /\ \/ Age(s) <= Age(s)' /\ item.count + n <= item'.count
             \/ Age(s) + Window <= Age(s)' /\ n <= item'.count
      BY <1>1, <1>4, <1>5, <1>8, <2>1, <2>2, <3>1
    <3>3. item'.count \in Nat /\ n \in Nat
      BY <1>4, <1>8
    <3>4. Granted(s) + n <= Limit * (Age(s)' \div Window) + item'.count
      <4>1. PICK a \in Nat, b \in Nat : a = Age(s) /\ b = Age(s)'
        BY <3>2
      <4>2. PICK c \in 0 .. Limit, d \in Nat, g \in Nat :
              c = item.count /\ d = item'.count /\ g = Granted(s)
        BY <1>8, <2>3, <3>3
      <4>3. g <= Limit * (a \div Window) + c
        BY <3>1, <4>1, <4>2
      <4>4. (a <= b /\ c + n <= d) \/ (a + Window <= b /\ n <= d)
        BY <3>2, <4>1, <4>2
      <4>5. g + n <= Limit * (b \div Window) + d
        <5> HIDE WindowsAssumption
        <5> QED
          BY <3>3, <4>3, <4>4, AnotherWindow
      <4> QED
        BY <4>1, <4>2, <4>5
    <3>5. Limit * (Age(s)' \div Window) \in Nat
      BY <3>2, Division
    <3> QED
      BY <1>1, <2>1, <2>3, <3>2, <3>3, <3>4, <3>5
  <2>5. CASE Granted(s) = 0
    <3>1. n > 0 /\ s <= now /\ Granted(s)' = n
      BY <1>1, <1>4, <2>1, <2>3, <2>5
    <3>2. Age(s)' \in Nat /\ n <= item'.count
      BY <1>1, <1>4, <1>5, <1>8, <2>1, <2>2, <3>1
    <3>3. Limit * (Age(s)' \div Window) \in Nat
      BY <3>2, Division
    <3> DEFINE x == Limit * (Age(s)' \div Window)
    <3>4. x \in Nat
      BY <3>3
    <3> HIDE DEF x
    <3>5. Age(s)' >= 0 /\ Granted(s)' <= x + item'.count
      BY <1>4, <1>8, <3>1, <3>2, <3>4
    <3> QED
      BY <3>5 DEF x
  <2> QED
    BY <2>3, <2>4, <2>5
<1>10. BurstIsBounded'
  <2> SUFFICES ASSUME NEW s \in Times
               PROVE  Over(granted', s, s + Window - 1)
                        <= Limit * ((2 * Window + lag' - 2) \div Window + 1)
    BY DEF BurstIsBounded
  <2> DEFINE b == 2 * Window + lag - 2
             c == 2 * Window + lag' - 2
  <2>1. s \in Int /\ s - 1 \in Int /\ s + Window - 1 \in Int
    BY DEF Times
  <2>2. /\ b \in Nat /\ c \in Nat /\ b <= c
        /\ b \div Window \in Nat /\ c \div Window \in Nat
        /\ b \div Window <= c \div Window
    <3>1. b \in Nat /\ c \in Nat /\ b <= c
      BY <1>1, <1>5
    <3> HIDE DEF b, c
    <3> QED
      BY <3>1, Division, DivisionGrows
  <2>3. Over(granted, s, s + Window - 1) <= Limit * (b \div Window + 1)
    BY DEF BurstInv, BurstIsBounded
  <2>4. CASE now < s \/ now > s + Window - 1
    <3>1. /\ Over(granted', s, s + Window - 1) = Over(granted, s, s + Window - 1)
          /\ Over(granted, s, s + Window - 1) \in Int
      BY <1>1, <1>4, <1>6, <2>1, <2>4 DEF Over
    <3> HIDE DEF b, c
    <3>2. Limit * (b \div Window + 1) <= Limit * (c \div Window + 1)
      BY <2>2
    <3>3. Limit * (b \div Window + 1) \in Int /\ Limit * (c \div Window + 1) \in Int
      BY <2>2
    <3>4. Over(granted', s, s + Window - 1) <= Limit * (c \div Window + 1)
      BY <2>3, <3>1, <3>2, <3>3
    <3> QED
      BY <3>4 DEF c
  <2>5. CASE s <= now /\ now <= s + Window - 1
    <3>1. /\ Over(granted', s, s + Window - 1) <= Granted(s)'
          /\ Granted(s)' \in Nat
          /\ Over(granted', s, s + Window - 1) \in Int
      <4>1. Granted(s)' \in Nat
        BY <1>4, <2>1, UptoGrows DEF Granted
      <4> QED
        BY <1>6, <2>1, <4>1 DEF Over, Granted, Since
    <3>2. CASE Granted(s)' = 0
      <4> HIDE DEF c
      <4>1. Limit * (c \div Window + 1) >= 0
        BY <2>2
      <4>2. Over(granted', s, s + Window - 1) <= Limit * (c \div Window + 1)
        BY <2>2, <3>1, <3>2, <4>1
      <4> QED
        BY <4>2 DEF c
    <3>3. CASE Granted(s)' > 0
      <4>1. /\ Age(s)' >= 0
            /\ Granted(s)' <= Limit * (Age(s)' \div Window) + item'.count
        BY <1>9, <3>3 DEF EveryWindowCounts
      <4>2. Age(s)' \in Nat /\ Age(s)' <= c
        BY <1>1, <1>5, <1>8, <2>1, <2>5, <4>1 DEF Age
      <4> HIDE DEF c
      <4>3. Age(s)' \div Window <= c \div Window /\ Age(s)' \div Window \in Nat
        BY <2>2, <4>2, Division, DivisionGrows
      <4> DEFINE x == Age(s)' \div Window
                 y == c \div Window
      <4>4. x \in Nat /\ y \in Nat /\ x <= y
        BY <2>2, <4>3
      <4>5. Granted(s)' <= Limit * x + item'.count
        BY <4>1
      <4> HIDE DEF x, y
      <4>6. /\ Limit * x <= Limit * y /\ Limit * (y + 1) = Limit * y + Limit
            /\ Limit * x \in Nat /\ Limit * y \in Nat
        BY <4>4
      <4>7. Over(granted', s, s + Window - 1) <= Limit * (y + 1)
        BY <1>8, <3>1, <4>5, <4>6
      <4> QED
        BY <4>7 DEF y, c
    <3> QED
      BY <3>1, <3>2, <3>3
  <2> QED
    BY <1>1, <2>1, <2>4, <2>5
<1> QED
  BY <1>1, <1>2, <1>8, <1>9, <1>10 DEF BurstInv, ExpiresInTime
LEMMA BurstInvariant == Prompt => (Spec => []BurstInv)
<1> USE LeaseAssumption, WindowsAssumption
<1>1. Init => BurstInv
  <2> SUFFICES ASSUME Init
               PROVE  BurstInv
    OBVIOUS
  <2>1. /\ item = NoItem /\ granted = None /\ lag = 0
        /\ \A p \in Procs : pc[p] = "ctor" /\ copy[p] = NoItem
    BY DEF Init
  <2>2. \A s \in Times : Granted(s) = 0
    BY <2>1, NoneIsATally DEF Granted, Times
  <2>3. BurstIsBounded
    <3>1. ASSUME NEW s \in Times
          PROVE  Over(granted, s, s + Window - 1)
                   <= Limit * ((2 * Window + lag - 2) \div Window + 1)
      <4>1. s - 1 \in Int /\ s + Window - 1 \in Int
        BY DEF Times
      <4>2. Over(granted, s, s + Window - 1) = 0 - 0
        BY <2>1, <4>1, NoneIsATally DEF Over
      <4>3. 2 * Window + lag - 2 \in Nat
        BY <2>1
      <4> DEFINE x == (2 * Window + lag - 2) \div Window
      <4>4. x \in Nat
        BY <4>3, Division
      <4> HIDE DEF x
      <4>5. Limit * (x + 1) >= 0
        BY <4>4
      <4> QED
        BY <4>2, <4>5 DEF x
    <3> QED
      BY <3>1 DEF BurstIsBounded
  <2> QED
    BY <2>1, <2>2, <2>3 DEF BurstInv, ExpiresInTime, NextWindow, EveryWindowCounts
<1>2. /\ Shape /\ StatesFit /\ LockIsHeld /\ OpeningInv /\ CountedInTime /\ CountedInTime'
      /\ FixedInv /\ FixedInv' /\ BurstInv /\ [Next]_vars
      => BurstInv'
  <2> SUFFICES ASSUME Shape, StatesFit, LockIsHeld, OpeningInv, CountedInTime, CountedInTime',
                      FixedInv, FixedInv', BurstInv, [Next]_vars, kind = "fixed"
               PROVE  BurstInv'
    BY StepsOnTheItem DEF BurstInv
  <2>0. kind' = kind /\ now \in Int
    BY StepsOnTheItem DEF Shape, Times
  <2>f. UNCHANGED <<granted, lag, item>> =>
          UNCHANGED <<BurstIsBounded, EveryWindowCounts>>
    BY <2>0 DEF BurstIsBounded, EveryWindowCounts, Granted, Age
  <2>1. CASE QuietStep
    <3>1. UNCHANGED <<now, item, granted, lag>>
      BY <2>1 DEF QuietStep
    <3>2. ASSUME NEW q \in Procs
          PROVE  NextWindow(q)'
      BY <2>1, <3>1 DEF QuietStep, Outside, Stays, CountedInTime, BurstInv, NextWindow
    <3> QED
      BY <2>0, <2>f, <3>1, <3>2 DEF BurstInv, ExpiresInTime
  <2>2. CASE StateStep
    <3>1. /\ item = NoItem /\ item' = [count |-> 0, expires |-> now]
          /\ UNCHANGED <<now, granted, lag>>
      BY <2>2 DEF StateStep, Empty
    <3>2. \A q \in Procs : ~InSection(q)
      BY <3>1, FixedItemIsThere
    <3>3. \A q \in Procs : NextWindow(q)'
      BY <2>2, <3>2
      DEF StateStep, InSection, Outside, Stays, CountedInTime, NextWindow
    <3>4. ExpiresInTime'
      BY <2>0, <3>1 DEF ExpiresInTime
    <3>5. EveryWindowCounts'
      BY <3>1 DEF BurstInv, EveryWindowCounts, Granted
    <3>6. BurstIsBounded'
      BY <2>0, <3>1 DEF BurstInv, BurstIsBounded
    <3> QED
      BY <3>3, <3>4, <3>5, <3>6 DEF BurstInv
  <2>3. ASSUME NEW p \in Procs, LockStep(p)
        PROVE  BurstInv'
    <3>1. UNCHANGED <<now, item, granted, lag>>
      BY <2>3 DEF LockStep
    <3>2. ASSUME NEW q \in Procs
          PROVE  NextWindow(q)'
      BY <2>3, <3>1 DEF LockStep, Outside, CountedInTime, NextWindow
    <3> QED
      BY <2>0, <2>f, <3>1, <3>2 DEF BurstInv, ExpiresInTime
  <2>4. ASSUME NEW p \in Procs, GetStep(p)
        PROVE  BurstInv'
    <3>1. UNCHANGED <<now, item, granted, lag>>
      BY <2>4 DEF GetStep, Get, state
    <3>2. NextWindow(p)'
      BY <2>4, BurstGet DEF GetStep
    <3>3. ASSUME NEW q \in Procs
          PROVE  NextWindow(q)'
      BY <2>4, <3>2 DEF GetStep, Outside, CountedInTime, NextWindow
    <3> QED
      BY <2>0, <2>f, <3>1, <3>3 DEF BurstInv, ExpiresInTime
  <2>5. ASSUME NEW p \in Procs, PutStep(p) \/ ThrowStep(p)
        PROVE  BurstInv'
    BY <2>0, <2>5, BurstWrite
  <2>6. CASE TickStep
    <3>1. /\ now' = now + 1 /\ UNCHANGED <<granted, lag>>
          /\ item' = item
          /\ \A q \in Procs : Stays(q)
      BY <2>6 DEF TickStep, Tick, history, FixedInv, Forever
    <3>2. ASSUME NEW c \in Fixed, c.expires <= now + Window
          PROVE  c.expires <= now' + Window
      BY <2>0, <3>1, <3>2 DEF Fixed
    <3>3. ExpiresInTime'
      BY <3>1, <3>2 DEF BurstInv, ExpiresInTime, FixedInv
    <3>4. ASSUME NEW q \in Procs
          PROVE  NextWindow(q)'
      <4>1. copy[q] # NoItem => copy[q].expires <= now' + Window
        BY <3>2 DEF BurstInv, NextWindow, FixedInv
      <4> QED
        BY <3>1, <4>1 DEF Stays, BurstInv, NextWindow
    <3> QED
      BY <2>f, <3>1, <3>3, <3>4 DEF BurstInv
  <2> QED
    BY <2>1, <2>2, <2>3, <2>4, <2>5, <2>6, StepsOnTheItem
<1>3. ASSUME Prompt
      PROVE  Spec => []BurstInv
  <2>1. Spec => []LockIsHeld
    BY <1>3, TheLockIsHeld
  <2>2. Spec => []CountedInTime
    BY <1>3, CountedInTimeInvariant
  <2>3. Spec => []FixedInv
    BY <1>3, FixedInvariant
  <2> QED
    BY <1>1, <1>2, <2>1, <2>2, <2>3, ShapeIsInvariant, StatesFitIsInvariant,
       OpeningIsInvariant, PTL DEF Spec
<1> QED
  BY <1>3

(* The fixed window of processes that finish within their lease: grants at *)
(* any times of the length of one window belong to so many windows of the  *)
(* item at most as fit into two, and one for every window by which a time  *)
(* read before the lock was waited for is late.                            *)
THEOREM TwoWindowsMeetAtMost == Prompt => (Spec => []BurstIsBounded)
<1>1. BurstInv => BurstIsBounded
  BY DEF BurstInv, BurstIsBounded
<1>2. ASSUME Prompt
      PROVE  Spec => []BurstIsBounded
  <2>1. Spec => []BurstInv
    BY <1>2, BurstInvariant
  <2> QED
    BY <1>1, <2>1, PTL
<1> QED
  BY <1>2
-----------------------------------------------------------------------------
(* The token bucket.  Periods tells how many replenishments there can be   *)
(* from s to t for a bucket that was dated back by b ticks since.          *)
Periods(b, s, t) == (t - s + Since(b, s - 1) + Window - 1) \div Window

(* Tokens and grants since s together never exceed a full bucket and what  *)
(* was replenished since.                                                  *)
Balanced(g, b, tokens, s, t) ==
  tokens + Since(g, s - 1) <= Limit + PerPeriod * Periods(b, s, t)

Sooner(c, p) == IF c.refreshed <= asked[p] THEN c.refreshed ELSE asked[p]

ItemIsBalanced ==
  item # NoItem =>
    /\ item.refreshed <= now
    /\ \A s \in Times :
         Granted(s) > 0 =>
           /\ s - Window < item.refreshed
           /\ Balanced(granted, back, item.tokens, s, item.refreshed)

(* When the item has expired, a full bucket is balanced. *)
FullWhenGone ==
  ttl # Forever =>
    \A s \in Times : Granted(s) > 0 => Balanced(granted, back, Limit, s, now + ttl)

CopyIsBalanced(p) ==
  /\ pc[p] = "put" /\ permits[p] > 0 => copy[p] # NoItem
  /\ copy[p] # NoItem =>
       /\ copy[p].refreshed <= now
       /\ asked[p] - Window < copy[p].refreshed
       /\ copy[p].tokens + permits[p] <= Limit
       /\ \A s \in Times :
            Granted(s) > 0 =>
              Balanced(granted, back, copy[p].tokens + permits[p], s, Sooner(copy[p], p))

BucketInv ==
  kind = "bucket" =>
    /\ ItemIsBalanced
    /\ FullWhenGone
    /\ \A p \in Procs : CopyIsBalanced(p)
    /\ BucketWithinRate

(* Periods is a whole number of them, grows with time and with the dating  *)
(* back, and a period later it is one more.                                *)
LEMMA PeriodsGrow ==
  ASSUME NEW b \in Tallies, NEW s \in Times, NEW t \in Int, s - Window < t
  PROVE  /\ Periods(b, s, t) \in Nat
         /\ \A u \in Int : t <= u => Periods(b, s, t) <= Periods(b, s, u)
         /\ \A k \in Nat : Periods(b, s, t + k * Window) = Periods(b, s, t) + k
<1> USE WindowsAssumption
<1> DEFINE x == Since(b, s - 1)
           a == t - s + x + Window - 1
<1>1. x \in Nat /\ s \in Int
  <2>1. s - 1 \in Int
    BY DEF Times
  <2> QED
    BY <2>1, UptoGrows DEF Times
<1> HIDE DEF x
<1>2. a \in Nat
  BY <1>1
<1>3. \A u \in Int : Periods(b, s, u) = (u - s + x + Window - 1) \div Window
  BY DEF Periods, x
<1>4. Periods(b, s, t) = a \div Window
  BY <1>3
<1>5. ASSUME NEW u \in Int, t <= u
      PROVE  Periods(b, s, t) <= Periods(b, s, u)
  <2> DEFINE c == u - s + x + Window - 1
  <2>1. c \in Nat /\ a <= c
    BY <1>1, <1>5, <1>2
  <2> HIDE DEF a
  <2>2. Periods(b, s, u) = c \div Window
    BY <1>3
  <2> HIDE DEF c
  <2> QED
    BY <1>2, <1>4, <2>1, <2>2, DivisionGrows
<1>6. ASSUME NEW k \in Nat
      PROVE  Periods(b, s, t + k * Window) = Periods(b, s, t) + k
  <2> DEFINE y == k * Window
  <2>1. y \in Nat
    OBVIOUS
  <2> HIDE DEF y
  <2>2. (t + y) - s + x + Window - 1 = a + y
    BY <1>1, <2>1
  <2>3. Periods(b, s, t + y) = ((t + y) - s + x + Window - 1) \div Window
    BY DEF Periods, x
  <2> HIDE DEF a
  <2>4. (a + y) \div Window = (a \div Window) + k
    <3> HIDE WindowsAssumption
    <3>1. Window \in Nat \ {0}
      BY WindowsAssumption
    <3> QED
      BY <1>2, <3>1, DivisionShifts DEF y
  <2>5. Periods(b, s, t + y) = Periods(b, s, t) + k
    BY <1>4, <2>2, <2>3, <2>4
  <2> QED
    BY <2>5 DEF y
<1> HIDE DEF a
<1>7. Periods(b, s, t) \in Nat
  BY <1>2, <1>4, Division
<1> QED
  BY <1>5, <1>6, <1>7

(* The same for what the periods are worth. *)
LEMMA BalanceGrows ==
  ASSUME NEW g \in Tallies, NEW b \in Tallies, NEW s \in Times, NEW t \in Int,
         s - Window < t, NEW n \in Int
  PROVE  /\ \A u \in Int : t <= u /\ Balanced(g, b, n, s, t) => Balanced(g, b, n, s, u)
         /\ \A k \in Nat, m \in Int :
              m <= n + k * PerPeriod /\ Balanced(g, b, n, s, t)
                => Balanced(g, b, m, s, t + k * Window)
         /\ \A m \in Int : m <= n /\ Balanced(g, b, n, s, t) => Balanced(g, b, m, s, t)
<1> USE WindowsAssumption
<1>1. Since(g, s - 1) \in Nat
  <2>1. s - 1 \in Int
    BY DEF Times
  <2> QED
    BY <2>1, UptoGrows
<1> DEFINE x == Periods(b, s, t)
<1>2. /\ x \in Nat
      /\ \A u \in Int : t <= u => x <= Periods(b, s, u)
      /\ \A k \in Nat : Periods(b, s, t + k * Window) = x + k
  BY PeriodsGrow
<1>3. \A u \in Int : t <= u => Periods(b, s, u) \in Nat
  <2>1. ASSUME NEW u \in Int, t <= u
        PROVE  Periods(b, s, u) \in Nat
    <3>1. s - Window < u
      BY <2>1 DEF Times
    <3> HIDE WindowsAssumption
    <3> QED
      BY <2>1, <3>1, PeriodsGrow
  <2> QED
    BY <2>1
<1>4. Balanced(g, b, n, s, t) <=> n + Since(g, s - 1) <= Limit + PerPeriod * x
  BY DEF Balanced
<1> HIDE DEF x
<1>5. ASSUME NEW u \in Int, t <= u, Balanced(g, b, n, s, t)
      PROVE  Balanced(g, b, n, s, u)
  <2>1. PICK y \in Nat : y = Periods(b, s, u) /\ x <= y
    BY <1>2, <1>3, <1>5
  <2>2. PerPeriod * x <= PerPeriod * y /\ PerPeriod * x \in Nat /\ PerPeriod * y \in Nat
    BY <1>2, <2>1
  <2>3. n + Since(g, s - 1) <= Limit + PerPeriod * y
    BY <1>1, <1>4, <1>5, <2>2
  <2> QED
    BY <2>1, <2>3 DEF Balanced
<1>6. ASSUME NEW k \in Nat, NEW m \in Int, m <= n + k * PerPeriod, Balanced(g, b, n, s, t)
      PROVE  Balanced(g, b, m, s, t + k * Window)
  <2>1. PerPeriod * (x + k) = PerPeriod * x + k * PerPeriod
    BY <1>2
  <2>2. PerPeriod * x \in Nat /\ k * PerPeriod \in Nat
    BY <1>2
  <2>3. m + Since(g, s - 1) <= Limit + PerPeriod * (x + k)
    BY <1>1, <1>4, <1>6, <2>1, <2>2
  <2> QED
    BY <1>2, <2>3 DEF Balanced
<1>7. ASSUME NEW m \in Int, m <= n, Balanced(g, b, n, s, t)
      PROVE  Balanced(g, b, m, s, t)
  <2>1. PerPeriod * x \in Nat
    BY <1>2
  <2>2. m + Since(g, s - 1) <= Limit + PerPeriod * x
    BY <1>1, <1>4, <1>7, <2>1
  <2> QED
    BY <2>2 DEF Balanced, x
<1> QED
  BY <1>5, <1>6, <1>7
(* Dating back by m ticks is as good as m ticks more. *)
LEMMA DatingBackIsTime ==
  ASSUME NEW b \in Tallies, NEW c \in Tallies, NEW s \in Times, NEW t \in Int,
         NEW m \in Nat,
         Since(c, s - 1) = Since(b, s - 1) + m, NEW g, NEW n
  PROVE  Balanced(g, c, n, s, t) <=> Balanced(g, b, n, s, t + m)
<1> USE WindowsAssumption
<1>1. s \in Int /\ Since(b, s - 1) \in Int
  <2>1. s - 1 \in Int
    BY DEF Times
  <2> QED
    BY <2>1, UptoGrows DEF Times
<1>2. t - s + Since(c, s - 1) + Window - 1 = (t + m) - s + Since(b, s - 1) + Window - 1
  BY <1>1
<1>3. Periods(c, s, t) = Periods(b, s, t + m)
  BY <1>2 DEF Periods
<1> QED
  BY <1>3 DEF Balanced

(* Grants since a time are grants no later than the one that reads. *)
LEMMA GrantsAreEarlier ==
  ASSUME NEW g \in Tallies, NEW a \in Int, Since(g, a) = 0, NEW s \in Times,
         Since(g, s - 1) > 0
  PROVE  s <= a
<1>1. s \in Int /\ s - 1 \in Int
  BY WindowsAssumption DEF Times
<1>2. a <= s - 1 => Since(g, s - 1) <= Since(g, a)
  BY <1>1, UptoGrows
<1>3. Since(g, s - 1) \in Nat
  BY <1>1, UptoGrows
<1> QED
  BY <1>1, <1>2, <1>3

LEMMA BucketGet ==
  ASSUME kind = "bucket", Shape, StatesFit, StatesFit', CountedInTime, BucketInv,
         NEW p \in Procs, Get(p)
  PROVE  /\ CopyIsBalanced(p)'
         /\ ItemIsBalanced' /\ FullWhenGone' /\ BucketWithinRate'
<1> USE WindowsAssumption
<1> DEFINE a == asked[p]
           n == permits[p]
           m == Max({0, Made - a})
           f == Fetched(a)
           c == CurrentTokens(f, a)
<1>1. /\ now \in Times /\ now \in Int /\ a \in Times /\ a \in Int /\ a <= now
      /\ kind \in Kinds /\ n \in 0 .. Limit
      /\ granted \in Tallies /\ back \in Tallies /\ back' \in Tallies
      /\ item \in Bucket \cup {NoItem}
  BY DEF Shape, StatesFit, States, Times
<1>2. /\ UNCHANGED <<kind, now, item, ttl, asked, granted, lag>>
      /\ back' = Counted(back, a, m)
      /\ pc'[p] = "put"
  BY DEF Get, Goto, Shape, state
<1>3. Made \in Int /\ m = (IF Made >= a THEN Made - a ELSE 0) /\ m \in Nat
  <2>1. Made \in Int
    BY <1>1 DEF Made, Bucket, Times
  <2>2. Made - a \in Int
    BY <1>1, <2>1
  <2>3. m = IF 0 >= Made - a THEN 0 ELSE Made - a
    BY <2>2, MaxOfTwo
  <2> QED
    BY <1>1, <2>1, <2>3
<1> HIDE DEF m
<1>4. /\ \A u \in Int : Since(back', u) = Since(back, u) + IF u >= a THEN 0 ELSE m
      /\ \A u \in Int : Upto(back', u) = Upto(back, u) + IF u >= a THEN m ELSE 0
      /\ \A u \in Int : Upto(back, u) \in Nat /\ Since(back, u) \in Nat
      /\ \A t \in Int, u \in Int : t <= u => Upto(back, t) <= Upto(back, u)
  <2> HIDE WindowsAssumption DEF a
  <2>1. a \in Times
    BY <1>1
  <2>2. /\ \A u \in Int : Since(back', u) = Since(back, u) + IF u >= a THEN 0 ELSE m
        /\ \A u \in Int : Upto(back', u) = Upto(back, u) + IF u >= a THEN m ELSE 0
    <3>1. back \in Tallies /\ m \in Nat /\ back' = Counted(back, a, m)
      BY <1>1, <1>2, <1>3
    <3> QED
      BY <2>1, <3>1, CountedCounts
  <2>3. /\ \A u \in Int : Upto(back, u) \in Nat /\ Since(back, u) \in Nat
        /\ \A t \in Int, u \in Int : t <= u => Upto(back, t) <= Upto(back, u)
    BY <1>1, UptoGrows
  <2> QED
    BY <2>2, <2>3
<1>5. ASSUME NEW s \in Times, Granted(s) > 0
      PROVE  /\ s \in Int /\ s <= a /\ s <= now /\ s - Window < a
             /\ Since(back', s - 1) = Since(back, s - 1) + m
  <2>1. Since(granted, a) = 0
    BY DEF CountedInTime, NothingAfter, InSection, Get
  <2>2. s <= a
    BY <1>1, <1>5, <2>1, GrantsAreEarlier DEF Granted
  <2>3. s \in Int /\ s - 1 \in Int
    BY DEF Times
  <2>4. s <= now /\ s - Window < a /\ ~(s - 1 >= a)
    BY <1>1, <2>2, <2>3
  <2>5. Since(back', s - 1) = Since(back, s - 1) + IF s - 1 >= a THEN 0 ELSE m
    BY <1>4, <2>3
  <2> QED
    BY <2>2, <2>3, <2>4, <2>5
(* More ticks never put an item off balance. *)
<1>6. ASSUME NEW s \in Times, Granted(s) > 0, NEW t \in Int, s - Window < t, NEW k \in Int,
             Balanced(granted, back, k, s, t)
      PROVE  Balanced(granted, back', k, s, t)
  <2>1. t + m \in Int /\ t <= t + m
    BY <1>3
  <2>2. Balanced(granted, back, k, s, t + m)
    <3> HIDE WindowsAssumption
    <3> QED
      BY <1>1, <1>6, <2>1, BalanceGrows
  <2> QED
    BY <1>1, <1>3, <1>5, <1>6, <2>2, DatingBackIsTime
<1>7. ItemIsBalanced'
  <2>1. item # NoItem => item.refreshed \in Int /\ item.tokens \in Int
    BY <1>1 DEF Bucket, Times
  <2> QED
    BY <1>2, <1>6, <2>1 DEF BucketInv, ItemIsBalanced, Granted
<1>8. FullWhenGone'
  <2>1. ASSUME ttl # Forever, NEW s \in Times, Granted(s) > 0
        PROVE  Balanced(granted, back', Limit, s, now + ttl)
    <3>1. ttl \in Nat
      BY <2>1 DEF StatesFit
    <3>2. now + ttl \in Int /\ s - Window < now + ttl
      BY <1>1, <1>5, <2>1, <3>1
    <3>3. Limit \in Int
      OBVIOUS
    <3> QED
      BY <1>6, <2>1, <3>2, <3>3 DEF BucketInv, FullWhenGone
  <2> QED
    BY <1>2, <2>1 DEF FullWhenGone, Granted
<1>9. BucketWithinRate'
  <2> SUFFICES ASSUME NEW s \in Times, NEW t \in Times, s <= t
               PROVE  Over(granted, s, t) <= Limit
                        + PerPeriod * ((t - s + Over(back', s, t) + Window - 1) \div Window)
    BY <1>2 DEF BucketWithinRate
  <2> DEFINE x == t - s + Over(back, s, t) + Window - 1
             y == t - s + Over(back', s, t) + Window - 1
  <2>1. s \in Int /\ t \in Int /\ s - 1 \in Int /\ s - 1 <= t
    BY DEF Times
  <2>2. Over(back, s, t) \in Nat /\ Over(back', s, t) >= Over(back, s, t)
        /\ Over(back', s, t) \in Int
    <3>1. /\ Upto(back, s - 1) \in Nat /\ Upto(back, t) \in Nat
          /\ Upto(back, s - 1) <= Upto(back, t)
      BY <1>4, <2>1
    <3>2. /\ Upto(back', s - 1) = Upto(back, s - 1) + IF s - 1 >= a THEN m ELSE 0
          /\ Upto(back', t) = Upto(back, t) + IF t >= a THEN m ELSE 0
      BY <1>4, <2>1
    <3> QED
      BY <1>1, <1>3, <2>1, <3>1, <3>2 DEF Over
  <2>3. x \in Nat /\ y \in Nat /\ x <= y
    <3>1. PICK i \in Nat, j \in Int :
            i = Over(back, s, t) /\ j = Over(back', s, t) /\ i <= j
      BY <2>2
    <3>2. t - s \in Nat
      BY <2>1
    <3>3. /\ t - s + i + Window - 1 \in Nat /\ t - s + j + Window - 1 \in Nat
          /\ t - s + i + Window - 1 <= t - s + j + Window - 1
      BY <2>1, <3>1, <3>2
    <3> QED
      BY <3>1, <3>3
  <2>4. Over(granted, s, t) <= Limit + PerPeriod * (x \div Window)
    BY DEF BucketInv, BucketWithinRate
  <2>5. Over(granted, s, t) \in Int
    BY <1>1, <2>1, UptoGrows DEF Over
  <2> HIDE DEF x, y
  <2>6. x \div Window \in Nat /\ y \div Window \in Nat /\ x \div Window <= y \div Window
    BY <2>3, Division, DivisionGrows
  <2>7. PerPeriod * (x \div Window) <= PerPeriod * (y \div Window)
    BY <2>6
  <2>8. PerPeriod * (x \div Window) \in Int /\ PerPeriod * (y \div Window) \in Int
    BY <2>6
  <2>9. Over(granted, s, t) <= Limit + PerPeriod * (y \div Window)
    BY <2>4, <2>5, <2>7, <2>8
  <2> QED
    BY <2>9 DEF y
<1>10. f \in Bucket /\ Current(Fetched(a), a) = c
  <2>1. f \in States
    BY <1>1, FetchedIsAState DEF StatesFit
  <2> QED
    BY <2>1 DEF States, Current
(* The bucket that the permits are taken from. *)
<1>11. /\ c \in Bucket
       /\ c.refreshed <= now
       /\ a - Window < c.refreshed
       /\ \A s \in Times :
            Granted(s) > 0 =>
              Balanced(granted, back', c.tokens, s, IF c.refreshed <= a THEN c.refreshed ELSE a)
  <2>1. PICK k \in Nat : /\ c.refreshed = f.refreshed + k * Window
                         /\ c.tokens <= f.tokens + k * PerPeriod
    BY <1>1, <1>10, TokensAreReplenished
  <2>2. /\ c \in Bucket
        /\ IF f.refreshed <= a
           THEN c.refreshed <= a /\ a < c.refreshed + Window
           ELSE c = f
    BY <1>1, <1>10, TokensAreReplenished
  <2>3. /\ f.refreshed \in Int /\ f.tokens \in 0 .. Limit
        /\ c.refreshed \in Int /\ c.tokens \in 0 .. Limit
    BY <1>10, <2>2 DEF Bucket, Times
  <2>4. ASSUME NEW s \in Times, Granted(s) > 0, NEW t \in Int,
               Balanced(granted, back, c.tokens, s, t + m)
        PROVE  Balanced(granted, back', c.tokens, s, t)
    BY <1>1, <1>3, <1>5, <2>4, DatingBackIsTime
  <2>5. CASE item = NoItem
    <3>1. f = [tokens |-> Limit, refreshed |-> a] /\ Made = now /\ ttl = 0
      BY <2>5 DEF Fetched, Empty, Made, StatesFit
    <3>2. m = now - a
      BY <1>1, <1>3, <3>1
    <3>3. k * Window \in Nat
      OBVIOUS
    <3>4. c.refreshed = a
      BY <1>1, <2>1, <2>2, <2>3, <3>1, <3>3
    <3>5. ASSUME NEW s \in Times, Granted(s) > 0
          PROVE  Balanced(granted, back', c.tokens, s, a)
      <4>1. Balanced(granted, back, Limit, s, now)
        <5>1. now + ttl = now /\ ttl # Forever
          BY <1>1, <3>1 DEF Forever
        <5> QED
          BY <3>5, <5>1 DEF BucketInv, FullWhenGone
      <4>2. /\ s - Window < now /\ c.tokens \in Int /\ c.tokens <= Limit /\ Limit \in Int
        BY <1>1, <1>5, <2>3, <3>5
      <4>3. Balanced(granted, back, c.tokens, s, now)
        <5> HIDE WindowsAssumption DEF c
        <5> QED
          BY <1>1, <4>1, <4>2, BalanceGrows
      <4>4. a + m = now
        BY <1>1, <3>2
      <4> QED
        BY <1>1, <2>4, <3>5, <4>3, <4>4
    <3> QED
      BY <1>1, <2>2, <3>4, <3>5
  <2>6. CASE item # NoItem /\ item.refreshed <= a
    <3>1. f = item /\ Made = item.refreshed /\ m = 0
      BY <1>1, <1>3, <2>6 DEF Fetched, Made
    <3>2. c.refreshed <= a /\ a < c.refreshed + Window
      BY <2>2, <2>6, <3>1
    <3>3. ASSUME NEW s \in Times, Granted(s) > 0
          PROVE  Balanced(granted, back', c.tokens, s, c.refreshed)
      <4>1. /\ s - Window < item.refreshed
            /\ Balanced(granted, back, item.tokens, s, item.refreshed)
        BY <2>6, <3>3 DEF BucketInv, ItemIsBalanced
      <4>2. Balanced(granted, back, c.tokens, s, item.refreshed + k * Window)
        <5>1. /\ item.refreshed \in Int /\ item.tokens \in Int
              /\ c.tokens \in Int /\ c.tokens <= item.tokens + k * PerPeriod
          BY <2>1, <2>3, <3>1
        <5> HIDE WindowsAssumption DEF c
        <5> QED
          BY <1>1, <4>1, <5>1, BalanceGrows
      <4>3. c.refreshed + m = item.refreshed + k * Window
        BY <2>1, <2>3, <3>1
      <4> QED
        BY <2>3, <2>4, <3>3, <4>2, <4>3
    <3> QED
      BY <1>1, <2>2, <2>3, <3>2, <3>3
  <2>7. CASE item # NoItem /\ a < item.refreshed
    <3>1. f = item /\ Made = item.refreshed /\ m = item.refreshed - a /\ c = item
      <4>1. f = item /\ Made = item.refreshed /\ item.refreshed \in Int
        BY <1>1, <2>7 DEF Fetched, Made, Bucket, Times
      <4> QED
        BY <1>1, <1>3, <2>2, <2>7, <4>1
    <3>2. item.refreshed <= now
      BY <2>7 DEF BucketInv, ItemIsBalanced
    <3>3. ASSUME NEW s \in Times, Granted(s) > 0
          PROVE  Balanced(granted, back', c.tokens, s, a)
      <4>1. Balanced(granted, back, item.tokens, s, item.refreshed)
        BY <2>7, <3>3 DEF BucketInv, ItemIsBalanced
      <4>2. a + m = item.refreshed
        BY <1>1, <2>3, <3>1
      <4> QED
        BY <1>1, <2>4, <3>1, <3>3, <4>1, <4>2
    <3>4. a - Window < c.refreshed /\ ~(c.refreshed <= a)
      BY <1>1, <2>3, <2>7, <3>1
    <3> QED
      BY <2>2, <3>1, <3>2, <3>3, <3>4
  <2>8. item = NoItem \/ item.refreshed <= a \/ a < item.refreshed
    BY <1>1 DEF Bucket, Times
  <2> QED
    BY <2>5, <2>6, <2>7, <2>8
<1> HIDE DEF c
<1>12. CopyIsBalanced(p)'
  <2>1. CASE Allowed(c, n)
    <3>1. copy'[p] = [c EXCEPT !.tokens = @ - n] /\ permits'[p] = n
      BY <1>10, <2>1 DEF Get, Charged, StatesFit, Shape
    <3>2. copy'[p] = [tokens |-> c.tokens - n, refreshed |-> c.refreshed]
      BY <1>11, <3>1 DEF Bucket
    <3>3. c.tokens \in 0 .. Limit /\ c.tokens >= n /\ c.refreshed \in Int
      BY <1>11, <2>1 DEF Bucket, Allowed, Times
    <3>4. copy'[p] # NoItem
      <4>1. c.tokens - n \in 0 .. Limit
        BY <1>1, <3>3
      <4>2. copy'[p] \in Bucket
        BY <1>11, <3>2, <4>1 DEF Bucket
      <4> QED
        BY <4>2
    <3>5. /\ copy'[p].tokens + permits'[p] = c.tokens
          /\ copy'[p].refreshed = c.refreshed
          /\ asked'[p] = a
      BY <1>1, <1>2, <3>1, <3>2, <3>3
    <3>6. Sooner(copy[p], p)' = IF c.refreshed <= a THEN c.refreshed ELSE a
      BY <3>5 DEF Sooner
    <3>7. \A s \in Times : Granted(s)' = Granted(s)
      BY <1>2 DEF Granted
    <3> HIDE DEF a
    <3> QED
      BY <1>2, <1>11, <3>3, <3>4, <3>5, <3>6, <3>7 DEF CopyIsBalanced
  <2>2. CASE ~Allowed(c, n)
    <3>1. copy'[p] = NoItem /\ permits'[p] = 0
      BY <1>10, <2>2 DEF Get, StatesFit, Shape
    <3> QED
      BY <3>1 DEF CopyIsBalanced
  <2> QED
    BY <2>1, <2>2
<1> QED
  BY <1>7, <1>8, <1>9, <1>12
LEMMA BucketWrite ==
  ASSUME kind = "bucket", kind' = kind, Shape, StatesFit, StatesFit', CountedInTime,
         BucketInv,
         NEW p \in Procs, PutStep(p) \/ ThrowStep(p), copy[p] # NoItem
  PROVE  ItemIsBalanced' /\ FullWhenGone' /\ BucketWithinRate'
<1> USE WindowsAssumption
<1> DEFINE a == asked[p]
           c == copy[p]
           n == IF granted' = granted THEN 0 ELSE permits[p]
           e == Sooner(c, p)
<1>1. /\ now' = now /\ back' = back
      /\ now \in Int /\ a \in Times /\ a \in Int /\ a <= now
      /\ granted \in Tallies /\ granted' \in Tallies /\ back \in Tallies
      /\ permits[p] \in 0 .. Limit
      /\ c \in Bucket /\ c.refreshed \in Int /\ c.tokens \in 0 .. Limit
  <2>1. c \in Bucket
    BY DEF StatesFit, States
  <2> QED
    BY <2>1 DEF PutStep, ThrowStep, Put, Shape, StatesFit, Times, Bucket
<1>2. InSection(p) /\ item' = c /\ ttl' = Life
  BY DEF PutStep, ThrowStep, Put, InSection, InsertState
<1>3. /\ c.refreshed <= now /\ a - Window < c.refreshed
      /\ c.tokens + permits[p] <= Limit
      /\ \A s \in Times :
           Granted(s) > 0 => Balanced(granted, back, c.tokens + permits[p], s, e)
  BY DEF BucketInv, CopyIsBalanced
<1>4. NothingAfter(a)
  BY <1>2 DEF CountedInTime
<1>5. /\ \A u \in Int : Upto(granted, u) \in Nat /\ Since(granted, u) \in Nat
      /\ \A u \in Int : Upto(back, u) \in Nat /\ Since(back, u) \in Nat
      /\ \A t \in Int, u \in Int : t <= u => Since(back, u) <= Since(back, t)
      /\ \A u \in Int : Upto(granted', u) \in Nat /\ Upto(granted', u) <= granted'[MaxTime]
      /\ granted'[MaxTime] \in Nat /\ back[MaxTime] \in Nat
  BY <1>1, UptoGrows
<1>6. /\ n \in 0 .. permits[p]
      /\ \A u \in Int : Upto(granted', u) = Upto(granted, u) + IF u >= a THEN n ELSE 0
      /\ \A u \in Int : Since(granted', u) = Since(granted, u) + IF u >= a THEN 0 ELSE n
  <2>1. CASE granted' = granted
    <3>1. n = 0
      BY <2>1
    <3> HIDE WindowsAssumption DEF n, a
    <3>2. n \in 0 .. permits[p]
      BY <1>1, <3>1
    <3>3. ASSUME NEW u \in Int
          PROVE  /\ Upto(granted', u) = Upto(granted, u)
                 /\ Since(granted', u) = Since(granted, u)
                 /\ Upto(granted, u) \in Nat /\ Since(granted, u) \in Nat
      BY <1>5, <2>1
    <3>4. ASSUME NEW u \in Int
          PROVE  /\ Upto(granted', u) = Upto(granted, u) + IF u >= a THEN n ELSE 0
                 /\ Since(granted', u) = Since(granted, u) + IF u >= a THEN 0 ELSE n
      <4>1. CASE u >= a
        BY <3>1, <3>3, <4>1
      <4>2. CASE ~(u >= a)
        BY <3>1, <3>3, <4>2
      <4> QED
        BY <4>1, <4>2
    <3> QED
      BY <3>2, <3>4
  <2>2. CASE granted' # granted
    <3>1. granted' = Counted(granted, a, permits[p]) /\ n = permits[p]
      BY <2>2 DEF PutStep, ThrowStep, Put, Taken
    <3>2. permits[p] \in Nat
      BY <1>1
    <3>3. /\ \A u \in Int : Upto(granted', u) = Upto(granted, u) + IF u >= a THEN n ELSE 0
          /\ \A u \in Int : Since(granted', u) = Since(granted, u) + IF u >= a THEN 0 ELSE n
      <4> HIDE WindowsAssumption DEF n, a
      <4> QED
        BY <1>1, <3>1, <3>2, CountedCounts DEF a
    <3> QED
      BY <1>1, <3>1, <3>3
  <2> QED
    BY <2>1, <2>2
<1> HIDE DEF n, c, a
<1>7. /\ e \in Int /\ e <= c.refreshed /\ e <= a /\ e <= now /\ a - Window < e
  BY <1>1, <1>3 DEF Sooner, a
<1> HIDE DEF e
(* What the item is worth from here on, and grants are no later than a. *)
<1>8. ASSUME NEW s \in Times, s <= a
      PROVE  /\ s \in Int /\ s - 1 \in Int /\ s - Window < e
             /\ Balanced(granted', back, c.tokens, s, e)
  <2>1. s \in Int /\ s - 1 \in Int /\ s - Window < e
    BY <1>1, <1>7, <1>8 DEF Times
  <2>2. Since(granted', s - 1) = Since(granted, s - 1) + n
    BY <1>1, <1>6, <1>8, <2>1
  <2>3. Periods(back, s, e) \in Nat
    BY <1>1, <1>7, <2>1, PeriodsGrow
  <2>4. PerPeriod * Periods(back, s, e) \in Nat
    BY <2>3
  <2>5. c.tokens + permits[p] + Since(granted, s - 1) <= Limit + PerPeriod * Periods(back, s, e)
    <3>1. CASE Since(granted, s - 1) = 0
      BY <1>1, <1>3, <2>4, <3>1
    <3>2. CASE Since(granted, s - 1) > 0
      BY <1>3, <3>2 DEF Granted, Balanced
    <3>3. Since(granted, s - 1) \in Nat
      BY <1>5, <2>1
    <3> QED
      BY <3>1, <3>2, <3>3
  <2>6. c.tokens + Since(granted', s - 1) <= Limit + PerPeriod * Periods(back, s, e)
    <3>1. Since(granted, s - 1) \in Nat
      BY <1>5, <2>1
    <3> QED
      BY <1>1, <1>6, <2>2, <2>4, <2>5, <3>1
  <2> QED
    BY <2>1, <2>6 DEF Balanced
<1>9. ASSUME NEW s \in Times, Since(granted', s - 1) > 0
      PROVE  s <= a
  <2>1. a \in Int /\ a >= a
    BY <1>1
  <2>2. Since(granted', a) = Since(granted, a) + 0
    BY <1>6, <2>1
  <2>3. Since(granted', a) = 0
    BY <1>4, <2>2 DEF NothingAfter
  <2> QED
    BY <1>1, <1>9, <2>3, GrantsAreEarlier
<1>10. ItemIsBalanced'
  <2>1. ASSUME NEW s \in Times, Since(granted', s - 1) > 0
        PROVE  /\ s - Window < c.refreshed
               /\ Balanced(granted', back, c.tokens, s, c.refreshed)
    <3>1. s <= a
      BY <1>9, <2>1
    <3>2. s \in Int /\ s - Window < e /\ Balanced(granted', back, c.tokens, s, e)
      BY <1>8, <3>1
    <3>3. c.tokens \in Int /\ c.refreshed \in Int
      BY <1>1
    <3>4. s - Window < c.refreshed
      BY <1>1, <1>7, <3>2
    <3>5. Balanced(granted', back, c.tokens, s, c.refreshed)
      <4> HIDE WindowsAssumption
      <4> QED
        BY <1>1, <1>7, <3>2, <3>3, BalanceGrows
    <3> QED
      BY <3>4, <3>5
  <2> QED
    BY <1>1, <1>2, <1>3, <2>1 DEF ItemIsBalanced, Granted
<1>11. FullWhenGone'
  <2> DEFINE k == (Limit + PerPeriod - 1) \div PerPeriod
  <2>1. k \in Nat /\ k * PerPeriod >= Limit
    <3>1. Limit + PerPeriod - 1 \in Nat /\ PerPeriod \in Nat \ {0} /\ Limit \in Nat
      OBVIOUS
    <3> HIDE WindowsAssumption DEF k
    <3>2. k \in Nat /\ Limit + PerPeriod - 1 < (k + 1) * PerPeriod
      BY <3>1, Division DEF k
    <3> QED
      BY <3>1, <3>2
  <2>2. ttl' = k * Window
    BY <1>2 DEF Life
  <2> HIDE DEF k
  <2>3. k * Window \in Nat /\ k * PerPeriod \in Nat
    BY <2>1
  <2>4. ASSUME NEW s \in Times, Since(granted', s - 1) > 0
        PROVE  Balanced(granted', back, Limit, s, now + ttl')
    <3>1. s <= a
      BY <1>9, <2>4
    <3>2. s \in Int /\ s - Window < e /\ Balanced(granted', back, c.tokens, s, e)
      BY <1>8, <3>1
    <3>3. c.tokens \in Int /\ Limit \in Int /\ Limit <= c.tokens + k * PerPeriod
      BY <1>1, <2>1, <2>3
    <3>4. Balanced(granted', back, Limit, s, e + k * Window)
      <4> HIDE WindowsAssumption
      <4> QED
        BY <1>1, <1>7, <2>1, <3>2, <3>3, BalanceGrows
    <3>5. PICK t \in Int : t = e + k * Window
      BY <1>7, <2>3
    <3>6. s - Window < t /\ t <= now + ttl' /\ now + ttl' \in Int
      BY <1>1, <1>7, <2>2, <2>3, <3>2, <3>5
    <3>7. Balanced(granted', back, Limit, s, now + ttl')
      <4> HIDE WindowsAssumption
      <4> QED
        BY <1>1, <3>3, <3>4, <3>5, <3>6, BalanceGrows
    <3> QED
      BY <3>7
  <2> QED
    BY <1>1, <2>4 DEF FullWhenGone, Granted
<1>12. BucketWithinRate'
  <2> SUFFICES ASSUME NEW s \in Times, NEW t \in Times, s <= t
               PROVE  Over(granted', s, t) <= Limit
                        + PerPeriod * ((t - s + Over(back, s, t) + Window - 1) \div Window)
    BY <1>1 DEF BucketWithinRate
  <2>1. s \in Int /\ t \in Int /\ s - 1 \in Int
    BY DEF Times
  <2>2. CASE a < s \/ t < a
    <3>1. Over(granted', s, t) = Over(granted, s, t)
      <4>1. /\ Upto(granted', t) = Upto(granted, t) + IF t >= a THEN n ELSE 0
            /\ Upto(granted', s - 1) = Upto(granted, s - 1) + IF s - 1 >= a THEN n ELSE 0
            /\ Upto(granted, t) \in Int /\ Upto(granted, s - 1) \in Int /\ n \in Int
        <5>1. n \in Int
          BY <1>1, <1>6
        <5>2. Upto(granted', t) = Upto(granted, t) + IF t >= a THEN n ELSE 0
          BY <1>6, <2>1
        <5>3. Upto(granted', s - 1) = Upto(granted, s - 1) + IF s - 1 >= a THEN n ELSE 0
          BY <1>6, <2>1
        <5>4. Upto(granted, t) \in Int /\ Upto(granted, s - 1) \in Int
          BY <1>5, <2>1
        <5> QED
          BY <5>1, <5>2, <5>3, <5>4
      <4>2. (t >= a /\ s - 1 >= a) \/ (~(t >= a) /\ ~(s - 1 >= a))
        BY <1>1, <2>1, <2>2
      <4> HIDE WindowsAssumption
      <4>3. Upto(granted', t) - Upto(granted', s - 1) = Upto(granted, t) - Upto(granted, s - 1)
        BY <4>1, <4>2
      <4> QED
        BY <4>3 DEF Over
    <3> QED
      BY <3>1 DEF BucketInv, BucketWithinRate
  <2>3. CASE s <= a /\ a <= t
    <3>1. s - Window < e /\ Balanced(granted', back, c.tokens, s, e)
      BY <1>8, <2>3
    <3>2. e <= t
      BY <1>1, <1>7, <2>1, <2>3
    <3>3. Balanced(granted', back, c.tokens, s, t)
      <4>1. c.tokens \in Int
        BY <1>1
      <4> HIDE WindowsAssumption
      <4> QED
        BY <1>1, <1>7, <2>1, <3>1, <3>2, <4>1, BalanceGrows
    <3>4. Over(back, s, t) = Since(back, s - 1)
      <4>1. Since(back, t) <= Since(back, a) /\ Since(back, t) \in Nat
        BY <1>1, <1>5, <2>1, <2>3
      <4>2. Since(back, t) = 0
        BY <1>4, <4>1 DEF NothingAfter
      <4>3. /\ Upto(back, t) \in Int /\ Upto(back, s - 1) \in Int
            /\ back[MaxTime] \in Int /\ back[MaxTime] - Upto(back, t) = 0
        BY <1>5, <2>1, <4>2 DEF Since
      <4> HIDE WindowsAssumption
      <4>4. Upto(back, t) - Upto(back, s - 1) = back[MaxTime] - Upto(back, s - 1)
        BY <4>3
      <4> QED
        BY <4>4 DEF Over, Since
    <3>5. Over(granted', s, t) <= Since(granted', s - 1) /\ Over(granted', s, t) \in Int
      <4>1. /\ Upto(granted', t) \in Nat /\ Upto(granted', t) <= granted'[MaxTime]
            /\ Upto(granted', s - 1) \in Nat /\ granted'[MaxTime] \in Nat
        BY <1>5, <2>1
      <4> HIDE WindowsAssumption
      <4> QED
        BY <4>1 DEF Over, Since
    <3>6. /\ c.tokens + Since(granted', s - 1) <= Limit + PerPeriod * Periods(back, s, t)
          /\ Periods(back, s, t) = (t - s + Over(back, s, t) + Window - 1) \div Window
      BY <3>3, <3>4 DEF Balanced, Periods
    <3>7. Periods(back, s, t) \in Nat /\ Since(granted', s - 1) \in Nat
      <4>1. s - Window < t
        BY <1>7, <2>1, <3>1, <3>2
      <4>2. Periods(back, s, t) \in Nat
        BY <1>1, <2>1, <4>1, PeriodsGrow
      <4>3. Since(granted', s - 1) \in Nat
        BY <1>1, <2>1, UptoGrows
      <4> QED
        BY <4>2, <4>3
    <3>8. PerPeriod * Periods(back, s, t) \in Nat
      BY <3>7
    <3>9. Over(granted', s, t) <= Limit + PerPeriod * Periods(back, s, t)
      BY <1>1, <3>5, <3>6, <3>7, <3>8
    <3> QED
      BY <3>6, <3>9
  <2> QED
    BY <1>1, <2>1, <2>2, <2>3
<1> QED
  BY <1>10, <1>11, <1>12

LEMMA BucketInvariant == Prompt => (Spec => []BucketInv)
<1> USE LeaseAssumption, WindowsAssumption
<1>1. Init => BucketInv
  <2> SUFFICES ASSUME Init
               PROVE  BucketInv
    OBVIOUS
  <2>1. /\ item = NoItem /\ granted = None /\ back = None
        /\ \A p \in Procs : pc[p] = "ctor" /\ copy[p] = NoItem
    BY DEF Init
  <2>2. \A s \in Times : Granted(s) = 0
    BY <2>1, NoneIsATally DEF Granted, Times
  <2>3. BucketWithinRate
    <3>1. ASSUME NEW s \in Times, NEW t \in Times, s <= t
          PROVE  Over(granted, s, t) <= Limit
                   + PerPeriod * ((t - s + Over(back, s, t) + Window - 1) \div Window)
      <4>1. s \in Int /\ t \in Int /\ s - 1 \in Int
        BY DEF Times
      <4>2. Over(granted, s, t) = 0 /\ Over(back, s, t) = 0
        BY <2>1, <4>1, NoneIsATally DEF Over
      <4> DEFINE x == t - s + Over(back, s, t) + Window - 1
      <4>3. x \in Nat
        BY <3>1, <4>1, <4>2
      <4> HIDE DEF x
      <4>4. PerPeriod * (x \div Window) \in Nat
        BY <4>3, Division
      <4> QED
        BY <4>2, <4>4 DEF x
    <3> QED
      BY <3>1 DEF BucketWithinRate
  <2> QED
    BY <2>1, <2>2, <2>3 DEF BucketInv, ItemIsBalanced, FullWhenGone, CopyIsBalanced
<1>2. /\ Shape /\ StatesFit /\ StatesFit' /\ LockIsHeld /\ CountedInTime /\ BucketInv
      /\ [Next]_vars
      => BucketInv'
  <2> SUFFICES ASSUME Shape, StatesFit, StatesFit', LockIsHeld, CountedInTime, BucketInv,
                      [Next]_vars, kind = "bucket"
               PROVE  BucketInv'
    BY StepsOnTheItem DEF BucketInv
  <2>0. /\ kind' = kind /\ kind \in Kinds /\ now \in Int
        /\ granted \in Tallies /\ back \in Tallies
    BY StepsOnTheItem DEF Shape, StatesFit, Times
  <2>g. ASSUME NEW s \in Times, Granted(s) > 0
        PROVE  s \in Int /\ s <= now /\ s - Window < now
    <3>1. Since(granted, now) = 0
      BY DEF CountedInTime, NothingAfter
    <3>2. s <= now
      BY <2>0, <2>g, <3>1, GrantsAreEarlier DEF Granted
    <3> QED
      BY <2>0, <3>2 DEF Times
  <2>1. CASE QuietStep
    <3>1. UNCHANGED <<now, item, ttl, granted, back>>
      BY <2>1 DEF QuietStep
    <3>2. ItemIsBalanced' /\ FullWhenGone' /\ BucketWithinRate'
      BY <2>0, <3>1 DEF BucketInv, ItemIsBalanced, FullWhenGone, BucketWithinRate, Granted
    <3>3. ASSUME NEW q \in Procs
          PROVE  CopyIsBalanced(q)'
      <4>1. CASE Outside(q)
        BY <4>1 DEF Outside, CountedInTime, CopyIsBalanced
      <4>2. CASE Stays(q)
        BY <3>1, <4>2 DEF BucketInv, Stays, CopyIsBalanced, Sooner, Granted
      <4> QED
        BY <2>1, <4>1, <4>2 DEF QuietStep
    <3> QED
      BY <3>2, <3>3 DEF BucketInv
  <2>2. CASE StateStep
    <3>1. /\ UNCHANGED <<now, granted, back>>
          /\ item = NoItem /\ item' = [tokens |-> Limit, refreshed |-> now]
          /\ ttl' = Forever
      BY <2>2 DEF StateStep, Empty
    <3>2. ttl # Forever /\ now + ttl = now
      BY <2>0, <3>1 DEF StatesFit, Forever
    <3>3. \A s \in Times : Granted(s) > 0 => Balanced(granted, back, Limit, s, now)
      BY <3>2 DEF BucketInv, FullWhenGone
    <3>4. ItemIsBalanced' /\ FullWhenGone' /\ BucketWithinRate'
      BY <2>0, <2>g, <3>1, <3>3
      DEF BucketInv, ItemIsBalanced, FullWhenGone, BucketWithinRate, Granted
    <3>5. ASSUME NEW q \in Procs
          PROVE  CopyIsBalanced(q)'
      <4>1. CASE Outside(q)
        BY <4>1 DEF Outside, CountedInTime, CopyIsBalanced
      <4>2. CASE Stays(q)
        BY <3>1, <4>2 DEF BucketInv, Stays, CopyIsBalanced, Sooner, Granted
      <4> QED
        BY <2>2, <4>1, <4>2 DEF StateStep
    <3> QED
      BY <3>4, <3>5 DEF BucketInv
  <2>3. ASSUME NEW p \in Procs, LockStep(p)
        PROVE  BucketInv'
    <3>1. UNCHANGED <<now, item, ttl, granted, back>>
      BY <2>3 DEF LockStep
    <3>2. ItemIsBalanced' /\ FullWhenGone' /\ BucketWithinRate'
      BY <2>0, <3>1 DEF BucketInv, ItemIsBalanced, FullWhenGone, BucketWithinRate, Granted
    <3>3. ASSUME NEW q \in Procs
          PROVE  CopyIsBalanced(q)'
      BY <2>3 DEF LockStep, Outside, CountedInTime, CopyIsBalanced
    <3> QED
      BY <3>2, <3>3 DEF BucketInv
  <2>4. ASSUME NEW p \in Procs, GetStep(p)
        PROVE  BucketInv'
    <3>1. /\ CopyIsBalanced(p)'
          /\ ItemIsBalanced' /\ FullWhenGone' /\ BucketWithinRate'
      BY <2>4, BucketGet DEF GetStep
    <3>2. ASSUME NEW q \in Procs
          PROVE  CopyIsBalanced(q)'
      BY <2>4, <3>1 DEF GetStep, Outside, CountedInTime, CopyIsBalanced
    <3> QED
      BY <3>1, <3>2 DEF BucketInv
  <2>5. ASSUME NEW p \in Procs, PutStep(p) \/ ThrowStep(p)
        PROVE  BucketInv'
    <3>1. \A q \in Procs : CopyIsBalanced(q)'
      BY <2>5 DEF PutStep, ThrowStep, Outside, CountedInTime, CopyIsBalanced
    <3>2. CASE copy[p] # NoItem
      BY <2>0, <2>5, <3>1, <3>2, BucketWrite DEF BucketInv
    <3>3. CASE copy[p] = NoItem
      <4>1. UNCHANGED <<now, item, ttl, granted, back>>
        BY <2>5, <3>3
        DEF PutStep, ThrowStep, Put, InsertState, BucketInv, CopyIsBalanced
      <4>2. ItemIsBalanced' /\ FullWhenGone' /\ BucketWithinRate'
        BY <2>0, <4>1 DEF BucketInv, ItemIsBalanced, FullWhenGone, BucketWithinRate, Granted
      <4> QED
        BY <3>1, <4>2 DEF BucketInv
    <3> QED
      BY <3>2, <3>3
  <2>6. CASE TickStep
    <3>1. /\ now' = now + 1 /\ UNCHANGED <<granted, back>>
          /\ ttl' = IF ttl \in {0, Forever} THEN ttl ELSE ttl - 1
          /\ item' \in {item, NoItem}
          /\ \A q \in Procs : Stays(q)
      BY <2>6 DEF TickStep, Tick, history
    <3>2. ItemIsBalanced'
      <4>1. item # NoItem => item.refreshed \in Int
        BY <2>0 DEF StatesFit, States, Bucket, Times
      <4>2. item # NoItem => item.refreshed <= now + 1
        BY <2>0, <4>1 DEF BucketInv, ItemIsBalanced
      <4> QED
        BY <3>1, <4>2 DEF BucketInv, ItemIsBalanced, Granted
    <3>3. FullWhenGone'
      <4>1. ASSUME ttl' # Forever, NEW s \in Times, Granted(s) > 0
            PROVE  Balanced(granted, back, Limit, s, now' + ttl')
        <5>1. /\ ttl \in Nat /\ ttl # Forever
              /\ now + ttl \in Int /\ now' + ttl' \in Int
              /\ now + ttl <= now' + ttl'
          BY <2>0, <3>1, <4>1 DEF StatesFit, Forever
        <5>2. Balanced(granted, back, Limit, s, now + ttl)
          BY <4>1, <5>1 DEF BucketInv, FullWhenGone
        <5>3. s - Window < now + ttl /\ Limit \in Int
          BY <2>0, <2>g, <4>1, <5>1
        <5> HIDE WindowsAssumption
        <5> QED
          BY <2>0, <5>1, <5>2, <5>3, BalanceGrows
      <4> QED
        BY <3>1, <4>1 DEF FullWhenGone, Granted
    <3>4. ASSUME NEW q \in Procs
          PROVE  CopyIsBalanced(q)'
      <4>1. copy[q] # NoItem => copy[q].refreshed \in Int
        BY <2>0 DEF StatesFit, States, Bucket, Times
      <4>2. copy[q] # NoItem => copy[q].refreshed <= now + 1
        BY <2>0, <4>1 DEF BucketInv, CopyIsBalanced
      <4> QED
        BY <3>1, <4>2 DEF BucketInv, Stays, CopyIsBalanced, Sooner, Granted
    <3>5. BucketWithinRate'
      BY <2>0, <3>1 DEF BucketInv, BucketWithinRate
    <3> QED
      BY <3>2, <3>3, <3>4, <3>5 DEF BucketInv
  <2> QED
    BY <2>1, <2>2, <2>3, <2>4, <2>5, <2>6, StepsOnTheItem
<1>3. ASSUME Prompt
      PROVE  Spec => []BucketInv
  <2>1. Spec => []LockIsHeld
    BY <1>3, TheLockIsHeld
  <2>2. Spec => []CountedInTime
    BY <1>3, CountedInTimeInvariant
  <2> QED
    BY <1>1, <1>2, <2>1, <2>2, ShapeIsInvariant, StatesFitIsInvariant, PTL DEF Spec
<1> QED
  BY <1>3

(* The token bucket of processes that finish within their lease: from any  *)
(* time to any later one there are no more grants than a full bucket and   *)
(* the replenishments in between, however often the item expires and is    *)
(* made anew, but for the time that a bucket is dated back then.           *)
THEOREM NoBucketGivesMore == Prompt => (Spec => []BucketWithinRate)
<1>1. BucketInv => BucketWithinRate
  BY DEF BucketInv, BucketWithinRate
<1>2. ASSUME Prompt
      PROVE  Spec => []BucketWithinRate
  <2>1. Spec => []BucketInv
    BY <1>2, BucketInvariant
  <2> QED
    BY <1>1, <2>1, PTL
<1> QED
  BY <1>2

=============================================================================
