----------------------------- MODULE RateWindows -----------------------------
(***************************************************************************)
(* The fixed window, sliding window and token bucket limiters: the three   *)
(* managers, which keep one state item in the cache and read, change and   *)
(* write it back under LockKey, and which differ in the item, in the       *)
(* moment they read the clock, and in the item's expiration.  LockKey and  *)
(* UnlockKey are those of LeaseLock.                                       *)
(*                                                                         *)
(* Every process has a manager of its own for one partition key.  Its      *)
(* constructor adds the state, the statistics and the item whose key is    *)
(* locked, in one try.  Statistics count nothing here but they are one of  *)
(* the items.  Clocks agree and a tick is the unit of all times.           *)
(***************************************************************************)
EXTENDS LeaseLock, FiniteSetsExt

CONSTANTS
  Kinds,      \* the managers looked at
  Limit,      \* PermitLimit, TokenLimit
  Window,     \* Window, ReplenishmentPeriod
  PerPeriod,  \* TokensPerPeriod
  Grace,      \* the second by which the sliding window's item outlives it
  MaxWait,    \* how long AcquireDistributedLockAsync tries, 3 seconds
  NoItem,
  MaxTime,    \* bound: the clock stops here
  MaxFaults   \* bound: crashes and failing calls

Times == 0 .. MaxTime

(* How many of something there are up to each time, that time included. *)
Tallies == {f \in [Times -> Nat] : \A t, u \in Times : t <= u => f[t] <= f[u]}

(* The sliding window's list of time stamps is told by its tally. *)
Fixed   == [count : 0 .. Limit, expires : 0 .. MaxTime + Window]
Sliding == {f \in Tallies : f[MaxTime] <= Limit}
Bucket  == [tokens : 0 .. Limit, refreshed : Times]

ASSUME WindowsAssumption ==
  /\ Kinds \subseteq {"fixed", "sliding", "bucket"}
  /\ {Limit, Window, PerPeriod} \subseteq Nat \ {0}
  /\ {Grace, MaxWait, MaxTime, MaxFaults} \subseteq Nat
  /\ NoItem \notin Fixed /\ NoItem \notin Sliding /\ NoItem \notin Bucket

VARIABLES
  kind,     \* which of the three managers it is
  now,      \* the clock
  item,     \* the state item, or NoItem
  ttl,      \* what is left of its lifetime
  keys,     \* those of the lock and statistics items that are in the cache
  pc,       \* where each process is
  step,     \* how far its constructor is
  permits,  \* permitCount of its call
  asked,    \* the time its call reads off the clock
  waited,   \* how long it has been trying to lock
  copy,     \* the state it is about to write
  faults,   \* crashes and failures so far
  cut,      \* history: a constructor stopped before it was done
  granted,  \* history: the tally of the permits granted
  lag,      \* history: the greatest age of the time a grant was made with
  back      \* history: the tally of the ticks by which buckets that were made
            \* after a call read the clock are older for that call

state   == <<item, ttl, keys>>
history == <<cut, granted, lag, back>>
vars == <<lockVars, kind, now, state, pc, step, permits, asked, waited, copy,
          faults, history>>

States == CASE kind = "fixed" -> Fixed
            [] kind = "sliding" -> Sliding
            [] kind = "bucket" -> Bucket

PCs == {"ctor", "idle", "wait", "get", "put", "unlock"}

TypeOK ==
  /\ LeaseTypeOK
  /\ kind \in Kinds
  /\ now \in Times
  /\ item \in States \cup {NoItem}
  /\ ttl \in Nat \cup {Forever}
  /\ item = NoItem <=> ttl = 0
  /\ keys \subseteq {"lock", "stats"}
  /\ pc \in [Procs -> PCs]
  /\ step \in [Procs -> 1 .. 3]
  /\ permits \in [Procs -> 0 .. Limit]
  /\ asked \in [Procs -> Times]
  /\ waited \in [Procs -> 0 .. MaxWait]
  /\ copy \in [Procs -> States \cup {NoItem}]
  /\ faults \in 0 .. MaxFaults
  /\ cut \in BOOLEAN
  /\ granted \in Tallies
  /\ lag \in Times
  /\ back \in Tallies

Goto(p, l) == pc' = [pc EXCEPT ![p] = l]

None == [t \in Times |-> 0]

Upto(f, t) ==
  CASE t < 0 -> 0
    [] t \in Times -> f[t]
    [] t > MaxTime -> f[MaxTime]

Over(f, a, b) == Upto(f, b) - Upto(f, a - 1)

Counted(f, t, n) == [u \in Times |-> IF u >= t THEN f[u] + n ELSE f[u]]

-----------------------------------------------------------------------------
(* What each manager does with the state item, as a function of the time.  *)

Empty(t) ==
  CASE kind = "fixed" -> [count |-> 0, expires |-> t]
    [] kind = "sliding" -> None
    [] kind = "bucket" -> [tokens |-> Limit, refreshed |-> t]

(* Wrong on purpose: a window is over one tick early. *)
CurrentWindowEarly(s, t) ==
  IF s.expires <= t + 1 THEN [count |-> 0, expires |-> t + Window] ELSE s

(* Wrong on purpose: the count is reset and the expiry is not. *)
CurrentWindowKeepsExpiry(s, t) ==
  IF s.expires <= t THEN [s EXCEPT !.count = 0] ELSE s

(* A window that is over makes place for one that starts at t. *)
CurrentWindow(s, t) ==
  IF s.expires <= t THEN [count |-> 0, expires |-> t + Window] ELSE s

(* The stamps up to the window's beginning are removed. *)
CurrentStamps(s, t) ==
  [u \in Times |-> IF u <= t - Window THEN 0 ELSE Over(s, t - Window + 1, u)]

(* Wrong on purpose: the time of the last replenishment does not move. *)
CurrentTokensAgain(s, t) ==
  LET periods == (t - s.refreshed) \div Window
  IN [s EXCEPT !.tokens = Min({Limit, @ + periods * PerPeriod})]

(* Wrong on purpose: the bucket has no brim. *)
CurrentTokensUncapped(s, t) ==
  LET periods == Max({0, t - s.refreshed}) \div Window
  IN [tokens    |-> s.tokens + periods * PerPeriod,
      refreshed |-> s.refreshed + periods * Window]

(* Whole periods since the last replenishment are paid out. *)
CurrentTokens(s, t) ==
  LET periods == Max({0, t - s.refreshed}) \div Window
  IN [tokens    |-> Min({Limit, s.tokens + periods * PerPeriod}),
      refreshed |-> s.refreshed + periods * Window]

Current(s, t) ==
  CASE kind = "fixed" -> CurrentWindow(s, t)
    [] kind = "sliding" -> CurrentStamps(s, t)
    [] kind = "bucket" -> CurrentTokens(s, t)

Allowed(s, n) ==
  CASE kind = "fixed" -> s.count + n <= Limit
    [] kind = "sliding" -> s[MaxTime] < Limit
    [] kind = "bucket" -> s.tokens >= n

(* The sliding window takes one permit, whatever permitCount is. *)
Charged(s, t, n) ==
  CASE kind = "fixed" -> [s EXCEPT !.count = @ + n]
    [] kind = "sliding" -> Counted(s, t, 1)
    [] kind = "bucket" -> [s EXCEPT !.tokens = @ - n]

Taken(n) == IF kind = "sliding" THEN 1 ELSE n

(* Wrong on purpose: the item lives for a part of the window only. *)
LifeTooShort ==
  CASE kind = "fixed" -> Forever
    [] kind = "sliding" -> Max({1, Window - 1})
    [] kind = "bucket" -> Window

(* The expiration the state is inserted with; the fixed window has none.   *)
Life ==
  CASE kind = "fixed" -> Forever
    [] kind = "sliding" -> Window + Grace
    [] kind = "bucket" -> ((Limit + PerPeriod - 1) \div PerPeriod) * Window

(* _cache.Get ?? new ...: the default window is over already. *)
Fetched(t) ==
  CASE item # NoItem -> item
    [] item = NoItem /\ kind = "fixed" -> Empty(0)
    [] OTHER -> Empty(t)

-----------------------------------------------------------------------------
Init ==
  /\ LockInit
  /\ kind \in Kinds
  /\ now = 0
  /\ item = NoItem
  /\ ttl = 0
  /\ keys = {}
  /\ pc = [p \in Procs |-> "ctor"]
  /\ step = [p \in Procs |-> 1]
  /\ permits = [p \in Procs |-> 0]
  /\ asked = [p \in Procs |-> 0]
  /\ waited = [p \in Procs |-> 0]
  /\ copy = [p \in Procs |-> NoItem]
  /\ faults = 0
  /\ cut = FALSE
  /\ granted = None
  /\ lag = 0
  /\ back = None

(* EnsureInitialized: the items in the order in which they are added. *)
Order == IF kind = "fixed" THEN <<"state", "lock", "stats">>
                           ELSE <<"state", "stats", "lock">>

Exists(k) == IF k = "state" THEN item # NoItem ELSE k \in keys

AddItem(k) ==
  IF k = "state"
  THEN item' = Empty(now) /\ ttl' = Forever /\ UNCHANGED keys
  ELSE keys' = keys \cup {k} /\ UNCHANGED <<item, ttl>>

(* An item that is there already ends the constructor: the Add throws and  *)
(* the items that follow are not tried.                                    *)
Construct(p) ==
  /\ pc[p] = "ctor"
  /\ LET k == Order[step[p]]
         last == Exists(k) \/ step[p] = 3
     IN /\ IF Exists(k) THEN UNCHANGED state ELSE AddItem(k)
        /\ step' = [step EXCEPT ![p] = IF last THEN 1 ELSE @ + 1]
        /\ Goto(p, IF last THEN "idle" ELSE "ctor")
  /\ UNCHANGED <<lockVars, kind, now, permits, asked, waited, copy, faults,
                 history>>

(* Wrong on purpose: the catch takes every exception for "exists". *)
ConstructSwallows(p) ==
  /\ pc[p] = "ctor"
  /\ faults < MaxFaults
  /\ faults' = faults + 1
  /\ step' = [step EXCEPT ![p] = 1]
  /\ Goto(p, "idle")
  /\ UNCHANGED <<lockVars, kind, now, state, permits, asked, waited, copy,
                 history>>

(* Any other exception leaves the constructor; there is no manager until   *)
(* the next attempt to make one.                                           *)
ConstructThrows(p) ==
  /\ pc[p] = "ctor"
  /\ faults < MaxFaults
  /\ faults' = faults + 1
  /\ step' = [step EXCEPT ![p] = 1]
  /\ cut' = TRUE
  /\ UNCHANGED <<lockVars, kind, now, state, pc, permits, asked, waited, copy,
                 granted, lag, back>>

(* A call of TryAcquireLeaseAsync.  The fixed window reads the clock here, *)
(* looks at the state before it locks, and refuses at once when the window *)
(* is full, which changes nothing.                                         *)
Ask(p) ==
  /\ pc[p] = "idle"
  /\ \E n \in 1 .. Limit :
       /\ kind = "fixed" => Allowed(Current(Fetched(now), now), n)
       /\ permits' = [permits EXCEPT ![p] = n]
  /\ asked' = [asked EXCEPT ![p] = IF kind = "fixed" THEN now ELSE 0]
  /\ Goto(p, "wait")
  /\ UNCHANGED <<lockVars, kind, now, state, step, waited, copy, faults,
                 history>>

End(p, l) ==
  /\ Goto(p, l)
  /\ permits' = [permits EXCEPT ![p] = 0]
  /\ asked' = [asked EXCEPT ![p] = 0]
  /\ waited' = [waited EXCEPT ![p] = 0]
  /\ copy' = [copy EXCEPT ![p] = NoItem]

(* The loop of AcquireDistributedLockAsync: LockKey refuses a key that is  *)
(* not in the cache.  The other two managers read the clock once they have *)
(* the lock.                                                               *)
Lock(p) ==
  /\ pc[p] = "wait"
  /\ "lock" \in keys
  /\ waited[p] < MaxWait \/ waited[p] = 0
  /\ LockKey(p)
  /\ asked' = IF kind = "fixed" THEN asked ELSE [asked EXCEPT ![p] = now]
  /\ waited' = [waited EXCEPT ![p] = 0]
  /\ Goto(p, "get")
  /\ UNCHANGED <<kind, now, state, step, permits, copy, faults, history>>

(* LockKey throws after it added its item; the loop goes on. *)
LockThrows(p) ==
  /\ pc[p] = "wait"
  /\ "lock" \in keys
  /\ Free
  /\ faults < MaxFaults
  /\ faults' = faults + 1
  /\ holder' = Orphan
  /\ left' \in Lifetimes
  /\ UNCHANGED <<kind, now, state, pc, step, permits, asked, waited, copy,
                 history>>

(* The three seconds are over. *)
LockTimesOut(p) ==
  /\ pc[p] = "wait"
  /\ waited[p] = MaxWait
  /\ End(p, "idle")
  /\ UNCHANGED <<lockVars, kind, now, state, step, faults, history>>

(* Since when the bucket that Get finds or makes is what it is. *)
Made == IF item = NoItem THEN now ELSE item.refreshed

(* Under the lock the state is read again and the permits are charged.  A  *)
(* refused call has no permits from here on, and only in the sliding       *)
(* window something to write.                                              *)
Get(p) ==
  /\ pc[p] = "get"
  /\ LET s  == Current(Fetched(asked[p]), asked[p])
         ok == Allowed(s, permits[p])
     IN /\ copy' = [copy EXCEPT ![p] =
                       CASE ok -> Charged(s, asked[p], permits[p])
                         [] ~ok /\ kind = "sliding" -> s
                         [] OTHER -> NoItem]
        /\ permits' = [permits EXCEPT ![p] = IF ok THEN @ ELSE 0]
  /\ back' = IF kind = "bucket"
             THEN Counted(back, asked[p], Max({0, Made - asked[p]}))
             ELSE back
  /\ Goto(p, "put")
  /\ UNCHANGED <<lockVars, kind, now, state, step, asked, waited, faults, cut,
                 granted, lag>>

InsertState(p) ==
  IF copy[p] = NoItem
  THEN UNCHANGED <<item, ttl>>
  ELSE item' = copy[p] /\ ttl' = Life

(* The state is written back, and the statistics, which only the caller    *)
(* with the lock looks at.  After that the call's answer is certain.       *)
Put(p) ==
  /\ pc[p] = "put"
  /\ InsertState(p)
  /\ keys' = keys \cup {"stats"}
  /\ IF permits[p] > 0
     THEN /\ granted' = Counted(granted,
                                IF kind = "fixed" THEN now ELSE asked[p],
                                Taken(permits[p]))
          /\ lag' = Max({lag, now - asked[p]})
     ELSE UNCHANGED <<granted, lag>>
  /\ End(p, "unlock")
  /\ UNCHANGED <<lockVars, kind, now, step, faults, cut, back>>

(* A call to the cache throws, before the state is written or after: the   *)
(* caller has an exception for an answer, and the lock's Dispose runs.     *)
CallThrows(p) ==
  /\ pc[p] \in {"get", "put"}
  /\ faults < MaxFaults
  /\ faults' = faults + 1
  /\ InsertState(p) \/ UNCHANGED <<item, ttl>>
  /\ End(p, "unlock")
  /\ UNCHANGED <<lockVars, kind, now, keys, step, history>>

(* Dispose of the lock. *)
Unlock(p) ==
  /\ pc[p] = "unlock"
  /\ UnlockKey(p)
  /\ Goto(p, "idle")
  /\ UNCHANGED <<kind, now, state, step, permits, asked, waited, copy, faults,
                 history>>

(* It swallows exceptions: the lock may stay until its lease is over. *)
UnlockFails(p) ==
  /\ pc[p] = "unlock"
  /\ faults < MaxFaults
  /\ faults' = faults + 1
  /\ Abandon(p)
  /\ Goto(p, "idle")
  /\ UNCHANGED <<kind, now, state, step, permits, asked, waited, copy,
                 history>>

(* The process dies and is started again. *)
Crash(p) ==
  /\ faults < MaxFaults
  /\ faults' = faults + 1
  /\ Abandon(p)
  /\ cut' = (cut \/ pc[p] = "ctor")
  /\ step' = [step EXCEPT ![p] = 1]
  /\ End(p, "ctor")
  /\ UNCHANGED <<kind, now, state, granted, lag, back>>

(* Time passes: the lease, the item and the waiting go on. *)
Tick ==
  /\ now < MaxTime
  /\ Prompt => ~(left = 1 /\ holder \in Procs)
  /\ now' = now + 1
  /\ LeaseRuns
  /\ ttl' = IF ttl \in {0, Forever} THEN ttl ELSE ttl - 1
  /\ item' = IF ttl = 1 THEN NoItem ELSE item
  /\ waited' = [p \in Procs |-> IF pc[p] = "wait"
                                THEN Min({MaxWait, waited[p] + 1})
                                ELSE waited[p]]
  /\ UNCHANGED <<kind, keys, pc, step, permits, asked, copy, faults, history>>

Next ==
  \/ \E p \in Procs :
       \/ Construct(p) \/ ConstructThrows(p)
       \/ Ask(p)
       \/ Lock(p) \/ LockThrows(p) \/ LockTimesOut(p)
       \/ Get(p) \/ Put(p) \/ CallThrows(p)
       \/ Unlock(p) \/ UnlockFails(p)
       \/ Crash(p)
  \/ Tick

Spec == Init /\ [][Next]_vars

-----------------------------------------------------------------------------
(* The fixed window's item, whoever writes it and however old the time it  *)
(* was written with: a write adds permits to the window that is there,     *)
(* within the limit, or opens one a whole window later.  No update is      *)
(* lost and no window is opened again.                                     *)
WindowsAreCharged ==
  [][kind = "fixed" /\ item # NoItem =>
       \/ /\ item'.expires = item.expires
          /\ item'.count \in item.count + 1 .. Limit
       \/ /\ item'.expires >= item.expires + Window
          /\ item'.count \in 1 .. Limit]_item

(* What the fixed window's limit means on the clock: in the length of one  *)
(* window there are never more grants than two windows allow, and a        *)
(* window's worth more for every window by which a time read before the    *)
(* lock was waited for is late.                                            *)
BurstIsBounded ==
  kind = "fixed" =>
    \A s \in Times :
      Over(granted, s, s + Window - 1)
        <= Limit * ((2 * Window + lag - 2) \div Window + 1)

(* The sliding window never grants more than its limit in any window,      *)
(* over all processes, even when its item expires and is made anew, as     *)
(* long as the time a grant was made with is not older than the second by  *)
(* which the item outlives the window.                                     *)
SlidingWithinLimit ==
  kind = "sliding" /\ lag <= Grace =>
    \A s \in Times : Over(granted, s, s + Window - 1) <= Limit

(* The token bucket never grants more than a full bucket and the tokens of *)
(* the replenishments in between, over all processes: a bucket whose item  *)
(* expired was full again.  A call that read the clock before the bucket   *)
(* it then finds was made, or makes one with the time it read, may lend    *)
(* itself the time in between, once for every bucket that is made anew.    *)
BucketWithinRate ==
  kind = "bucket" =>
    \A s, t \in Times :
      s <= t =>
        Over(granted, s, t) <= Limit
          + PerPeriod * ((t - s + Over(back, s, t) + Window - 1) \div Window)

(* The item to be locked, without which every call is refused for ever, is *)
(* missing only while the first constructor is busy, or when one died or   *)
(* threw before it was there: the others saw the state and added nothing.  *)
ShutOutOnlyByCutConstructor ==
  (\E p \in Procs : pc[p] = "idle") /\ "lock" \notin keys =>
    cut \/ \E p \in Procs : pc[p] = "ctor" /\ step[p] > 1
=============================================================================
