----------------------- MODULE HubLifetimeManagerProofs -----------------------
(***************************************************************************)
(* The SignalR backplane, for every set of servers, connections, HashSets  *)
(* and messages, however joining, leaving, going away, publishing, failing *)
(* and deleting the topic interleave: a connected server listens to its    *)
(* topic, who joined a group stays in it, who went away does not, and the  *)
(* members of a group get each message once.                               *)
(*                                                                         *)
(* The proof goes up in layers, each an invariant that uses those below:   *)
(* LinkInv of the servers' connections to the cache; SetShape, MsgShape    *)
(* and TopicShape, the parts of TypeOK; CallsInOrder, what a connection    *)
(* does at one time; MemberInv and GhostInv, what the calls that change a  *)
(* HashSet have in hand; OneServer, that no two servers share one; and     *)
(* ReachInv, what is known of a message on its way.                        *)
(***************************************************************************)
EXTENDS HubLifetimeManager, TLAPS

Connecting == {"topic", "subscribe"}

(* TypeOK, for the variables of the connection. *)
LinkShape ==
  /\ cache \in [Servers -> BOOLEAN]
  /\ guard \in [Servers -> Actors \cup {NoSet}]
  /\ sub \in [Servers -> {"null", "live", "lost"}]
  /\ pc \in [Actors -> {"off", "lock", "topic", "subscribe", "add", "on", "gone"}]

(* Whoever gets the topic or subscribes to it has _connectionLock of its   *)
(* server, and whoever has it does one of the two.                         *)
GuardIsHeld ==
  /\ \A a \in Actors : pc[a] \in Connecting => guard[ServerOf(a)] = a
  /\ \A s \in Servers : guard[s] # NoSet =>
       ServerOf(guard[s]) = s /\ pc[guard[s]] \in Connecting

LinkInv == LinkShape /\ GuardIsHeld /\ ConnectedMeansSubscribed

(* The steps of messages and of the topic leave the connections alone and  *)
(* take no subscription away.                                              *)
LEMMA SubscriptionsStay ==
  ASSUME LinkInv, UNCHANGED <<cache, guard, pc>>,
         sub' \in [Servers -> {"null", "live", "lost"}],
         \A s \in Servers : sub[s] # "null" => sub'[s] # "null"
  PROVE  LinkInv'
<1>1. LinkShape' /\ GuardIsHeld'
  BY DEF LinkInv, LinkShape, GuardIsHeld
<1>2. ConnectedMeansSubscribed'
  BY DEF LinkInv, ConnectedMeansSubscribed
<1> QED
  BY <1>1, <1>2 DEF LinkInv

(* A connection moves on to a place where it has nothing to do with the    *)
(* lock.                                                                   *)
LEMMA OthersConnect ==
  ASSUME LinkInv, NEW a \in Actors, pc[a] \notin Connecting,
         NEW l \in {"lock", "add", "on", "gone"}, Goto(a, l),
         UNCHANGED <<cache, guard, sub>>
  PROVE  LinkInv'
<1>1. pc' = [b \in Actors |-> IF b = a THEN l ELSE pc[b]]
  BY DEF LinkInv, LinkShape, Goto
<1>2. LinkShape' /\ GuardIsHeld'
  BY <1>1 DEF LinkInv, LinkShape, GuardIsHeld, Connecting
<1>3. ConnectedMeansSubscribed'
  BY DEF LinkInv, ConnectedMeansSubscribed
<1> QED
  BY <1>2, <1>3 DEF LinkInv

LEMMA LinkInvariant == Spec => []LinkInv
<1> USE HubAssumption
<1>1. Init => LinkInv
  BY DEF Init, LinkInv, LinkShape, GuardIsHeld, ConnectedMeansSubscribed, Connecting
<1>2. LinkInv /\ [Next]_vars => LinkInv'
  <2> SUFFICES ASSUME LinkInv, [Next]_vars
               PROVE  LinkInv'
    OBVIOUS
  <2>0. LinkShape /\ GuardIsHeld /\ ConnectedMeansSubscribed
    BY DEF LinkInv
  <2>1. \A a \in Actors : ServerOf(a) \in Servers /\ a # NoSet
    BY DEF Actors, ServerOf
  <2>2. ASSUME NEW a \in Actors, Link(a)
        PROVE  LinkInv'
    <3> DEFINE s == ServerOf(a)
    <3>0. s \in Servers /\ Done(a) \in {"on", "add"}
      BY <2>1 DEF Actors, Done
    <3>1. CASE Start(a)
      BY <3>1, <3>0, OthersConnect DEF Start, linkVars, Connecting
    <3>2. CASE GetCache(a) /\ cache[s]
      BY <3>2, <3>0, OthersConnect DEF GetCache, Connecting
    <3>3. CASE GetCache(a) /\ ~cache[s]
      <4>1. /\ pc' = [b \in Actors |-> IF b = a THEN "topic" ELSE pc[b]]
            /\ guard' = [t \in Servers |-> IF t = s THEN a ELSE guard[t]]
            /\ cache' = [t \in Servers |-> IF t = s THEN TRUE ELSE cache[t]]
            /\ guard[s] = NoSet
            /\ pc[a] = "lock"
            /\ UNCHANGED sub
        <5>1. /\ pc[a] = "lock" /\ guard[s] = NoSet /\ UNCHANGED sub
              /\ pc' = [pc EXCEPT ![a] = "topic"]
              /\ guard' = [guard EXCEPT ![s] = a]
              /\ cache' = [cache EXCEPT ![s] = TRUE]
          BY <3>3, Zenon DEF GetCache, Goto
        <5>2. DOMAIN pc = Actors /\ DOMAIN guard = Servers /\ DOMAIN cache = Servers
          BY <2>0 DEF LinkShape
        <5> HIDE DEF s
        <5> QED
          BY <5>1, <5>2
      <4>2. LinkShape'
        BY <4>1, <2>0, <3>0 DEF LinkShape
      <4>3. GuardIsHeld'
        <5>1. \A b \in Actors : pc'[b] \in Connecting => guard'[ServerOf(b)] = b
          BY <4>1, <2>0, <2>1, <3>0 DEF GuardIsHeld, Connecting
        <5>2. \A t \in Servers : guard'[t] # NoSet =>
                ServerOf(guard'[t]) = t /\ pc'[guard'[t]] \in Connecting
          BY <4>1, <2>0, <2>1, <3>0 DEF GuardIsHeld, LinkShape, Connecting
        <5> QED
          BY <5>1, <5>2 DEF GuardIsHeld
      <4>4. ConnectedMeansSubscribed'
        BY <4>1, <2>0, <2>1, <3>0 DEF ConnectedMeansSubscribed
      <4> QED
        BY <4>2, <4>3, <4>4 DEF LinkInv
    <3>4. CASE GetTopic(a)
      <4>1. /\ pc[a] = "topic"
            /\ pc' = [b \in Actors |-> IF b = a THEN "subscribe" ELSE pc[b]]
            /\ UNCHANGED <<cache, guard, sub>>
        BY <3>4, <2>0 DEF GetTopic, Goto, LinkShape
      <4>2. LinkShape' /\ GuardIsHeld'
        BY <4>1, <2>0, <3>0 DEF LinkShape, GuardIsHeld, Connecting
      <4>3. ConnectedMeansSubscribed'
        BY <4>1, <2>0 DEF ConnectedMeansSubscribed
      <4> QED
        BY <4>2, <4>3 DEF LinkInv
    <3>5. CASE CreateSubscription(a)
      <4>1. /\ pc[a] = "subscribe"
            /\ pc' = [b \in Actors |-> IF b = a THEN Done(a) ELSE pc[b]]
            /\ guard' = [t \in Servers |-> IF t = s THEN NoSet ELSE guard[t]]
            /\ sub' = [t \in Servers |-> IF t = s /\ sub[t] = "null" THEN "live" ELSE sub[t]]
            /\ UNCHANGED cache
        BY <3>5, <2>0 DEF CreateSubscription, Listen, Goto, LinkShape
      <4>2. LinkShape'
        BY <4>1, <2>0, <3>0 DEF LinkShape
      <4>3. GuardIsHeld'
        <5>1. \A b \in Actors : pc'[b] \in Connecting => guard'[ServerOf(b)] = b
          BY <4>1, <2>0, <2>1, <3>0 DEF GuardIsHeld, Connecting
        <5>2. \A t \in Servers : guard'[t] # NoSet =>
                ServerOf(guard'[t]) = t /\ pc'[guard'[t]] \in Connecting
          BY <4>1, <2>0, <2>1, <3>0 DEF GuardIsHeld, LinkShape, Connecting
        <5> QED
          BY <5>1, <5>2 DEF GuardIsHeld
      <4>4. ConnectedMeansSubscribed'
        BY <4>1, <2>0, <2>1, <3>0 DEF ConnectedMeansSubscribed
      <4> QED
        BY <4>2, <4>3, <4>4 DEF LinkInv
    <3>6. CASE ConnectFails(a)
      <4>1. /\ pc[a] \in Connecting \/ guard[s] = NoSet
            /\ pc' = [b \in Actors |-> IF b = a THEN Done(a) ELSE pc[b]]
            /\ guard' = [t \in Servers |-> IF t = s THEN NoSet ELSE guard[t]]
            /\ cache' = [t \in Servers |-> IF t = s THEN FALSE ELSE cache[t]]
            /\ UNCHANGED sub
        BY <3>6, <2>0 DEF ConnectFails, Goto, LinkShape, Connecting
      <4>2. LinkShape'
        BY <4>1, <2>0, <3>0 DEF LinkShape
      <4>3. GuardIsHeld'
        <5>1. \A b \in Actors : pc'[b] \in Connecting => guard'[ServerOf(b)] = b
          BY <4>1, <2>0, <2>1, <3>0 DEF GuardIsHeld, Connecting
        <5>2. \A t \in Servers : guard'[t] # NoSet =>
                ServerOf(guard'[t]) = t /\ pc'[guard'[t]] \in Connecting
          BY <4>1, <2>0, <2>1, <3>0 DEF GuardIsHeld, LinkShape, Connecting
        <5> QED
          BY <5>1, <5>2 DEF GuardIsHeld
      <4>4. ConnectedMeansSubscribed'
        BY <4>1, <2>0, <2>1, <3>0 DEF ConnectedMeansSubscribed
      <4> QED
        BY <4>2, <4>3, <4>4 DEF LinkInv
    <3> QED
      BY <2>2, <3>1, <3>2, <3>3, <3>4, <3>5, <3>6 DEF Link
  <2>3. ASSUME NEW c \in Conns, Call(c)
        PROVE  LinkInv'
    <3>1. c \in Actors
      BY DEF Actors
    <3>2. CASE AddConnection(c) \/ Disconnect(c)
      BY <3>1, <3>2, OthersConnect DEF AddConnection, Disconnect, linkVars, Connecting
    <3>3. CASE UNCHANGED <<linkVars, pc>>
      BY <3>3, <2>0, SubscriptionsStay DEF linkVars, LinkShape
    <3> QED
      BY <2>3, <3>2, <3>3 DEF Call, AddToGroup, RemoveFromGroup, TryAdd, FetchToAdd, Add
  <2>4. ASSUME NEW c \in Conns, NEW r \in Roles, Change(c, r)
        PROVE  LinkInv'
    <3>1. UNCHANGED <<linkVars, pc>>
      BY <2>4 DEF Change, FetchToRemove, Remove, Count, Drop, Clash
    <3> QED
      BY <3>1, <2>0, SubscriptionsStay DEF linkVars, LinkShape
  <2>5. ASSUME NEW m \in Msgs, Send(m)
        PROVE  LinkInv'
    <3>1. CASE Resubscribe(m)
      <4>1. /\ sub' = [t \in Servers |-> IF t = pub[m].by /\ sub[t] = "null"
                                         THEN "live" ELSE sub[t]]
            /\ UNCHANGED <<cache, guard, pc>>
        BY <3>1, <2>0 DEF Resubscribe, Listen, LinkShape
      <4> QED
        BY <4>1, <2>0, SubscriptionsStay DEF LinkShape
    <3>2. CASE ~Resubscribe(m)
      <4>1. UNCHANGED <<cache, guard, sub, pc>>
        BY <2>5, <3>2 DEF Send, Publish, Receive, Walk, WalkThrows, TryPublish, TopicIsGone,
                          PublishFails, linkVars
      <4> QED
        BY <4>1, <2>0, SubscriptionsStay DEF LinkShape
    <3> QED
      BY <3>1, <3>2
  <2>6. CASE DeleteTopic
    BY <2>6, <2>0, SubscriptionsStay DEF DeleteTopic, LinkShape
  <2>7. CASE UNCHANGED vars
    BY <2>7, <2>0, SubscriptionsStay DEF vars, linkVars, LinkShape
  <2> QED
    BY <2>2, <2>3, <2>4, <2>5, <2>6, <2>7 DEF Next
<1> QED
  BY <1>1, <1>2, PTL DEF Spec

(* EnsureNCacheServerConnection: a server with a connection to the cache   *)
(* also listens, unless somebody under _connectionLock is about to make it *)
(* listen; and a failed attempt takes the connection away again.           *)
THEOREM ConnectedServersListen == Spec => []ConnectedMeansSubscribed
<1>1. LinkInv => ConnectedMeansSubscribed
  BY DEF LinkInv
<1> QED
  BY <1>1, LinkInvariant, PTL

-----------------------------------------------------------------------------
Task == [at : {"none"} \cup Adding \cup Removing, set : Sets \cup {NoSet}]

HasSet(t) == t.at \in {"add", "remove", "count", "drop"}

SetShape ==
  /\ conns \subseteq Conns
  /\ group \in [Servers -> Sets \cup {NoSet}]
  /\ elems \in [Sets -> SUBSET Conns]
  /\ task \in [Conns -> [Roles -> Task]]
  /\ \A c \in Conns, r \in Roles : HasSet(task[c][r]) <=> task[c][r].set # NoSet
  /\ calls \in 0 .. MaxCalls
  /\ joined \subseteq Conns /\ shaken \subseteq Conns /\ late \subseteq Conns

(* One call is at t now. *)
Moves(c, r, t) ==
  /\ task' \in [Conns -> [Roles -> Task]]
  /\ \A d \in Conns, q \in Roles : task'[d][q] = IF d = c /\ q = r THEN t ELSE task[d][q]

LEMMA OneTaskMoves ==
  ASSUME SetShape, NEW c \in Conns, NEW r \in Roles, NEW t \in Task,
         task' = [task EXCEPT ![c][r] = t]
  PROVE  Moves(c, r, t)
BY DEF SetShape, Moves

LEMMA TasksAreTasks ==
  /\ "api" \in Roles /\ "bye" \in Roles
  /\ NoTask \in Task /\ ~HasSet(NoTask) /\ NoTask.set = NoSet /\ NoTask.at = "none"
  /\ \A at \in {"tryadd", "fetchadd", "fetch"} :
       /\ [at |-> at, set |-> NoSet] \in Task
       /\ ~HasSet([at |-> at, set |-> NoSet])
  /\ \A at \in {"add", "remove", "count", "drop"}, x \in Sets :
       [at |-> at, set |-> x] \in Task /\ HasSet([at |-> at, set |-> x])
BY DEF NoTask, Task, HasSet, Adding, Removing, Roles

(* What each step of a call makes of it. *)
LEMMA CallsMove ==
  ASSUME SetShape, NEW c \in Conns
  PROVE  /\ AddToGroup(c) => Moves(c, "api", [at |-> "tryadd", set |-> NoSet])
         /\ RemoveFromGroup(c) => Moves(c, "api", [at |-> "fetch", set |-> NoSet])
         /\ Disconnect(c) => Moves(c, "bye", [at |-> "fetch", set |-> NoSet])
         /\ TryAdd(c) => Moves(c, "api", [at |-> "fetchadd", set |-> NoSet])
         /\ FetchToAdd(c) => Moves(c, "api", IF Current(c) = NoSet THEN NoTask
                                             ELSE [at |-> "add", set |-> Current(c)])
         /\ Add(c) => Moves(c, "api", NoTask)
<1>1. task \in [Conns -> [Roles -> Task]] /\ "api" \in Roles /\ "bye" \in Roles
  BY DEF SetShape, Roles
<1>2. TryAdd(c) => Moves(c, "api", [at |-> "fetchadd", set |-> NoSet])
  <2> SUFFICES ASSUME TryAdd(c)
               PROVE  Moves(c, "api", [at |-> "fetchadd", set |-> NoSet])
    OBVIOUS
  <2>1. task[c]["api"] \in Task /\ task[c]["api"].at = "tryadd"
    BY <1>1 DEF TryAdd
  <2>2. task[c]["api"].set = NoSet
    BY <1>1, <2>1 DEF SetShape, HasSet
  <2>3. [task[c]["api"] EXCEPT !.at = "fetchadd"] = [at |-> "fetchadd", set |-> NoSet]
    BY <2>1, <2>2 DEF Task
  <2>4. task' = [task EXCEPT ![c]["api"] = [at |-> "fetchadd", set |-> NoSet]]
    BY <2>3 DEF TryAdd
  <2> QED
    BY <1>1, <2>4, TasksAreTasks, OneTaskMoves
<1>3. FetchToAdd(c) => Moves(c, "api", IF Current(c) = NoSet THEN NoTask
                                       ELSE [at |-> "add", set |-> Current(c)])
  <2>1. (IF Current(c) = NoSet THEN NoTask ELSE [at |-> "add", set |-> Current(c)]) \in Task
    BY HubAssumption, TasksAreTasks DEF SetShape, Current
  <2> QED
    BY <1>1, <2>1, OneTaskMoves DEF FetchToAdd
<1> QED
  BY <1>1, <1>2, <1>3, TasksAreTasks, OneTaskMoves
     DEF AddToGroup, RemoveFromGroup, Disconnect, Spawn, Add

LEMMA ChangesMove ==
  ASSUME SetShape, NEW c \in Conns, NEW r \in Roles
  PROVE  LET x == task[c][r].set IN
         /\ FetchToRemove(c, r) => Moves(c, r, IF Current(c) = NoSet THEN NoTask
                                               ELSE [at |-> "remove", set |-> Current(c)])
         /\ Remove(c, r) => x \in Sets /\ Moves(c, r, [at |-> "count", set |-> x])
         /\ Count(c, r) => x \in Sets /\ Moves(c, r, IF elems[x] = {} THEN [at |-> "drop", set |-> x]
                                                     ELSE NoTask)
         /\ Drop(c, r) => Moves(c, r, NoTask)
<1> DEFINE x == task[c][r].set
<1>1. task \in [Conns -> [Roles -> Task]] /\ task[c][r] \in Task
  BY DEF SetShape
<1>2. HasSet(task[c][r]) => x \in Sets
  BY <1>1 DEF SetShape, Task
<1>3. \A l \in {"count", "drop"} : [task[c][r] EXCEPT !.at = l] = [at |-> l, set |-> x]
  BY <1>1 DEF Task
<1>4. Remove(c, r) => x \in Sets /\ Moves(c, r, [at |-> "count", set |-> x])
  <2> SUFFICES ASSUME Remove(c, r)
               PROVE  x \in Sets /\ Moves(c, r, [at |-> "count", set |-> x])
    OBVIOUS
  <2>1. x \in Sets
    BY <1>2 DEF Remove, HasSet
  <2>2. task' = [task EXCEPT ![c][r] = [at |-> "count", set |-> x]]
    BY <1>3 DEF Remove
  <2> QED
    BY <2>1, <2>2, TasksAreTasks, OneTaskMoves
<1>5. Count(c, r) => x \in Sets /\ Moves(c, r, IF elems[x] = {} THEN [at |-> "drop", set |-> x] ELSE NoTask)
  <2> SUFFICES ASSUME Count(c, r)
               PROVE  x \in Sets /\ Moves(c, r, IF elems[x] = {} THEN [at |-> "drop", set |-> x] ELSE NoTask)
    OBVIOUS
  <2>1. x \in Sets
    BY <1>2 DEF Count, HasSet
  <2>2. task' = [task EXCEPT ![c][r] = IF elems[x] = {} THEN [at |-> "drop", set |-> x] ELSE NoTask]
    BY <1>1, <1>3 DEF Count
  <2>3. (IF elems[x] = {} THEN [at |-> "drop", set |-> x] ELSE NoTask) \in Task
    BY <2>1, TasksAreTasks
  <2> QED
    BY <2>1, <2>2, <2>3, OneTaskMoves
<1>6. FetchToRemove(c, r) => Moves(c, r, IF Current(c) = NoSet THEN NoTask
                                         ELSE [at |-> "remove", set |-> Current(c)])
  <2>1. (IF Current(c) = NoSet THEN NoTask ELSE [at |-> "remove", set |-> Current(c)]) \in Task
    BY HubAssumption, TasksAreTasks DEF SetShape, Current
  <2> QED
    BY <1>1, <2>1, OneTaskMoves DEF FetchToRemove
<1> QED
  BY <1>1, <1>4, <1>5, <1>6, TasksAreTasks, OneTaskMoves DEF Drop

(* Both calls of a clash are over the set they had. *)
Clashed(x, t) == IF t.at = "add" THEN NoTask ELSE [at |-> "count", set |-> x]

LEMMA ClashMoves ==
  ASSUME SetShape, NEW c \in Conns, NEW r \in Roles, NEW d \in Conns, NEW q \in Roles,
         Clash(c, r, d, q)
  PROVE  LET x == task[c][r].set IN
         /\ x \in Sets /\ task[d][q].set = x
         /\ task[c][r].at \in {"add", "remove"} /\ task[d][q].at \in {"add", "remove"}
         /\ \A e \in Conns, p \in Roles :
              task'[e][p] = IF <<e, p>> \in {<<c, r>>, <<d, q>>} THEN Clashed(x, task[e][p])
                            ELSE task[e][p]
         /\ task' \in [Conns -> [Roles -> Task]]
<1> DEFINE x == task[c][r].set
<1>1. /\ task \in [Conns -> [Roles -> Task]] /\ task[c][r] \in Task
      /\ task[c][r].at \in {"add", "remove"} /\ task[d][q].at \in {"add", "remove"}
      /\ task[d][q].set = x
  BY DEF SetShape, Clash, Writes
<1>2. x \in Sets
  BY <1>1 DEF SetShape, Task, HasSet
<1>3. Clashed(x, task[c][r]) \in Task /\ Clashed(x, task[d][q]) \in Task
  BY <1>2, TasksAreTasks DEF Clashed
<1>4. task' = [task EXCEPT ![c][r] = Clashed(x, task[c][r]), ![d][q] = Clashed(x, task[d][q])]
  BY DEF Clash, Clashed
<1>5. /\ \A e \in Conns, p \in Roles :
           task'[e][p] = IF <<e, p>> \in {<<c, r>>, <<d, q>>} THEN Clashed(x, task[e][p])
                         ELSE task[e][p]
      /\ task' \in [Conns -> [Roles -> Task]]
  BY <1>1, <1>3, <1>4
<1> QED
  BY <1>1, <1>2, <1>5

(* What the steps of connections and messages leave alone. *)
LEMMA WhoTouchesTheSets ==
  /\ \A a \in Actors : Link(a) => UNCHANGED <<conns, setVars, msgVars, history>>
  /\ \A c \in Conns : AddConnection(c) => UNCHANGED <<setVars, msgVars, history>>
  /\ \A m \in Msgs : Send(m) => UNCHANGED <<conns, setVars, pc, joined, shaken, late>>
  /\ DeleteTopic => UNCHANGED <<conns, setVars, msgVars, history, pc>>
BY DEF Link, Start, GetCache, GetTopic, CreateSubscription, ConnectFails, AddConnection,
       Send, Publish, Receive, Walk, WalkThrows, TryPublish, TopicIsGone, Resubscribe,
       PublishFails, DeleteTopic, history

LEMMA SetsKeepShape == Spec => []SetShape
<1> USE HubAssumption
<1>1. Init => SetShape
  BY TasksAreTasks DEF Init, SetShape
<1>2. SetShape /\ [Next]_vars => SetShape'
  <2> SUFFICES ASSUME SetShape, [Next]_vars
               PROVE  SetShape'
    OBVIOUS
  <2>0. /\ conns \subseteq Conns
        /\ group \in [Servers -> Sets \cup {NoSet}] /\ elems \in [Sets -> SUBSET Conns]
        /\ task \in [Conns -> [Roles -> Task]]
        /\ \A c \in Conns, r \in Roles : HasSet(task[c][r]) <=> task[c][r].set # NoSet
        /\ calls \in 0 .. MaxCalls
        /\ joined \subseteq Conns /\ shaken \subseteq Conns /\ late \subseteq Conns
        /\ \A c \in Conns : Current(c) \in Sets \cup {NoSet}
        /\ MaxCalls \in Nat
    BY DEF SetShape, Current
  <2>1. ASSUME NEW c \in Conns, NEW r \in Roles, NEW t \in Task,
               HasSet(t) <=> t.set # NoSet,
               Moves(c, r, t)
        PROVE  /\ task' \in [Conns -> [Roles -> Task]]
               /\ \A d \in Conns, q \in Roles : HasSet(task'[d][q]) <=> task'[d][q].set # NoSet
    BY <2>0, <2>1 DEF Moves
  <2>2. \A x \in Sets \cup {NoSet}, at \in {"add", "remove", "count", "drop"} :
          LET t == IF x = NoSet THEN NoTask ELSE [at |-> at, set |-> x] IN
          t \in Task /\ (HasSet(t) <=> t.set # NoSet)
    BY TasksAreTasks
  <2>3. ASSUME UNCHANGED <<group, elems, calls, joined, shaken, late, task>>,
               conns' \subseteq Conns
        PROVE  SetShape'
    BY <2>0, <2>3 DEF SetShape
  <2>4. ASSUME NEW c \in Conns, Call(c)
        PROVE  SetShape'
    <3>0. "api" \in Roles /\ "bye" \in Roles
      BY TasksAreTasks
    <3>1. CASE AddConnection(c)
      BY <2>0, <2>3, <3>1, WhoTouchesTheSets DEF AddConnection, setVars, history
    <3>2. CASE AddToGroup(c)
      <4>1. Moves(c, "api", [at |-> "tryadd", set |-> NoSet])
        BY <3>2, CallsMove
      <4> QED
        BY <2>0, <2>1, <3>0, <3>2, <4>1, TasksAreTasks DEF AddToGroup, SetShape
    <3>3. CASE RemoveFromGroup(c)
      <4>1. Moves(c, "api", [at |-> "fetch", set |-> NoSet])
        BY <3>3, CallsMove
      <4> QED
        BY <2>0, <2>1, <3>0, <3>3, <4>1, TasksAreTasks DEF RemoveFromGroup, SetShape
    <3>4. CASE Disconnect(c)
      <4>1. Moves(c, "bye", [at |-> "fetch", set |-> NoSet])
        BY <3>4, CallsMove
      <4> QED
        BY <2>0, <2>1, <3>0, <3>4, <4>1, TasksAreTasks DEF Disconnect, SetShape
    <3>5. CASE TryAdd(c)
      <4>1. Moves(c, "api", [at |-> "fetchadd", set |-> NoSet])
        BY <3>5, CallsMove
      <4>2. group' \in [Servers -> Sets \cup {NoSet}] /\ elems' \in [Sets -> SUBSET Conns]
        <5>1. CASE UNCHANGED <<group, elems>>
          BY <2>0, <5>1
        <5>2. ASSUME NEW x \in Sets,
                     group' = [group EXCEPT ![Home[c]] = x],
                     elems' = [elems EXCEPT ![x] = {}]
              PROVE  /\ group' \in [Servers -> Sets \cup {NoSet}]
                     /\ elems' \in [Sets -> SUBSET Conns]
          BY <2>0, <5>2
        <5> QED
          BY <3>5, <5>1, <5>2 DEF TryAdd
      <4>3. UNCHANGED <<conns, joined, shaken>>
        BY <3>5 DEF TryAdd, history
      <4>4. /\ task' \in [Conns -> [Roles -> Task]]
            /\ \A d \in Conns, r \in Roles : HasSet(task'[d][r]) <=> task'[d][r].set # NoSet
        BY <2>1, <4>1, TasksAreTasks
      <4>5. calls' \in 0 .. MaxCalls /\ late' \subseteq Conns
        BY <2>0, <3>5 DEF TryAdd, history
      <4> QED
        BY <2>0, <4>2, <4>3, <4>4, <4>5 DEF SetShape
    <3>6. CASE FetchToAdd(c)
      <4>1. Moves(c, "api", IF Current(c) = NoSet THEN NoTask ELSE [at |-> "add", set |-> Current(c)])
        BY <3>6, CallsMove
      <4> QED
        BY <2>0, <2>1, <2>2, <3>0, <3>6, <4>1 DEF FetchToAdd, SetShape, history
    <3>7. CASE Add(c)
      <4>1. Moves(c, "api", NoTask)
        BY <3>7, CallsMove
      <4>2. elems' \in [Sets -> SUBSET Conns]
        BY <2>0, <3>7 DEF Add
      <4>3. joined' \subseteq Conns /\ shaken' \subseteq Conns
        BY <2>0, <3>7 DEF Add
      <4> QED
        BY <2>0, <2>1, <3>0, <3>7, <4>1, <4>2, <4>3, TasksAreTasks DEF Add, SetShape
    <3> QED
      BY <2>4, <3>1, <3>2, <3>3, <3>4, <3>5, <3>6, <3>7 DEF Call
  <2>5. ASSUME NEW c \in Conns, NEW r \in Roles, Change(c, r)
        PROVE  SetShape'
    <3> DEFINE x == task[c][r].set
    <3>1. CASE FetchToRemove(c, r)
      <4>1. Moves(c, r, IF Current(c) = NoSet THEN NoTask ELSE [at |-> "remove", set |-> Current(c)])
        BY <3>1, ChangesMove
      <4> QED
        BY <2>0, <2>1, <2>2, <3>1, <4>1 DEF FetchToRemove, SetShape, history
    <3>2. CASE Remove(c, r)
      <4>1. x \in Sets /\ Moves(c, r, [at |-> "count", set |-> x])
        BY <3>2, ChangesMove
      <4>2. elems' \in [Sets -> SUBSET Conns]
        BY <2>0, <3>2 DEF Remove
      <4> QED
        BY <2>0, <2>1, <2>2, <3>2, <4>1, <4>2 DEF Remove, SetShape, history
    <3>3. CASE Count(c, r)
      <4>1. x \in Sets /\ Moves(c, r, IF elems[x] = {} THEN [at |-> "drop", set |-> x] ELSE NoTask)
        BY <3>3, ChangesMove
      <4> QED
        BY <2>0, <2>1, <2>2, <3>3, <4>1, TasksAreTasks DEF Count, SetShape, history
    <3>4. CASE Drop(c, r)
      <4>1. Moves(c, r, NoTask)
        BY <3>4, ChangesMove
      <4>2. group' \in [Servers -> Sets \cup {NoSet}] /\ shaken' \subseteq Conns
        BY <2>0, <3>4 DEF Drop, Others
      <4> QED
        BY <2>0, <2>1, <3>4, <4>1, <4>2, TasksAreTasks DEF Drop, SetShape
    <3>5. ASSUME NEW d \in Conns, NEW q \in Roles, Clash(c, r, d, q)
          PROVE  SetShape'
      <4>1. /\ x \in Sets /\ task' \in [Conns -> [Roles -> Task]]
            /\ \A e \in Conns, p \in Roles :
                 task'[e][p] = IF <<e, p>> \in {<<c, r>>, <<d, q>>} THEN Clashed(x, task[e][p])
                               ELSE task[e][p]
        BY <3>5, ClashMoves
      <4>2. elems' \in [Sets -> SUBSET Conns]
        BY <2>0, <3>5, <4>1 DEF Clash
      <4>3. joined' \subseteq Conns /\ shaken' \subseteq Conns
        BY <2>0, <3>5, <4>1 DEF Clash
      <4>4. \A e \in Conns, p \in Roles : HasSet(task'[e][p]) <=> task'[e][p].set # NoSet
        <5>1. \A t \in Task : HasSet(Clashed(x, t)) <=> Clashed(x, t).set # NoSet
          BY <4>1, TasksAreTasks DEF Clashed
        <5>2. \A e \in Conns, p \in Roles : task[e][p] \in Task
          BY <2>0
        <5>3. ASSUME NEW e \in Conns, NEW p \in Roles
              PROVE  HasSet(task'[e][p]) <=> task'[e][p].set # NoSet
          <6>1. task'[e][p] = task[e][p] \/ task'[e][p] = Clashed(x, task[e][p])
            BY <4>1
          <6> HIDE DEF x
          <6> QED
            BY <2>0, <5>1, <5>2, <6>1
        <5> QED
          BY <5>3
      <4> QED
        BY <2>0, <3>5, <4>1, <4>2, <4>3, <4>4 DEF Clash, SetShape
    <3> QED
      BY <2>5, <3>1, <3>2, <3>3, <3>4, <3>5 DEF Change
  <2>6. ASSUME NEW a \in Actors, Link(a)
        PROVE  SetShape'
    BY <2>0, <2>3, <2>6, WhoTouchesTheSets DEF setVars, history
  <2>7. ASSUME NEW m \in Msgs, Send(m)
        PROVE  SetShape'
    BY <2>0, <2>3, <2>7, WhoTouchesTheSets DEF setVars, history
  <2>8. CASE DeleteTopic \/ UNCHANGED vars
    BY <2>0, <2>3, <2>8, WhoTouchesTheSets DEF setVars, history, vars
  <2> QED
    BY <2>4, <2>5, <2>6, <2>7, <2>8 DEF Next
<1> QED
  BY <1>1, <1>2, PTL DEF Spec

-----------------------------------------------------------------------------
(* A subscription to the topic there is needs one: who deletes the topic   *)
(* takes all subscriptions along.                                          *)
TopicShape ==
  /\ topicOf \in [Servers -> BOOLEAN]
  /\ made \in 0 .. MaxTopics
  /\ topic \in BOOLEAN
  /\ (\E s \in Servers : sub[s] = "live") => topic
  /\ faults \in 0 .. MaxFaults

(* TypeOK, for the messages; a Publish that is tried has a try left. *)
MsgShape ==
  /\ pub \in [Msgs -> [at : {"none", "try", "resubscribe", "done"}, by : Servers, tries : 0 .. 3]]
  /\ \A m \in Msgs : pub[m].at = "try" => pub[m].tries >= 1
  /\ inbox \in [Servers -> SUBSET Msgs]
  /\ cb \in [Servers -> [Msgs -> Sets \cup {NoSet}]]
  /\ got \in [Msgs -> [Conns -> Nat]]
  /\ due \in [Msgs -> SUBSET Conns]

(* What the calls of the connections do to the messages: nothing, but that *)
(* nobody owes one to a connection that joins anew, leaves or goes away.   *)
LEMMA CallsAndMessages ==
  /\ \A c \in Conns : Call(c) => /\ UNCHANGED msgVars
                                 /\ UNCHANGED due \/ due' = [m \in Msgs |-> due[m] \ {c}]
  /\ \A c \in Conns, r \in Roles : Change(c, r) => UNCHANGED <<msgVars, due>>
<1>1. ASSUME NEW c \in Conns, Call(c)
      PROVE  UNCHANGED msgVars /\ (UNCHANGED due \/ due' = [m \in Msgs |-> due[m] \ {c}])
  <2>1. CASE AddToGroup(c) \/ RemoveFromGroup(c) \/ Disconnect(c)
    BY <2>1, Zenon DEF AddToGroup, RemoveFromGroup, Disconnect
  <2>2. CASE AddConnection(c) \/ TryAdd(c) \/ FetchToAdd(c) \/ Add(c)
    BY <2>2 DEF AddConnection, TryAdd, FetchToAdd, Add, history
  <2> QED
    BY <1>1, <2>1, <2>2 DEF Call
<1>2. ASSUME NEW c \in Conns, NEW r \in Roles, Change(c, r)
      PROVE  UNCHANGED <<msgVars, due>>
  BY <1>2 DEF Change, FetchToRemove, Remove, Count, Drop, Clash, history
<1> QED
  BY <1>1, <1>2

LEMMA MessagesKeepShape == Spec => []MsgShape
<1> USE HubAssumption
<1>1. Init => MsgShape
  <2>1. NoPub \in [at : {"none", "try", "resubscribe", "done"}, by : Servers, tries : 0 .. 3]
    BY DEF NoPub
  <2> QED
    BY <2>1 DEF Init, MsgShape, NoPub
<1>2. SetShape /\ MsgShape /\ [Next]_vars => MsgShape'
  <2> SUFFICES ASSUME SetShape, MsgShape, [Next]_vars
               PROVE  MsgShape'
    OBVIOUS
  <2> DEFINE Pubs == [at : {"none", "try", "resubscribe", "done"}, by : Servers, tries : 0 .. 3]
  <2>0. /\ pub \in [Msgs -> Pubs] /\ \A m \in Msgs : pub[m].at = "try" => pub[m].tries >= 1
        /\ inbox \in [Servers -> SUBSET Msgs] /\ cb \in [Servers -> [Msgs -> Sets \cup {NoSet}]]
        /\ got \in [Msgs -> [Conns -> Nat]] /\ due \in [Msgs -> SUBSET Conns]
        /\ group \in [Servers -> Sets \cup {NoSet}] /\ joined \subseteq Conns
    BY DEF MsgShape, SetShape
  <2>1. ASSUME UNCHANGED msgVars,
               UNCHANGED due \/ \E c \in Conns : due' = [m \in Msgs |-> due[m] \ {c}]
        PROVE  MsgShape'
    <3>1. due' \in [Msgs -> SUBSET Conns]
      BY <2>0, <2>1
    <3> QED
      BY <2>0, <2>1, <3>1 DEF MsgShape, msgVars
  <2>2. ASSUME NEW m \in Msgs, NEW p \in Pubs, p.at = "try" => p.tries >= 1,
               pub' = [pub EXCEPT ![m] = p],
               UNCHANGED inbox \/ Deliver(m), UNCHANGED <<cb, got>>,
               UNCHANGED due \/ \E S \in SUBSET Conns : due' = [due EXCEPT ![m] = S]
        PROVE  MsgShape'
    <3>1. pub' \in [Msgs -> Pubs] /\ \A n \in Msgs : pub'[n].at = "try" => pub'[n].tries >= 1
      BY <2>0, <2>2
    <3>2. inbox' \in [Servers -> SUBSET Msgs]
      <4>1. CASE UNCHANGED inbox
        BY <2>0, <4>1
      <4>2. CASE Deliver(m)
        BY <2>0, <4>2 DEF Deliver
      <4> QED
        BY <2>2, <4>1, <4>2
    <3>3. due' \in [Msgs -> SUBSET Conns]
      <4>1. CASE UNCHANGED due
        BY <2>0, <4>1
      <4>2. ASSUME NEW S \in SUBSET Conns, due' = [due EXCEPT ![m] = S]
            PROVE  due' \in [Msgs -> SUBSET Conns]
        BY <2>0, <4>2
      <4> QED
        BY <2>2, <4>1, <4>2
    <3> QED
      BY <2>0, <2>2, <3>1, <3>2, <3>3 DEF MsgShape
  <2>3. ASSUME NEW m \in Msgs, NEW s \in Servers, NEW to, WriteTo(s, m, to), UNCHANGED pub,
               UNCHANGED due \/ \E S : due' = [due EXCEPT ![m] = @ \ S]
        PROVE  MsgShape'
    <3>1. got' \in [Msgs -> [Conns -> Nat]]
      BY <2>0, <2>3 DEF WriteTo
    <3>2. inbox' \in [Servers -> SUBSET Msgs] /\ cb' \in [Servers -> [Msgs -> Sets \cup {NoSet}]]
      BY <2>0, <2>3 DEF WriteTo
    <3>3. due' \in [Msgs -> SUBSET Conns]
      <4>1. CASE UNCHANGED due
        BY <2>0, <4>1
      <4>2. ASSUME NEW S, due' = [due EXCEPT ![m] = due[m] \ S]
            PROVE  due' \in [Msgs -> SUBSET Conns]
        <5>1. due[m] \ S \in SUBSET Conns
          BY <2>0
        <5> QED
          BY <2>0, <4>2, <5>1
      <4> QED
        BY <2>3, <4>1, <4>2
    <3> QED
      BY <2>0, <2>3, <3>1, <3>2, <3>3 DEF MsgShape
  <2>4. ASSUME NEW m \in Msgs, Send(m)
        PROVE  MsgShape'
    <3>0. /\ pub[m] \in Pubs
          /\ \A at \in {"none", "try", "resubscribe", "done"}, k \in 0 .. 3 :
               LET p == [at |-> at, by |-> pub[m].by, tries |-> k] IN
               p \in Pubs /\ p.at = at /\ p.tries = k
      BY <2>0
    <3>00. /\ pub[m].tries \in 0 .. 3
           /\ [pub[m] EXCEPT !.at = "resubscribe", !.tries = pub[m].tries - 1]
                = [at |-> "resubscribe", by |-> pub[m].by, tries |-> pub[m].tries - 1]
           /\ \A at \in {"none", "try", "resubscribe", "done"} :
                [pub[m] EXCEPT !.at = at] = [at |-> at, by |-> pub[m].by, tries |-> pub[m].tries]
      <4> DEFINE p == pub[m]
      <4>1. p \in [at : {"none", "try", "resubscribe", "done"}, by : Servers, tries : 0 .. 3]
        BY <3>0 DEF Pubs
      <4> HIDE DEF p
      <4>2. p.tries \in 0 .. 3
        BY <4>1
      <4>3. \A at \in {"none", "try", "resubscribe", "done"} :
              [p EXCEPT !.at = at] = [at |-> at, by |-> p.by, tries |-> p.tries]
        BY <4>1
      <4>4. [p EXCEPT !.at = "resubscribe", !.tries = p.tries - 1]
              = [at |-> "resubscribe", by |-> p.by, tries |-> p.tries - 1]
        <5>1. [p EXCEPT !.at = "resubscribe", !.tries = p.tries - 1]
                = [[p EXCEPT !.at = "resubscribe"] EXCEPT !.tries = p.tries - 1]
          OBVIOUS
        <5>2. [[at |-> "resubscribe", by |-> p.by, tries |-> p.tries] EXCEPT !.tries = p.tries - 1]
                = [at |-> "resubscribe", by |-> p.by, tries |-> p.tries - 1]
          OBVIOUS
        <5> QED
          BY <4>3, <5>1, <5>2
      <4> QED
        BY <4>2, <4>3, <4>4 DEF p
    <3> HIDE DEF Pubs
    <3>1. ASSUME NEW s \in Servers, Publish(m, s)
          PROVE  MsgShape'
      <4> DEFINE p == [at |-> "try", by |-> s, tries |-> 3]
      <4>1. p \in Pubs /\ p.tries >= 1
        BY DEF Pubs
      <4>2. pub' = [pub EXCEPT ![m] = p]
        BY <3>1 DEF Publish
      <4> HIDE DEF p
      <4> QED
        BY <2>2, <3>1, <4>1, <4>2 DEF Publish, history
    <3>2. ASSUME NEW s \in Servers, Receive(s, m)
          PROVE  MsgShape'
      <4>1. inbox' \in [Servers -> SUBSET Msgs] /\ cb' \in [Servers -> [Msgs -> Sets \cup {NoSet}]]
        <5>1. CASE group[s] = NoSet
          <6>1. inbox' = [inbox EXCEPT ![s] = inbox[s] \ {m}] /\ UNCHANGED cb
            BY <3>2, <5>1 DEF Receive
          <6> QED
            BY <2>0, <6>1
        <5>2. CASE group[s] # NoSet
          <6>1. group[s] \in Sets \cup {NoSet} /\ cb' = [cb EXCEPT ![s][m] = group[s]] /\ UNCHANGED inbox
            BY <2>0, <3>2, <5>2 DEF Receive
          <6> QED
            BY <2>0, <6>1
        <5> QED
          BY <5>1, <5>2
      <4> QED
        BY <2>0, <3>2, <4>1 DEF Receive, MsgShape, history
    <3>3. ASSUME NEW s \in Servers, Walk(s, m) \/ WalkThrows(s, m)
          PROVE  MsgShape'
      BY <2>3, <3>3 DEF Walk, WalkThrows, history
    <3>4. CASE TryPublish(m)
      <4> DEFINE p == [at |-> "done", by |-> pub[m].by, tries |-> pub[m].tries]
      <4>1. pub' = [pub EXCEPT ![m] = p]
        BY <3>00, <3>4 DEF TryPublish
      <4>3. p \in Pubs /\ p.at = "done"
        BY <3>0, <3>00
      <4> HIDE DEF p
      <4>2. {c \in joined : sub[Home[c]] = "live"} \in SUBSET Conns
        BY <2>0
      <4> QED
        BY <2>2, <3>4, <4>1, <4>2, <4>3 DEF TryPublish
    <3>5. CASE TopicIsGone(m)
      <4> DEFINE p == [at |-> "resubscribe", by |-> pub[m].by, tries |-> pub[m].tries - 1]
      <4>1. pub' = [pub EXCEPT ![m] = p]
        BY <3>00, <3>5 DEF TopicIsGone
      <4>2. pub[m].tries - 1 \in 0 .. 3
        <5>1. pub[m].at = "try"
          BY <3>5 DEF TopicIsGone
        <5>2. pub[m].tries >= 1
          BY <2>0, <5>1
        <5> QED
          BY <3>00, <5>2
      <4>3. p \in Pubs /\ p.at = "resubscribe"
        BY <3>0, <4>2
      <4> HIDE DEF p
      <4> QED
        BY <2>2, <3>5, <4>1, <4>3 DEF TopicIsGone, history
    <3>6. CASE Resubscribe(m)
      <4> DEFINE at == IF pub[m].tries >= 1 THEN "try" ELSE "done"
      <4> DEFINE p == [at |-> at, by |-> pub[m].by, tries |-> pub[m].tries]
      <4>1. pub' = [pub EXCEPT ![m] = p]
        BY <3>00, <3>6 DEF Resubscribe
      <4>2. p \in Pubs /\ p.at = at /\ p.tries = pub[m].tries
        BY <3>0, <3>00
      <4>3. p.at = "try" => p.tries >= 1
        BY <4>2
      <4> HIDE DEF p, at
      <4> QED
        BY <2>2, <3>6, <4>1, <4>2, <4>3 DEF Resubscribe, history
    <3>7. CASE PublishFails(m)
      <4> DEFINE p == [at |-> "done", by |-> pub[m].by, tries |-> pub[m].tries]
      <4>1. pub' = [pub EXCEPT ![m] = p]
        BY <3>00, <3>7 DEF PublishFails
      <4>2. p \in Pubs /\ p.at = "done"
        BY <3>0, <3>00
      <4> HIDE DEF p
      <4> QED
        BY <2>2, <3>7, <4>1, <4>2 DEF PublishFails, history
    <3> QED
      BY <2>4, <3>1, <3>2, <3>3, <3>4, <3>5, <3>6, <3>7 DEF Send
  <2>5. ASSUME NEW a \in Actors, Link(a)
        PROVE  MsgShape'
    BY <2>1, <2>5, WhoTouchesTheSets DEF history
  <2>6. ASSUME NEW c \in Conns, NEW r \in Roles, Call(c) \/ Change(c, r)
        PROVE  MsgShape'
    BY <2>1, <2>6, CallsAndMessages
  <2>7. CASE DeleteTopic \/ UNCHANGED vars
    BY <2>1, <2>7, WhoTouchesTheSets DEF history, vars
  <2> QED
    BY <2>4, <2>5, <2>6, <2>7, TasksAreTasks DEF Next
<1> QED
  BY <1>1, <1>2, SetsKeepShape, PTL DEF Spec

LEMMA TopicKeepsShape == Spec => []TopicShape
<1> USE HubAssumption
<1>1. Init => TopicShape
  <2> SUFFICES ASSUME Init
               PROVE  TopicShape
    OBVIOUS
  <2>1. topicOf \in [Servers -> BOOLEAN] /\ topic \in BOOLEAN
    BY Zenon DEF Init
  <2> QED
    BY <2>1 DEF Init, TopicShape
<1>2. LinkInv /\ MsgShape /\ TopicShape /\ [Next]_vars => TopicShape'
  <2> SUFFICES ASSUME LinkInv, MsgShape, TopicShape, [Next]_vars
               PROVE  TopicShape'
    OBVIOUS
  <2>0. /\ sub \in [Servers -> {"null", "live", "lost"}]
        /\ \A a \in Actors : ServerOf(a) \in Servers
        /\ made \in 0 .. MaxTopics /\ faults \in 0 .. MaxFaults
        /\ MaxTopics \in Nat /\ MaxFaults \in Nat
    BY DEF LinkInv, LinkShape, ServerOf, Actors, TopicShape
  <2>1. ASSUME UNCHANGED <<topicOf, sub, topic, made>>,
               faults' = faults \/ (faults < MaxFaults /\ faults' = faults + 1)
        PROVE  TopicShape'
    BY <2>0, <2>1 DEF TopicShape
  <2>2. ASSUME NEW s \in Servers, TakeTopic(s), UNCHANGED faults, UNCHANGED sub \/ Listen(s)
        PROVE  TopicShape'
    <3>1. made' \in 0 .. MaxTopics
      BY <2>0, <2>2 DEF TakeTopic
    <3>2. topicOf' \in [Servers -> BOOLEAN] /\ topic' = TRUE
      BY <2>2 DEF TakeTopic, TopicShape
    <3> QED
      BY <2>0, <2>2, <3>1, <3>2 DEF TopicShape
  <2>3. ASSUME NEW a \in Actors, Link(a)
        PROVE  TopicShape'
    <3>1. CASE GetTopic(a)
      BY <2>0, <2>2, <3>1 DEF GetTopic
    <3>2. CASE CreateSubscription(a)
      BY <2>0, <3>2 DEF CreateSubscription, TopicShape, Listen
    <3>3. CASE Start(a) \/ GetCache(a) \/ ConnectFails(a)
      BY <2>1, <3>3, Zenon DEF Start, GetCache, ConnectFails, linkVars
    <3> QED
      BY <2>3, <3>1, <3>2, <3>3 DEF Link
  <2>4. ASSUME NEW m \in Msgs, Send(m)
        PROVE  TopicShape'
    <3>1. CASE Resubscribe(m)
      BY <2>2, <3>1 DEF Resubscribe, MsgShape
    <3>2. CASE ~Resubscribe(m)
      BY <2>1, <2>4, <3>2, Zenon
         DEF Send, Publish, Receive, Walk, WalkThrows, TryPublish, TopicIsGone,
                                     PublishFails, linkVars
    <3> QED
      BY <3>1, <3>2
  <2>5. CASE DeleteTopic
    <3>1. \A s \in Servers : sub'[s] # "live"
      BY <2>5 DEF DeleteTopic
    <3> QED
      BY <2>0, <2>5, <3>1 DEF DeleteTopic, TopicShape
  <2>6. ASSUME NEW c \in Conns, NEW r \in Roles, Call(c) \/ Change(c, r)
        PROVE  TopicShape'
    <3>1. UNCHANGED linkVars
      BY <2>6
         DEF Call, Change, AddConnection, AddToGroup, RemoveFromGroup, Disconnect,
             TryAdd, FetchToAdd, Add, FetchToRemove, Remove, Count, Drop, Clash
    <3> QED
      BY <2>1, <3>1 DEF linkVars
  <2>7. CASE UNCHANGED vars
    BY <2>1, <2>7 DEF vars, linkVars
  <2> QED
    BY <2>3, <2>4, <2>5, <2>6, <2>7, TasksAreTasks DEF Next
<1> QED
  BY <1>1, <1>2, LinkInvariant, MessagesKeepShape, PTL DEF Spec

(* Every variable keeps its type: what a call has of a set is one of the   *)
(* sets there are, a live subscription has a topic, and a Publish does not *)
(* run out of tries before it stops.                                       *)
THEOREM TypeCorrect == Spec => []TypeOK
<1>1. ASSUME LinkInv, TopicShape, SetShape, MsgShape
      PROVE  TypeOK
  <2>1. /\ cache \in [Servers -> BOOLEAN] /\ topicOf \in [Servers -> BOOLEAN] /\ topic \in BOOLEAN
        /\ guard \in [Servers -> Actors \cup {NoSet}]
    BY <1>1, Zenon DEF LinkInv, LinkShape, TopicShape
  <2>2. /\ sub \in [Servers -> {"null", "live", "lost"}]
        /\ pc \in [Actors -> {"off", "lock", "topic", "subscribe", "add", "on", "gone"}]
        /\ made \in 0 .. MaxTopics /\ faults \in 0 .. MaxFaults
        /\ (\E s \in Servers : sub[s] = "live") => topic
    BY <1>1 DEF LinkInv, LinkShape, TopicShape
  <2>3. /\ conns \subseteq Conns /\ calls \in 0 .. MaxCalls
        /\ group \in [Servers -> Sets \cup {NoSet}] /\ elems \in [Sets -> SUBSET Conns]
        /\ task \in [Conns -> [Roles -> [at : {"none"} \cup Adding \cup Removing, set : Sets \cup {NoSet}]]]
        /\ joined \subseteq Conns /\ shaken \subseteq Conns /\ late \subseteq Conns
        /\ \A c \in Conns, r \in Roles :
             task[c][r].at \in {"add", "remove", "count", "drop"} <=> task[c][r].set # NoSet
    BY <1>1 DEF SetShape, Task, HasSet
  <2> QED
    BY <1>1, <2>1, <2>2, <2>3 DEF TypeOK, MsgShape
<1> QED
  BY <1>1, LinkInvariant, SetsKeepShape, MessagesKeepShape, TopicKeepsShape, PTL

-----------------------------------------------------------------------------
(* A connection is on while it is in _connections, its OnDisconnectedAsync *)
(* task runs when it is gone only, and who has joined runs no call.        *)
CallsInOrder ==
  /\ joined \subseteq conns
  /\ \A c \in conns : pc[c] = "on"
  /\ \A c \in Conns : pc[c] # "gone" => task[c]["bye"].at = "none"
  /\ \A c \in joined : task[c]["api"].at = "none"

LEMMA CallsComeInOrder == Spec => []CallsInOrder
<1> USE HubAssumption
<1>1. Init => CallsInOrder
  BY TasksAreTasks DEF Init, CallsInOrder
<1>2. LinkInv /\ SetShape /\ CallsInOrder /\ [Next]_vars => CallsInOrder'
  <2> SUFFICES ASSUME LinkInv, SetShape, CallsInOrder, [Next]_vars
               PROVE  CallsInOrder'
    OBVIOUS
  <2>0. /\ pc \in [Actors -> {"off", "lock", "topic", "subscribe", "add", "on", "gone"}]
        /\ Conns \subseteq Actors /\ joined \subseteq Conns /\ conns \subseteq Conns
        /\ joined \subseteq conns /\ "api" \in Roles /\ "bye" \in Roles /\ NoTask.at = "none"
    BY TasksAreTasks DEF LinkInv, LinkShape, SetShape, Actors, CallsInOrder
  <2>1. ASSUME NEW c \in Conns, NEW r \in Roles, NEW t,
               \A d \in Conns, q \in Roles : <<d, q>> # <<c, r>> => task'[d][q] = task[d][q],
               task'[c][r] = t, r = "bye" => task[c][r].at # "none" \/ t.at = "none",
               r = "api" => c \notin joined' \/ t.at = "none",
               UNCHANGED <<pc, conns>>,
               joined' \subseteq joined \cup (IF r = "api" THEN {c} \cap conns ELSE {})
        PROVE  CallsInOrder'
    <3>1. \A d \in Conns : pc[d] # "gone" => task'[d]["bye"].at = "none"
      BY <2>0, <2>1 DEF CallsInOrder
    <3>2. \A d \in joined' : task'[d]["api"].at = "none"
      BY <2>0, <2>1 DEF CallsInOrder
    <3> QED
      BY <2>0, <2>1, <3>1, <3>2 DEF CallsInOrder
  <2>2. ASSUME NEW c \in Conns, Call(c)
        PROVE  CallsInOrder'
    <3>1. CASE AddConnection(c)
      <4>1. pc[c] = "add" /\ pc' = [pc EXCEPT ![c] = "on"] /\ conns' = conns \cup {c} /\ UNCHANGED <<task, joined>>
        BY <3>1 DEF AddConnection, Goto, setVars, history
      <4> QED
        BY <2>0, <4>1 DEF CallsInOrder
    <3>2. CASE AddToGroup(c) \/ RemoveFromGroup(c)
      <4>1. \E t \in Task : Moves(c, "api", t)
        BY <3>2, CallsMove, TasksAreTasks
      <4>2. joined' = joined \ {c} /\ UNCHANGED <<pc, conns>>
        BY <3>2 DEF AddToGroup, RemoveFromGroup
      <4> QED
        BY <2>0, <2>1, <4>1, <4>2 DEF Moves
    <3>3. CASE Disconnect(c)
      <4>1. Moves(c, "bye", [at |-> "fetch", set |-> NoSet])
        BY <3>3, CallsMove
      <4>2. /\ pc' = [pc EXCEPT ![c] = "gone"] /\ conns' = conns \ {c} /\ joined' = joined \ {c}
        BY <3>3 DEF Disconnect, Goto
      <4>3. /\ \A d \in Conns : pc'[d] = IF d = c THEN "gone" ELSE pc[d]
            /\ \A d \in Conns \ {c} : task'[d]["bye"] = task[d]["bye"]
            /\ \A d \in Conns : task'[d]["api"] = task[d]["api"]
        BY <2>0, <4>1, <4>2 DEF Moves
      <4> QED
        BY <2>0, <4>2, <4>3 DEF CallsInOrder
    <3>4. CASE TryAdd(c) \/ FetchToAdd(c)
      <4>1. \E t : Moves(c, "api", t)
        BY <3>4, CallsMove
      <4>2. UNCHANGED <<pc, conns, joined>> /\ task[c]["api"].at # "none"
        BY <3>4 DEF TryAdd, FetchToAdd, history
      <4>3. c \notin joined
        BY <4>2 DEF CallsInOrder
      <4> QED
        BY <2>0, <2>1, <4>1, <4>2, <4>3 DEF Moves
    <3>5. CASE Add(c)
      <4>1. Moves(c, "api", NoTask)
        BY <3>5, CallsMove
      <4>2. joined' = joined \cup ({c} \cap conns) /\ UNCHANGED <<pc, conns>>
        BY <3>5 DEF Add
      <4> QED
        BY <2>0, <2>1, <4>1, <4>2 DEF Moves
    <3> QED
      BY <2>2, <3>1, <3>2, <3>3, <3>4, <3>5 DEF Call
  <2>3. ASSUME NEW c \in Conns, NEW r \in Roles, Change(c, r)
        PROVE  CallsInOrder'
    <3>1. CASE FetchToRemove(c, r) \/ Remove(c, r) \/ Count(c, r) \/ Drop(c, r)
      <4>1. \E t : Moves(c, r, t)
        BY <3>1, ChangesMove
      <4>2. UNCHANGED <<pc, conns, joined>> /\ task[c][r].at # "none"
        BY <3>1 DEF FetchToRemove, Remove, Count, Drop, history
      <4>3. r = "api" => c \notin joined
        BY <4>2 DEF CallsInOrder
      <4> QED
        BY <2>0, <2>1, <4>1, <4>2, <4>3 DEF Moves
    <3>2. ASSUME NEW d \in Conns, NEW q \in Roles, Clash(c, r, d, q)
          PROVE  CallsInOrder'
      <4> DEFINE x == task[c][r].set
      <4>1. /\ task[c][r].at \in {"add", "remove"} /\ task[d][q].at \in {"add", "remove"}
            /\ \A e \in Conns, p \in Roles :
                 task'[e][p] = IF <<e, p>> \in {<<c, r>>, <<d, q>>} THEN Clashed(x, task[e][p])
                               ELSE task[e][p]
        BY <3>2, ClashMoves
      <4>2. /\ joined' = joined \cup {e \in {c, d} \cap conns : task[e]["api"].at = "add"}
            /\ UNCHANGED <<pc, conns>>
        BY <3>2 DEF Clash
      <4>3. \A e \in Conns : pc[e] # "gone" => task'[e]["bye"].at = "none"
        BY <2>0, <4>1 DEF CallsInOrder
      <4>4. ASSUME NEW e \in joined'
            PROVE  task'[e]["api"].at = "none"
        <5>1. CASE e \in joined
          BY <2>0, <4>1, <5>1 DEF CallsInOrder
        <5>2. CASE e \in {c, d} \cap conns /\ task[e]["api"].at = "add"
          <6>1. task[e]["bye"].at = "none"
            BY <2>0, <5>2 DEF CallsInOrder
          <6>2. <<e, "api">> \in {<<c, r>>, <<d, q>>}
            BY <2>0, <4>1, <5>2, <6>1 DEF Roles
          <6>3. task'[e]["api"] = Clashed(x, task[e]["api"])
            BY <2>0, <4>1, <5>2, <6>2
          <6> QED
            BY <2>0, <5>2, <6>3 DEF Clashed
        <5> QED
          BY <4>2, <5>1, <5>2
      <4> QED
        BY <2>0, <4>2, <4>3, <4>4 DEF CallsInOrder
    <3> QED
      BY <2>3, <3>1, <3>2 DEF Change
  <2>4. ASSUME NEW a \in Actors, Link(a)
        PROVE  CallsInOrder'
    <3>1. UNCHANGED <<conns, task, joined>>
      BY <2>4, WhoTouchesTheSets DEF setVars, history
    <3>2. pc[a] \notin {"on", "gone"} /\ \E l : Goto(a, l)
      BY <2>4 DEF Link, Start, GetCache, GetTopic, CreateSubscription, ConnectFails
    <3> QED
      BY <2>0, <3>1, <3>2 DEF CallsInOrder, Goto
  <2>5. ASSUME NEW m \in Msgs, Send(m)
        PROVE  CallsInOrder'
    BY <2>5, WhoTouchesTheSets DEF setVars, CallsInOrder
  <2>6. CASE DeleteTopic \/ UNCHANGED vars
    BY <2>6, WhoTouchesTheSets DEF setVars, CallsInOrder, vars, history
  <2> QED
    BY <2>2, <2>3, <2>4, <2>5, <2>6 DEF Next
<1> QED
  BY <1>1, <1>2, LinkInvariant, SetsKeepShape, PTL DEF Spec

-----------------------------------------------------------------------------
(* Who is about to be added, or in the group, and was not run over by a    *)
(* call that removes: nobody on the server has another set in hand than    *)
(* the group's, and nobody is about to drop it.                            *)
AddersHaveCurrent ==
  \A c \in Conns \ shaken : task[c]["api"].at = "add" => task[c]["api"].set = Current(c)

RemoversHaveCurrent ==
  \A c \in joined \ shaken, d \in Conns, q \in Roles : Home[d] = Home[c] =>
    /\ task[d][q].at # "drop"
    /\ task[d][q].at \in {"remove", "count"} => task[d][q].set = Current(c)

MemberInv == AddersHaveCurrent /\ RemoversHaveCurrent /\ MemberIsListed

LEMMA MembersKeepTheirSet ==
  ASSUME MemberInv,
         \A e \in joined' \ shaken' :
           e \in joined \ shaken /\ Current(e)' = Current(e) /\ e \in elems'[Current(e)],
         \A e \in Conns \ shaken' : task'[e]["api"].at = "add" => task'[e]["api"].set = Current(e)',
         \A e \in joined' \ shaken', d \in Conns, q \in Roles : Home[d] = Home[e] =>
           \/ task'[d][q] = task[d][q]
           \/ task'[d][q].at # "drop" /\ (task'[d][q].at \in {"remove", "count"} => task'[d][q].set = Current(e))
  PROVE  MemberInv'
<1>1. AddersHaveCurrent'
  BY DEF AddersHaveCurrent
<1>2. RemoversHaveCurrent'
  <2> SUFFICES ASSUME NEW e \in joined' \ shaken', NEW d \in Conns, NEW q \in Roles, Home[d] = Home[e]
               PROVE  /\ task'[d][q].at # "drop"
                      /\ task'[d][q].at \in {"remove", "count"} => task'[d][q].set = Current(e)'
    BY DEF RemoversHaveCurrent
  <2>1. CASE task'[d][q] = task[d][q]
    BY <2>1 DEF MemberInv, RemoversHaveCurrent
  <2> QED
    BY <2>1
<1>3. MemberIsListed'
  BY DEF MemberInv, MemberIsListed
<1> QED
  BY <1>1, <1>2, <1>3 DEF MemberInv

LEMMA MembersAreKept == Spec => []MemberInv
<1> USE HubAssumption
<1>1. Init => MemberInv
  BY TasksAreTasks
     DEF Init, MemberInv, AddersHaveCurrent, RemoversHaveCurrent, MemberIsListed, NoTask
<1>2. SetShape /\ CallsInOrder /\ MemberInv /\ [Next]_vars => MemberInv'
  <2> SUFFICES ASSUME SetShape, CallsInOrder, MemberInv, [Next]_vars
               PROVE  MemberInv'
    OBVIOUS
  <2>0. /\ group \in [Servers -> Sets \cup {NoSet}] /\ elems \in [Sets -> SUBSET Conns]
        /\ joined \subseteq Conns /\ joined \subseteq conns
        /\ "api" \in Roles /\ "bye" \in Roles /\ NoTask.at = "none"
        /\ \A c \in Conns : Home[c] \in Servers /\ Current(c) = group[Home[c]]
        /\ \A c \in Conns, r \in Roles : HasSet(task[c][r]) => task[c][r].set # NoSet
    BY TasksAreTasks DEF SetShape, CallsInOrder, Current
  <2>00. \A e \in joined \ shaken : /\ e \in Conns /\ Current(e) \in Sets /\ e \in elems[Current(e)]
                                    /\ \A r \in Roles : task[e][r].at = "none"
    BY <2>0 DEF MemberInv, MemberIsListed, CallsInOrder, Roles
  <2>1. ASSUME UNCHANGED <<group, elems, task>>, joined' \subseteq joined, shaken' = shaken
        PROVE  MemberInv'
    BY <2>1 DEF MemberInv, AddersHaveCurrent, RemoversHaveCurrent, MemberIsListed, Current
  <2>2. ASSUME NEW c \in Conns, Call(c)
        PROVE  MemberInv'
    <3>1. CASE AddConnection(c)
      BY <2>1, <3>1 DEF AddConnection, setVars, history
    <3>2. CASE AddToGroup(c) \/ RemoveFromGroup(c) \/ Disconnect(c)
      <4>1. PICK r \in Roles, t \in Task :
              /\ Moves(c, r, t) /\ t.at \in {"tryadd", "fetch"}
              /\ shaken' = shaken \/ (shaken' = shaken \ {c} /\ r = "api")
        <5>1. CASE AddToGroup(c)
          BY <5>1, CallsMove, TasksAreTasks DEF AddToGroup
        <5>2. CASE RemoveFromGroup(c) \/ Disconnect(c)
          BY <5>2, CallsMove, TasksAreTasks DEF RemoveFromGroup, Disconnect
        <5> QED
          BY <3>2, <5>1, <5>2
      <4>2. /\ joined' = joined \ {c} /\ UNCHANGED <<group, elems>>
            /\ shaken' = shaken \/ (shaken' = shaken \ {c} /\ r = "api")
        BY <3>2, <4>1 DEF AddToGroup, RemoveFromGroup, Disconnect
      <4>3. /\ \A d \in Conns, q \in Roles : task'[d][q] = task[d][q] \/ task'[d][q].at \in {"tryadd", "fetch"}
            /\ shaken' # shaken => task'[c]["api"].at # "add"
        BY <2>0, <4>1, <4>2 DEF Moves
      <4>4. \A e \in Conns : Current(e)' = Current(e)
        BY <4>2 DEF Current
      <4>5. \A e \in Conns \ shaken' : task'[e]["api"].at = "add" => task'[e]["api"].set = Current(e)'
        BY <2>0, <4>2, <4>3, <4>4 DEF MemberInv, AddersHaveCurrent
      <4>6. \A e \in joined' \ shaken' : e \in joined \ shaken
        BY <4>2
      <4> QED
        BY <2>00, <4>2, <4>3, <4>4, <4>5, <4>6, MembersKeepTheirSet
    <3>3. CASE TryAdd(c)
      <4>1. Moves(c, "api", [at |-> "fetchadd", set |-> NoSet]) /\ UNCHANGED <<joined, shaken>>
        BY <3>3, CallsMove DEF TryAdd, history
      <4>2. ASSUME NEW e \in Conns, Current(e) # NoSet
            PROVE  Current(e)' = Current(e) /\ elems'[Current(e)] = elems[Current(e)]
        <5>1. CASE UNCHANGED <<group, elems>>
          BY <5>1 DEF Current
        <5>2. ASSUME NEW x \in Sets, Current(c) = NoSet, Fresh(x),
                     group' = [group EXCEPT ![Home[c]] = x],
                     elems' = [elems EXCEPT ![x] = {}]
              PROVE  Current(e)' = Current(e) /\ elems'[Current(e)] = elems[Current(e)]
          <6>1. Home[e] # Home[c] /\ Current(e) # x /\ Current(e) \in Sets
            BY <2>0, <4>2, <5>2 DEF Fresh
          <6> QED
            BY <2>0, <5>2, <6>1 DEF Current
        <5> QED
          BY <3>3, <5>1, <5>2 DEF TryAdd
      <4>3. \A e \in Conns \ shaken' : task'[e]["api"].at = "add" => task'[e]["api"].set = Current(e)'
        <5> SUFFICES ASSUME NEW e \in Conns \ shaken, task'[e]["api"].at = "add"
                     PROVE  task'[e]["api"].set = Current(e)'
          BY <4>1
        <5>1. e # c /\ task'[e]["api"] = task[e]["api"]
          BY <2>0, <4>1 DEF Moves
        <5>2. task[e]["api"].set = Current(e) /\ Current(e) # NoSet
          BY <2>0, <5>1 DEF MemberInv, AddersHaveCurrent, HasSet
        <5> QED
          BY <4>2, <5>1, <5>2
      <4>4. \A d \in Conns, q \in Roles : task'[d][q] = task[d][q] \/ task'[d][q].at = "fetchadd"
        BY <2>0, <4>1 DEF Moves
      <4>5. \A e \in joined' \ shaken' : Current(e)' = Current(e) /\ e \in elems'[Current(e)]
        BY <2>0, <2>00, <4>1, <4>2
      <4> QED
        BY <2>00, <4>1, <4>3, <4>4, <4>5, MembersKeepTheirSet
    <3>4. CASE FetchToAdd(c)
      <4>1. /\ Moves(c, "api", IF Current(c) = NoSet THEN NoTask ELSE [at |-> "add", set |-> Current(c)])
            /\ UNCHANGED <<joined, shaken, group, elems>>
        BY <3>4, CallsMove DEF FetchToAdd, history
      <4>2. \A e \in Conns : Current(e)' = Current(e)
        BY <4>1 DEF Current
      <4>3. \A e \in Conns \ shaken' : task'[e]["api"].at = "add" => task'[e]["api"].set = Current(e)'
        BY <2>0, <4>1, <4>2 DEF Moves, MemberInv, AddersHaveCurrent
      <4>4. \A d \in Conns, q \in Roles : task'[d][q] = task[d][q] \/ task'[d][q].at \in {"none", "add"}
        BY <2>0, <4>1 DEF Moves
      <4> QED
        BY <2>00, <4>1, <4>2, <4>3, <4>4, MembersKeepTheirSet
    <3>5. CASE Add(c)
      <4> DEFINE x == task[c]["api"].set
      <4>1. /\ Moves(c, "api", NoTask) /\ UNCHANGED group
            /\ elems' = [elems EXCEPT ![x] = elems[x] \cup {c}]
            /\ joined' = joined \cup ({c} \cap conns)
            /\ shaken' = IF Others(c, "api", Removing) # {} THEN shaken \cup {c} ELSE shaken
            /\ task[c]["api"].at = "add"
        BY <3>5, CallsMove DEF Add
      <4>2. \A e \in Conns : Current(e)' = Current(e)
        BY <4>1 DEF Current
      <4>3. AddersHaveCurrent'
        BY <2>0, <4>1, <4>2 DEF Moves, MemberInv, AddersHaveCurrent
      <4>4. ASSUME NEW e \in joined' \ shaken', NEW d \in Conns, NEW q \in Roles,
                   Home[d] = Home[e]
            PROVE  /\ task'[d][q].at # "drop"
                   /\ task'[d][q].at \in {"remove", "count"} => task'[d][q].set = Current(e)
        <5>1. CASE <<d, q>> = <<c, "api">>
          BY <2>0, <4>1, <5>1 DEF Moves
        <5>2. CASE <<d, q>> # <<c, "api">> /\ e = c
          <6>1. Others(c, "api", Removing) = {}
            BY <4>1, <4>4, <5>2
          <6>2. task[d][q].at \notin Removing
            BY <4>4, <5>2, <6>1 DEF Others
          <6> QED
            BY <4>1, <5>2, <6>2 DEF Moves, Removing
        <5>3. CASE <<d, q>> # <<c, "api">> /\ e # c
          BY <4>1, <4>4, <5>3 DEF Moves, MemberInv, RemoversHaveCurrent
        <5> QED
          BY <5>1, <5>2, <5>3
      <4>5. ASSUME NEW e \in joined' \ shaken'
            PROVE  Current(e) # NoSet /\ e \in elems'[Current(e)]
        <5>1. CASE e = c
          <6>1. c \notin shaken
            BY <4>1, <4>5, <5>1
          <6>2. Current(c) = x /\ x # NoSet /\ x \in Sets
            BY <2>0, <4>1, <6>1 DEF MemberInv, AddersHaveCurrent, HasSet
          <6> QED
            BY <2>0, <4>1, <5>1, <6>2
        <5>2. CASE e # c
          BY <2>0, <2>00, <4>1, <4>5, <5>2
        <5> QED
          BY <5>1, <5>2
      <4>6. RemoversHaveCurrent' /\ MemberIsListed'
        <5>1. joined' \subseteq Conns
          BY <2>0, <4>1
        <5> QED
          BY <4>2, <4>4, <4>5, <5>1 DEF RemoversHaveCurrent, MemberIsListed
      <4> QED
        BY <4>3, <4>6 DEF MemberInv
    <3> QED
      BY <2>2, <3>1, <3>2, <3>3, <3>4, <3>5 DEF Call
  <2>3. ASSUME NEW c \in Conns, NEW r \in Roles, Change(c, r)
        PROVE  MemberInv'
    <3> DEFINE x == task[c][r].set
    <3>0. task[c][r].at # "none" => c \notin joined \ shaken
      BY <2>00
    <3>1. CASE FetchToRemove(c, r)
      <4>1. /\ Moves(c, r, IF Current(c) = NoSet THEN NoTask ELSE [at |-> "remove", set |-> Current(c)])
            /\ UNCHANGED <<joined, shaken, group, elems>>
        BY <3>1, ChangesMove DEF FetchToRemove, history
      <4>2. \A e \in Conns : Current(e)' = Current(e)
        BY <4>1 DEF Current
      <4>3. \A e \in Conns \ shaken' : task'[e]["api"].at = "add" => task'[e]["api"].set = Current(e)'
        BY <2>0, <4>1, <4>2 DEF Moves, MemberInv, AddersHaveCurrent
      <4>4. \A d \in Conns, q \in Roles :
              \/ task'[d][q] = task[d][q]
              \/ task'[d][q].at = "none"
              \/ task'[d][q].at = "remove" /\ task'[d][q].set = group[Home[d]]
        BY <2>0, <4>1 DEF Moves
      <4> QED
        BY <2>0, <2>00, <4>1, <4>2, <4>3, <4>4, MembersKeepTheirSet
    <3>2. CASE Remove(c, r)
      <4>1. /\ Moves(c, r, [at |-> "count", set |-> x])
            /\ UNCHANGED <<joined, shaken, group>>
            /\ elems' = [elems EXCEPT ![x] = elems[x] \ {c}]
            /\ task[c][r].at = "remove"
        BY <3>2, ChangesMove DEF Remove, history
      <4>2. \A e \in Conns : Current(e)' = Current(e)
        BY <4>1 DEF Current
      <4>3. \A e \in Conns \ shaken' : task'[e]["api"].at = "add" => task'[e]["api"].set = Current(e)'
        BY <2>0, <4>1, <4>2 DEF Moves, MemberInv, AddersHaveCurrent
      <4>4. \A d \in Conns, q \in Roles : \/ task'[d][q] = task[d][q]
                                         \/ /\ task[d][q].at = "remove" /\ task'[d][q].at = "count"
                                            /\ task'[d][q].set = task[d][q].set
        BY <2>0, <4>1 DEF Moves
      <4>5. \A e \in joined' \ shaken' : e \in elems'[Current(e)]
        BY <2>0, <2>00, <3>0, <4>1
      <4>6. \A e \in joined' \ shaken', d \in Conns, q \in Roles : Home[d] = Home[e] =>
           \/ task'[d][q] = task[d][q]
           \/ task'[d][q].at # "drop" /\ (task'[d][q].at \in {"remove", "count"} => task'[d][q].set = Current(e))
        BY <4>1, <4>4 DEF MemberInv, RemoversHaveCurrent
      <4> QED
        BY <2>00, <4>1, <4>2, <4>3, <4>5, <4>6, MembersKeepTheirSet
    <3>3. CASE Count(c, r)
      <4>1. /\ Moves(c, r, IF elems[x] = {} THEN [at |-> "drop", set |-> x] ELSE NoTask)
            /\ UNCHANGED <<joined, shaken, group, elems>>
            /\ task[c][r].at = "count"
        BY <3>3, ChangesMove DEF Count, history
      <4>2. \A e \in Conns : Current(e)' = Current(e)
        BY <4>1 DEF Current
      <4>3. \A e \in Conns \ shaken' : task'[e]["api"].at = "add" => task'[e]["api"].set = Current(e)'
        BY <2>0, <4>1, <4>2 DEF Moves, MemberInv, AddersHaveCurrent
      <4>4. \A d \in Conns, q \in Roles :
              \/ task'[d][q] = task[d][q]
              \/ task'[d][q].at = "none"
              \/ d = c /\ elems[x] = {}
        BY <2>0, <4>1 DEF Moves
      <4>5. ASSUME NEW e \in joined' \ shaken', Home[c] = Home[e]
            PROVE  elems[x] # {}
        BY <2>00, <4>1, <4>5 DEF MemberInv, RemoversHaveCurrent
      <4> QED
        BY <2>00, <4>1, <4>2, <4>3, <4>4, <4>5, MembersKeepTheirSet
    <3>4. CASE Drop(c, r)
      <4>1. /\ Moves(c, r, NoTask) /\ UNCHANGED <<joined, elems>>
            /\ group' = [group EXCEPT ![Home[c]] = NoSet]
            /\ shaken' = shaken \cup Others(c, r, Adding)
            /\ task[c][r].at = "drop"
        BY <3>4, ChangesMove DEF Drop
      <4>2. \A e \in Conns : Home[e] # Home[c] => Current(e)' = Current(e)
        BY <2>0, <4>1 DEF Current
      <4>3. \A e \in joined' \ shaken' : e \in joined \ shaken /\ Home[e] # Home[c]
        BY <4>1 DEF MemberInv, RemoversHaveCurrent
      <4>4. ASSUME NEW e \in Conns \ shaken', task'[e]["api"].at = "add"
            PROVE  task'[e]["api"].set = Current(e)'
        <5>1. task'[e]["api"] = task[e]["api"] /\ <<e, "api">> # <<c, r>>
          BY <2>0, <4>1, <4>4 DEF Moves
        <5>2. Home[e] # Home[c]
          BY <2>0, <4>1, <4>4, <5>1 DEF Others, Adding
        <5> QED
          <6>1. e \notin shaken
            BY <4>1, <4>4
          <6>2. task[e]["api"].set = Current(e)
            BY <4>4, <5>1, <6>1 DEF MemberInv, AddersHaveCurrent
          <6> QED
            BY <4>2, <5>1, <5>2, <6>2
      <4>5. \A d \in Conns, q \in Roles : task'[d][q] = task[d][q] \/ task'[d][q].at = "none"
        BY <2>0, <4>1 DEF Moves
      <4>6. \A e \in joined' \ shaken' : Current(e)' = Current(e) /\ e \in elems'[Current(e)]
        BY <2>00, <4>1, <4>2, <4>3
      <4> QED
        BY <4>3, <4>4, <4>5, <4>6, MembersKeepTheirSet
    <3>5. ASSUME NEW d \in Conns, NEW q \in Roles, Clash(c, r, d, q)
          PROVE  MemberInv'
      <4>1. /\ x \in Sets /\ task[d][q].set = x
            /\ task[c][r].at \in {"add", "remove"} /\ task[d][q].at \in {"add", "remove"}
            /\ \A e \in Conns, p \in Roles :
                 task'[e][p] = IF <<e, p>> \in {<<c, r>>, <<d, q>>} THEN Clashed(x, task[e][p])
                               ELSE task[e][p]
        BY <3>5, ClashMoves
      <4>2. /\ joined' \subseteq joined \cup {c, d}
            /\ shaken' = shaken \cup elems[x] \cup {c, d}
            /\ \E s : elems' = [elems EXCEPT ![x] = s]
            /\ UNCHANGED group
        BY <3>5 DEF Clash
      <4>3. \A e \in Conns : Current(e)' = Current(e)
        BY <4>2 DEF Current
      <4>4. \A e \in joined' \ shaken' : /\ e \in joined \ shaken /\ Current(e) # x
                                         /\ e \in elems'[Current(e)]
        BY <2>0, <2>00, <4>1, <4>2
      <4>5. ASSUME NEW e \in Conns, NEW p \in Roles
            PROVE  \/ task'[e][p] = task[e][p]
                   \/ task'[e][p].at = "none"
                   \/ task[e][p].at = "remove" /\ task[e][p].set = x /\ task'[e][p].at = "count"
        <5>1. CASE <<e, p>> \in {<<c, r>>, <<d, q>>}
          <6>1. task'[e][p] = Clashed(x, task[e][p]) /\ task[e][p].at \in {"add", "remove"} /\ task[e][p].set = x
            BY <4>1, <5>1
          <6> QED
            BY <2>0, <6>1 DEF Clashed
        <5>2. CASE <<e, p>> \notin {<<c, r>>, <<d, q>>}
          BY <4>1, <5>2
        <5> QED
          BY <5>1, <5>2
      <4>6. \A e \in Conns \ shaken' : task'[e]["api"].at = "add" => task'[e]["api"].set = Current(e)'
        BY <2>0, <4>2, <4>3, <4>5 DEF MemberInv, AddersHaveCurrent
      <4>7. ASSUME NEW e \in joined' \ shaken', NEW f \in Conns, NEW p \in Roles,
                   Home[f] = Home[e]
            PROVE  task'[f][p] = task[f][p] \/ task'[f][p].at = "none"
        BY <4>4, <4>5, <4>7 DEF MemberInv, RemoversHaveCurrent
      <4>8. \A e \in joined' \ shaken' : e \in joined \ shaken /\ Current(e)' = Current(e) /\ e \in elems'[Current(e)]
        BY <2>00, <4>3, <4>4
      <4> QED
        BY <4>6, <4>7, <4>8, MembersKeepTheirSet
    <3> QED
      BY <2>3, <3>1, <3>2, <3>3, <3>4, <3>5 DEF Change
  <2>4. ASSUME NEW a \in Actors, Link(a)
        PROVE  MemberInv'
    BY <2>1, <2>4, WhoTouchesTheSets DEF setVars, history
  <2>5. ASSUME NEW m \in Msgs, Send(m)
        PROVE  MemberInv'
    BY <2>1, <2>5, WhoTouchesTheSets DEF setVars
  <2>6. CASE DeleteTopic \/ UNCHANGED vars
    BY <2>1, <2>6, WhoTouchesTheSets DEF setVars, vars, history
  <2> QED
    BY <2>2, <2>3, <2>4, <2>5, <2>6 DEF Next
<1> QED
  BY <1>1, <1>2, SetsKeepShape, CallsComeInOrder, PTL DEF Spec

(* Nobody who is in the group falls out of it: whatever other calls add,   *)
(* remove or find empty and drop, the set _groups has is there and has the *)
(* connection, unless a removing call and its joining ran at the same time *)
(* or two calls were inside one HashSet.                                   *)
THEOREM MembersStayListed == Spec => []MemberIsListed
<1>1. MemberInv => MemberIsListed
  BY DEF MemberInv
<1> QED
  BY <1>1, MembersAreKept, PTL

-----------------------------------------------------------------------------
(* Who went away and was not joining then is not joining later, ...        *)
GoneDontAdd ==
  \A c \in Conns \ late : pc[c] = "gone" => task[c]["api"].at \notin Adding

(* ... and as long as it is in the group its OnDisconnectedAsync task has  *)
(* yet to remove it.                                                       *)
GoneAreRemoved ==
  \A c \in Conns \ (shaken \cup late) :
    pc[c] = "gone" /\ Current(c) # NoSet /\ c \in elems[Current(c)] =>
      \/ task[c]["bye"].at = "fetch"
      \/ task[c]["bye"].at = "remove" /\ task[c]["bye"].set = Current(c)

GhostInv == GoneDontAdd /\ GoneAreRemoved

LEMMA TheGoneStayGone ==
  ASSUME GhostInv,
         \A c \in Conns \ late' : pc'[c] = "gone" => /\ pc[c] = "gone" /\ c \notin late
                                                     /\ task'[c]["api"].at \in Adding => task[c]["api"].at \in Adding,
         \A c \in Conns \ (shaken' \cup late') :
           pc'[c] = "gone" /\ pc[c] = "gone" /\ Current(c)' # NoSet /\ c \in elems'[Current(c)'] =>
             /\ c \notin shaken
             /\ Current(c)' = Current(c) /\ c \in elems[Current(c)]
             /\ \/ task'[c]["bye"] = task[c]["bye"]
                \/ task'[c]["bye"].at = "remove" /\ task'[c]["bye"].set = Current(c)
  PROVE  GhostInv'
<1>1. GoneDontAdd'
  BY DEF GhostInv, GoneDontAdd
<1>2. GoneAreRemoved'
  <2> SUFFICES ASSUME NEW c \in Conns \ (shaken' \cup late'), pc'[c] = "gone",
                      Current(c)' # NoSet, c \in elems'[Current(c)']
               PROVE  \/ task'[c]["bye"].at = "fetch"
                      \/ task'[c]["bye"].at = "remove" /\ task'[c]["bye"].set = Current(c)'
    BY DEF GoneAreRemoved
  <2>1. pc[c] = "gone" /\ c \notin late
    OBVIOUS
  <2>2. /\ c \notin shaken /\ Current(c)' = Current(c) /\ c \in elems[Current(c)]
        /\ \/ task'[c]["bye"] = task[c]["bye"]
           \/ task'[c]["bye"].at = "remove" /\ task'[c]["bye"].set = Current(c)
    BY <2>1
  <2>3. \/ task[c]["bye"].at = "fetch"
        \/ task[c]["bye"].at = "remove" /\ task[c]["bye"].set = Current(c)
    BY <2>1, <2>2 DEF GhostInv, GoneAreRemoved
  <2> QED
    BY <2>2, <2>3
<1> QED
  BY <1>1, <1>2 DEF GhostInv

LEMMA TheGoneAreRemoved == Spec => []GhostInv
<1> USE HubAssumption
<1>1. Init => GhostInv
  BY TasksAreTasks DEF Init, GhostInv, GoneDontAdd, GoneAreRemoved, Current, Actors
<1>2. LinkInv /\ SetShape /\ CallsInOrder /\ GhostInv /\ [Next]_vars => GhostInv'
  <2> SUFFICES ASSUME LinkInv, SetShape, CallsInOrder, GhostInv, [Next]_vars
               PROVE  GhostInv'
    OBVIOUS
  <2>0. /\ group \in [Servers -> Sets \cup {NoSet}] /\ elems \in [Sets -> SUBSET Conns]
        /\ pc \in [Actors -> {"off", "lock", "topic", "subscribe", "add", "on", "gone"}]
        /\ Conns \subseteq Actors
        /\ "api" \in Roles /\ "bye" \in Roles /\ NoTask.at \notin Adding /\ "fetch" \notin Adding
        /\ \A c \in Conns : Home[c] \in Servers /\ Current(c) = group[Home[c]]
    BY TasksAreTasks DEF LinkInv, LinkShape, SetShape, CallsInOrder, Current, Actors, Adding
  <2>1. ASSUME UNCHANGED <<group, elems, task, shaken, late>>,
               \A c \in Conns : pc'[c] = "gone" => pc[c] = "gone"
        PROVE  GhostInv'
    BY <2>1, TheGoneStayGone DEF Current
  <2>2. ASSUME NEW c \in Conns, Call(c)
        PROVE  GhostInv'
    <3>1. CASE AddConnection(c)
      BY <2>0, <2>1, <3>1 DEF AddConnection, setVars, history, Goto
    <3>2. CASE AddToGroup(c) \/ RemoveFromGroup(c)
      <4>1. PICK t \in Task : Moves(c, "api", t)
        BY <3>2, CallsMove, TasksAreTasks
      <4>2. /\ UNCHANGED <<group, elems, late, pc>> /\ pc[c] = "on"
            /\ \A d \in Conns \ {c} : d \in shaken' <=> d \in shaken
        BY <3>2 DEF AddToGroup, RemoveFromGroup
      <4>3. \A d \in Conns \ {c} : task'[d] ["api"] = task[d]["api"] /\ task'[d]["bye"] = task[d]["bye"]
        BY <2>0, <4>1 DEF Moves
      <4> QED
        BY <4>2, <4>3, TheGoneStayGone DEF Current
    <3>3. CASE Disconnect(c)
      <4>1. Moves(c, "bye", [at |-> "fetch", set |-> NoSet])
        BY <3>3, CallsMove
      <4>2. /\ UNCHANGED <<group, elems, shaken>> /\ pc' = [pc EXCEPT ![c] = "gone"]
            /\ late' = IF task[c]["api"].at \in Adding THEN late \cup {c} ELSE late
        BY <3>3 DEF Disconnect, Goto
      <4>3. /\ \A d \in Conns : pc'[d] = IF d = c THEN "gone" ELSE pc[d]
            /\ task'[c]["bye"].at = "fetch"
            /\ \A d \in Conns \ {c} : task'[d]["bye"] = task[d]["bye"]
            /\ \A d \in Conns : task'[d]["api"] = task[d]["api"]
        BY <2>0, <4>1, <4>2 DEF Moves
      <4>4. GoneDontAdd'
        BY <4>2, <4>3 DEF GhostInv, GoneDontAdd
      <4>5. GoneAreRemoved'
        BY <4>2, <4>3 DEF GhostInv, GoneAreRemoved, Current
      <4> QED
        BY <4>4, <4>5 DEF GhostInv
    <3>4. CASE TryAdd(c)
      <4>1. Moves(c, "api", [at |-> "fetchadd", set |-> NoSet]) /\ UNCHANGED <<pc, shaken, late>>
            /\ task[c]["api"].at \in Adding
        BY <3>4, CallsMove DEF TryAdd, history, Adding
      <4>2. ASSUME NEW e \in Conns, Current(e)' # NoSet, e \in elems'[Current(e)']
            PROVE  Current(e)' = Current(e) /\ e \in elems[Current(e)]
        <5>1. CASE UNCHANGED <<group, elems>>
          BY <4>2, <5>1 DEF Current
        <5>2. ASSUME NEW x \in Sets, Fresh(x), group' = [group EXCEPT ![Home[c]] = x],
                     elems' = [elems EXCEPT ![x] = {}]
              PROVE  Current(e)' = Current(e) /\ e \in elems[Current(e)]
          <6>1. Home[e] # Home[c]
            BY <2>0, <4>2, <5>2 DEF Current
          <6>2. Current(e)' = Current(e) /\ Current(e) # x
            BY <2>0, <5>2, <6>1 DEF Current, Fresh
          <6> QED
            BY <2>0, <4>2, <5>2, <6>2
        <5> QED
          BY <3>4, <5>1, <5>2 DEF TryAdd
      <4>3. \A d \in Conns : /\ task'[d]["bye"] = task[d]["bye"]
                             /\ task'[d]["api"].at \in Adding => task[d]["api"].at \in Adding
        BY <2>0, <4>1 DEF Moves
      <4> QED
        BY <4>1, <4>2, <4>3, TheGoneStayGone
    <3>5. CASE FetchToAdd(c)
      <4>1. /\ \E t : Moves(c, "api", t)
            /\ UNCHANGED <<pc, shaken, late, group, elems>> /\ task[c]["api"].at \in Adding
        BY <3>5, CallsMove DEF FetchToAdd, history, Adding
      <4>2. \A d \in Conns : /\ task'[d]["bye"] = task[d]["bye"]
                             /\ task'[d]["api"].at \in Adding => task[d]["api"].at \in Adding
        BY <2>0, <4>1 DEF Moves
      <4> QED
        BY <4>1, <4>2, TheGoneStayGone DEF Current
    <3>6. CASE Add(c)
      <4> DEFINE x == task[c]["api"].set
      <4>1. /\ Moves(c, "api", NoTask)
            /\ UNCHANGED <<pc, late, group>> /\ task[c]["api"].at \in Adding
            /\ elems' = [elems EXCEPT ![x] = elems[x] \cup {c}]
            /\ shaken \subseteq shaken'
        BY <3>6, CallsMove DEF Add, Adding
      <4>2. \A d \in Conns : /\ task'[d]["bye"] = task[d]["bye"]
                             /\ task'[d]["api"].at \in Adding => task[d]["api"].at \in Adding
        BY <2>0, <4>1 DEF Moves
      <4>3. \A d \in Conns \ {c} : Current(d)' = Current(d) /\ (d \in elems'[Current(d)] => d \in elems[Current(d)])
        BY <2>0, <4>1 DEF Current
      <4>4. pc[c] = "gone" => c \in late
        BY <4>1 DEF GhostInv, GoneDontAdd
      <4> QED
        BY <4>1, <4>2, <4>3, <4>4, TheGoneStayGone
    <3> QED
      BY <2>2, <3>1, <3>2, <3>3, <3>4, <3>5, <3>6 DEF Call
  <2>3. ASSUME NEW c \in Conns, NEW r \in Roles, Change(c, r)
        PROVE  GhostInv'
    <3> DEFINE x == task[c][r].set
    <3>1. CASE FetchToRemove(c, r)
      <4>1. /\ Moves(c, r, IF Current(c) = NoSet THEN NoTask ELSE [at |-> "remove", set |-> Current(c)])
            /\ UNCHANGED <<pc, late, shaken, group, elems>>
        BY <3>1, ChangesMove DEF FetchToRemove, history
      <4>2. \A d \in Conns : /\ task'[d]["api"].at \in Adding => task[d]["api"].at \in Adding
                             /\ Current(d) = NoSet \/ task'[d]["bye"] = task[d]["bye"]
                                  \/ (task'[d]["bye"].at = "remove" /\ task'[d]["bye"].set = Current(d))
        BY <2>0, <4>1 DEF Moves, Adding
      <4> QED
        BY <4>1, <4>2, TheGoneStayGone DEF Current
    <3>2. CASE Remove(c, r) \/ Count(c, r) \/ Drop(c, r)
      <4>1. /\ \E t : Moves(c, r, t) /\ t.at \notin Adding
            /\ UNCHANGED <<pc, late>> /\ shaken \subseteq shaken'
            /\ task[c][r].at \in {"remove", "count", "drop"}
        <5>1. Remove(c, r) => Moves(c, r, [at |-> "count", set |-> x])
          BY ChangesMove
        <5>2. Count(c, r) => Moves(c, r, IF elems[x] = {} THEN [at |-> "drop", set |-> x] ELSE NoTask)
          BY ChangesMove
        <5>3. Drop(c, r) => Moves(c, r, NoTask)
          BY ChangesMove
        <5>4. \E t : Moves(c, r, t) /\ t.at \notin Adding
          BY <2>0, <3>2, <5>1, <5>2, <5>3 DEF Adding
        <5> QED
          BY <3>2, <5>4 DEF Remove, Count, Drop, history
      <4>2. \A d \in Conns : /\ task'[d]["api"].at \in Adding => task[d]["api"].at \in Adding
                             /\ task'[d]["bye"] = task[d]["bye"] \/ (d = c /\ r = "bye")
        BY <2>0, <4>1 DEF Moves
      <4>3. ASSUME NEW d \in Conns, Current(d)' # NoSet, d \in elems'[Current(d)']
            PROVE  /\ Current(d)' = Current(d) /\ d \in elems[Current(d)]
                   /\ ~(Remove(c, r) /\ d = c /\ x = Current(d))
        <5>1. CASE Remove(c, r)
          <6>1. x \in Sets /\ elems' = [elems EXCEPT ![x] = elems[x] \ {c}] /\ UNCHANGED group
            BY <5>1, ChangesMove DEF Remove
          <6>2. Current(d)' = Current(d) /\ Current(d) \in Sets
            BY <2>0, <4>3, <6>1 DEF Current
          <6> QED
            BY <2>0, <4>3, <6>1, <6>2
        <5>2. CASE Count(c, r)
          BY <4>3, <5>2 DEF Count, Remove, Current
        <5>3. CASE Drop(c, r)
          <6>1. group' = [group EXCEPT ![Home[c]] = NoSet] /\ UNCHANGED elems
            BY <5>3 DEF Drop
          <6>2. Current(d)' = Current(d)
            BY <2>0, <4>3, <6>1 DEF Current
          <6> QED
            BY <4>3, <5>3, <6>1, <6>2 DEF Drop, Remove
        <5> QED
          BY <3>2, <5>1, <5>2, <5>3
      <4>4. ASSUME NEW d \in Conns \ (shaken' \cup late'), pc[d] = "gone",
                   Current(d)' # NoSet, d \in elems'[Current(d)']
            PROVE  task'[d]["bye"] = task[d]["bye"]
        <5>1. SUFFICES ASSUME d = c, r = "bye"
                       PROVE  FALSE
          BY <4>2
        <5>2. \/ task[c]["bye"].at = "fetch"
              \/ task[c]["bye"].at = "remove" /\ task[c]["bye"].set = Current(c)
          BY <4>1, <4>3, <4>4, <5>1 DEF GhostInv, GoneAreRemoved
        <5>3. task[c]["bye"].at = "remove" /\ x = Current(d)
          BY <4>1, <5>1, <5>2
        <5>4. Remove(c, r)
          BY <3>2, <5>1, <5>3 DEF Count, Drop
        <5> QED
          BY <4>3, <4>4, <5>1, <5>3, <5>4
      <4> QED
        BY <4>1, <4>2, <4>3, <4>4, TheGoneStayGone
    <3>3. ASSUME NEW d \in Conns, NEW q \in Roles, Clash(c, r, d, q)
          PROVE  GhostInv'
      <4>1. /\ x \in Sets
            /\ \A e \in Conns, p \in Roles :
                 task'[e][p] = IF <<e, p>> \in {<<c, r>>, <<d, q>>} THEN Clashed(x, task[e][p])
                               ELSE task[e][p]
        BY <3>3, ClashMoves
      <4>2. /\ shaken' = shaken \cup elems[x] \cup {c, d}
            /\ \E s \in SUBSET (elems[x] \cup {c, d}) : elems' = [elems EXCEPT ![x] = s]
            /\ UNCHANGED <<group, pc, late>>
        BY <3>3, <4>1 DEF Clash
      <4>3. \A e \in Conns : Clashed(x, task[e]["api"]).at \notin Adding
        BY <2>0 DEF Clashed, Adding
      <4>4. \A e \in Conns : /\ task'[e]["api"].at \in Adding => task[e]["api"].at \in Adding
                             /\ e \notin {c, d} => task'[e]["bye"] = task[e]["bye"]
        BY <2>0, <4>1, <4>3
      <4>5. \A e \in Conns \ shaken' : Current(e)' # NoSet /\ e \in elems'[Current(e)'] =>
              Current(e)' = Current(e) /\ e \in elems[Current(e)]
        BY <2>0, <4>2 DEF Current
      <4> QED
        BY <4>2, <4>4, <4>5, TheGoneStayGone
    <3> QED
      BY <2>3, <3>1, <3>2, <3>3 DEF Change
  <2>4. ASSUME NEW a \in Actors, Link(a)
        PROVE  GhostInv'
    <3>1. \E l \in {"lock", "add", "on", "topic", "subscribe"} : Goto(a, l)
      BY <2>4 DEF Link, Start, GetCache, GetTopic, CreateSubscription, ConnectFails, Done
    <3>2. \A c \in Conns : pc'[c] = "gone" => pc[c] = "gone"
      BY <2>0, <3>1 DEF Goto
    <3> QED
      BY <2>1, <2>4, <3>2, WhoTouchesTheSets DEF setVars, history
  <2>5. ASSUME NEW m \in Msgs, Send(m)
        PROVE  GhostInv'
    BY <2>1, <2>5, WhoTouchesTheSets DEF setVars
  <2>6. CASE DeleteTopic \/ UNCHANGED vars
    BY <2>1, <2>6, WhoTouchesTheSets DEF setVars, vars, history
  <2> QED
    BY <2>2, <2>3, <2>4, <2>5, <2>6 DEF Next
<1> QED
  BY <1>1, <1>2, LinkInvariant, SetsKeepShape, CallsComeInOrder, PTL DEF Spec

(* A connection that is gone is out of the group when its                  *)
(* OnDisconnectedAsync task is done, unless AddToGroupAsync was at work    *)
(* for it when it went away or two calls were inside one HashSet.          *)
THEOREM GhostsJoinedLate == Spec => []GhostOnlyAfterLateJoin
<1>1. GhostInv => GhostOnlyAfterLateJoin
  BY TasksAreTasks DEF GhostInv, GoneAreRemoved, GhostOnlyAfterLateJoin
<1> QED
  BY <1>1, TheGoneAreRemoved, PTL

-----------------------------------------------------------------------------
(* A HashSet is in the hands of one server: under the group's key there,   *)
(* in a callback, or in a call of one of its connections.                  *)
UsedBy(s, x) ==
  \/ group[s] = x
  \/ \E m \in Msgs : cb[s][m] = x
  \/ \E c \in Conns, r \in Roles : Home[c] = s /\ task[c][r].set = x

OneServer ==
  \A x \in Sets, s \in Servers : UsedBy(s, x) =>
    /\ \A t \in Servers : UsedBy(t, x) => s = t
    /\ \A c \in elems[x] : Home[c] = s

(* Calls and callbacks take their sets from the group's key.               *)
LEMMA NobodyTakesAnother ==
  ASSUME SetShape,
         \A s \in Servers : group'[s] \in {group[s], NoSet},
         \A s \in Servers, m \in Msgs : cb'[s][m] \in {cb[s][m], NoSet, group[s]},
         \A d \in Conns, q \in Roles : task'[d][q].set \in {task[d][q].set, NoSet, Current(d)}
  PROVE  \A s \in Servers, x \in Sets : UsedBy(s, x)' => UsedBy(s, x)
BY HubAssumption DEF UsedBy, Current

LEMMA SetsStayHome ==
  ASSUME OneServer,
         \A s \in Servers, x \in Sets : UsedBy(s, x)' => UsedBy(s, x),
         \A s \in Servers, x \in Sets : UsedBy(s, x) =>
           \A c \in elems'[x] : c \in elems[x] \/ Home[c] = s
  PROVE  OneServer'
BY DEF OneServer

LEMMA SetsHaveOneServer == Spec => []OneServer
<1> USE HubAssumption
<1>1. Init => OneServer
  <2> SUFFICES ASSUME Init, NEW x \in Sets, NEW s \in Servers
               PROVE  ~UsedBy(s, x)
    BY DEF OneServer
  <2> QED
    BY TasksAreTasks DEF Init, UsedBy
<1>2. SetShape /\ MsgShape /\ OneServer /\ [Next]_vars => OneServer'
  <2> SUFFICES ASSUME SetShape, MsgShape, OneServer, [Next]_vars
               PROVE  OneServer'
    OBVIOUS
  <2>0. /\ group \in [Servers -> Sets \cup {NoSet}] /\ elems \in [Sets -> SUBSET Conns]
        /\ cb \in [Servers -> [Msgs -> Sets \cup {NoSet}]]
        /\ "api" \in Roles /\ "bye" \in Roles /\ NoTask.set = NoSet
        /\ \A c \in Conns : Home[c] \in Servers /\ Current(c) = group[Home[c]]
    BY TasksAreTasks DEF SetShape, MsgShape, Current
  <2>1. ASSUME UNCHANGED <<group, elems, task, cb>>
        PROVE  OneServer'
    BY <2>1 DEF OneServer, UsedBy
  <2>2. ASSUME NEW c \in Conns, NEW r \in Roles, NEW t, Moves(c, r, t),
               t.set \in {task[c][r].set, NoSet, Current(c)},
               \A s \in Servers : group'[s] \in {group[s], NoSet}, UNCHANGED cb
        PROVE  \A s \in Servers, x \in Sets : UsedBy(s, x)' => UsedBy(s, x)
    <3>1. \A d \in Conns, q \in Roles : task'[d][q].set \in {task[d][q].set, NoSet, Current(d)}
      BY <2>2 DEF Moves
    <3> QED
      BY <2>2, <3>1, NobodyTakesAnother
  <2>3. ASSUME NEW c \in Conns, Call(c)
        PROVE  OneServer'
    <3>0. UNCHANGED cb
      BY <2>3, CallsAndMessages DEF msgVars
    <3>1. CASE AddConnection(c)
      BY <2>1, <3>0, <3>1, WhoTouchesTheSets DEF setVars
    <3>2. CASE AddToGroup(c) \/ RemoveFromGroup(c) \/ Disconnect(c) \/ FetchToAdd(c)
      <4>1. \E r \in Roles : \E t : Moves(c, r, t) /\ t.set \in {NoSet, Current(c)}
        <5>1. CASE AddToGroup(c) \/ RemoveFromGroup(c) \/ Disconnect(c)
          <6>1. \E r \in Roles, l \in {"tryadd", "fetch"} : Moves(c, r, [at |-> l, set |-> NoSet])
            BY <2>0, <5>1, CallsMove
          <6> QED
            BY <6>1
        <5>2. CASE FetchToAdd(c)
          <6> DEFINE t == IF Current(c) = NoSet THEN NoTask ELSE [at |-> "add", set |-> Current(c)]
          <6>1. Moves(c, "api", t)
            BY <5>2, CallsMove
          <6>2. t.set \in {NoSet, Current(c)}
            BY <2>0
          <6> QED
            BY <2>0, <6>1, <6>2
        <5> QED
          BY <3>2, <5>1, <5>2
      <4>2. UNCHANGED <<group, elems>>
        BY <3>2 DEF AddToGroup, RemoveFromGroup, Disconnect, FetchToAdd
      <4> QED
        BY <2>2, <3>0, <4>1, <4>2, SetsStayHome
    <3>3. CASE TryAdd(c)
      <4>1. Moves(c, "api", [at |-> "fetchadd", set |-> NoSet])
        BY <3>3, CallsMove
      <4>2. CASE UNCHANGED <<group, elems>>
        BY <2>0, <2>2, <3>0, <4>1, <4>2, SetsStayHome
      <4>3. ASSUME NEW x \in Sets, Fresh(x), group' = [group EXCEPT ![Home[c]] = x],
                   elems' = [elems EXCEPT ![x] = {}]
            PROVE  OneServer'
        <5>1. \A s \in Servers : ~UsedBy(s, x)
          BY <4>3 DEF Fresh, UsedBy
        <5>2. /\ \A s \in Servers : group'[s] = IF s = Home[c] THEN x ELSE group[s]
              /\ \A y \in Sets : elems'[y] = IF y = x THEN {} ELSE elems[y]
              /\ \A d \in Conns, q \in Roles : task'[d][q].set \in {task[d][q].set, NoSet}
          BY <2>0, <4>1, <4>3 DEF Moves
        <5>3. \A s \in Servers, y \in Sets : UsedBy(s, y)' => UsedBy(s, y) \/ (s = Home[c] /\ y = x)
          BY <3>0, <5>2 DEF UsedBy
        <5> QED
          BY <5>1, <5>2, <5>3 DEF OneServer
      <4> QED
        BY <3>3, <4>2, <4>3 DEF TryAdd
    <3>4. CASE Add(c)
      <4> DEFINE x == task[c]["api"].set
      <4>1. /\ Moves(c, "api", NoTask) /\ UNCHANGED group
            /\ elems' = [elems EXCEPT ![x] = elems[x] \cup {c}]
        BY <3>4, CallsMove DEF Add
      <4>2. \A s \in Servers, y \in Sets : UsedBy(s, y)' => UsedBy(s, y)
        BY <2>0, <2>2, <3>0, <4>1
      <4>3. \A y \in Sets : elems'[y] \subseteq elems[y] \cup (IF y = x THEN {c} ELSE {})
        BY <2>0, <4>1
      <4>4. \A s \in Servers : x \in Sets /\ UsedBy(s, x) => s = Home[c]
        <5>1. UsedBy(Home[c], x)
          BY <2>0 DEF UsedBy
        <5> QED
          BY <2>0, <5>1 DEF OneServer
      <4> QED
        BY <4>2, <4>3, <4>4, SetsStayHome
    <3> QED
      BY <2>3, <3>1, <3>2, <3>3, <3>4 DEF Call
  <2>4. ASSUME NEW c \in Conns, NEW r \in Roles, Change(c, r)
        PROVE  OneServer'
    <3> DEFINE x == task[c][r].set
    <3>0. UNCHANGED cb
      BY <2>4, CallsAndMessages DEF msgVars
    <3>1. CASE FetchToRemove(c, r) \/ Remove(c, r) \/ Count(c, r) \/ Drop(c, r)
      <4>1. \E t : Moves(c, r, t) /\ t.set \in {x, NoSet, Current(c)}
        <5>1. CASE FetchToRemove(c, r)
          <6> DEFINE t == IF Current(c) = NoSet THEN NoTask ELSE [at |-> "remove", set |-> Current(c)]
          <6>1. Moves(c, r, t)
            BY <5>1, ChangesMove
          <6>2. t.set \in {x, NoSet, Current(c)}
            BY <2>0
          <6> QED
            BY <6>1, <6>2
        <5>2. CASE Remove(c, r)
          <6>1. Moves(c, r, [at |-> "count", set |-> x])
            BY <5>2, ChangesMove
          <6> QED
            BY <6>1
        <5>3. CASE Count(c, r)
          <6> DEFINE t == IF elems[x] = {} THEN [at |-> "drop", set |-> x] ELSE NoTask
          <6>1. Moves(c, r, t)
            BY <5>3, ChangesMove
          <6>2. t.set \in {x, NoSet, Current(c)}
            BY <2>0
          <6> QED
            BY <6>1, <6>2
        <5>4. CASE Drop(c, r)
          <6>1. Moves(c, r, NoTask)
            BY <5>4, ChangesMove
          <6> QED
            BY <2>0, <6>1
        <5> QED
          BY <3>1, <5>1, <5>2, <5>3, <5>4
      <4>2. /\ \A s \in Servers : group'[s] \in {group[s], NoSet}
            /\ \A y \in Sets : elems'[y] \subseteq elems[y]
        BY <2>0, <3>1 DEF FetchToRemove, Remove, Count, Drop
      <4>3. \A s \in Servers, y \in Sets : UsedBy(s, y)' => UsedBy(s, y)
        BY <2>2, <3>0, <4>1, <4>2
      <4> QED
        BY <4>2, <4>3, SetsStayHome
    <3>2. ASSUME NEW d \in Conns, NEW q \in Roles, Clash(c, r, d, q)
          PROVE  OneServer'
      <4>1. /\ x \in Sets /\ task[d][q].set = x
            /\ \A e \in Conns, p \in Roles :
                 task'[e][p] = IF <<e, p>> \in {<<c, r>>, <<d, q>>} THEN Clashed(x, task[e][p])
                               ELSE task[e][p]
        BY <3>2, ClashMoves
      <4>2. \A e \in Conns, p \in Roles : task'[e][p].set \in {task[e][p].set, NoSet}
        <5>1. Clashed(x, task[c][r]).set \in {x, NoSet} /\ Clashed(x, task[d][q]).set \in {x, NoSet}
          BY <2>0 DEF Clashed
        <5> QED
          BY <4>1, <5>1
      <4>3. UNCHANGED group /\ \A y \in Sets : elems'[y] \subseteq elems[y] \cup (IF y = x THEN {c, d} ELSE {})
        BY <2>0, <3>2, <4>1 DEF Clash
      <4>4. \A s \in Servers, y \in Sets : UsedBy(s, y)' => UsedBy(s, y)
        BY <3>0, <4>2, <4>3, NobodyTakesAnother
      <4>5. \A s \in Servers : UsedBy(s, x) => s = Home[c] /\ s = Home[d]
        <5>1. UsedBy(Home[c], x) /\ UsedBy(Home[d], x)
          BY <2>0, <4>1 DEF UsedBy
        <5> QED
          BY <2>0, <4>1, <5>1 DEF OneServer
      <4> QED
        BY <4>3, <4>4, <4>5, SetsStayHome
    <3> QED
      BY <2>4, <3>1, <3>2 DEF Change
  <2>5. ASSUME NEW a \in Actors, Link(a)
        PROVE  OneServer'
    BY <2>1, <2>5, WhoTouchesTheSets DEF setVars, msgVars
  <2>6. CASE DeleteTopic \/ UNCHANGED vars
    BY <2>1, <2>6, WhoTouchesTheSets DEF setVars, msgVars, vars
  <2>7. ASSUME NEW m \in Msgs, Send(m)
        PROVE  OneServer'
    <3>1. UNCHANGED <<group, elems, task>>
      BY <2>7, WhoTouchesTheSets DEF setVars
    <3>2. \A s \in Servers, n \in Msgs : cb'[s][n] \in {cb[s][n], NoSet, group[s]}
      <4>1. CASE \E s \in Servers : Receive(s, m)
        BY <2>0, <4>1 DEF Receive
      <4>2. ASSUME NEW s \in Servers, Walk(s, m) \/ WalkThrows(s, m)
            PROVE  \A t \in Servers, n \in Msgs : cb'[t][n] \in {cb[t][n], NoSet, group[t]}
        <5>1. cb' = [cb EXCEPT ![s][m] = NoSet]
          BY <4>2 DEF Walk, WalkThrows, WriteTo
        <5> QED
          BY <2>0, <5>1
      <4>3. CASE UNCHANGED cb
        BY <4>3
      <4> QED
        BY <2>7, <4>1, <4>2, <4>3
           DEF Send, Publish, TryPublish, TopicIsGone, Resubscribe, PublishFails
    <3>3. \A s \in Servers, x \in Sets : UsedBy(s, x)' => UsedBy(s, x)
      BY <3>1, <3>2, NobodyTakesAnother
    <3> QED
      BY <3>1, <3>3, SetsStayHome
  <2> QED
    BY <2>3, <2>4, <2>5, <2>6, <2>7 DEF Next
<1> QED
  BY <1>1, <1>2, SetsKeepShape, MessagesKeepShape, PTL DEF Spec

(* What is known of a message on its way: nobody has it before it is out,  *)
(* or while their server has yet to handle it; and a callback has the set  *)
(* of the members it is to write to.                                       *)
SentOnce ==
  \A m \in Msgs : pub[m].at # "done" =>
    /\ due[m] = {}
    /\ \A s \in Servers : m \notin inbox[s]
    /\ \A c \in Conns : got[m][c] = 0

HandledOnce ==
  \A m \in Msgs :
    /\ \A s \in Servers : cb[s][m] # NoSet => m \in inbox[s]
    /\ \A c \in Conns : m \in inbox[Home[c]] => got[m][c] = 0

WalksTheirSet ==
  \A m \in Msgs :
    /\ due[m] \subseteq joined
    /\ \A c \in due[m] \ shaken : cb[Home[c]][m] \in {NoSet, Current(c)}

ReachInv == SentOnce /\ HandledOnce /\ WalksTheirSet /\ MembersAreReachedOnce

(* Steps that handle no message: who is still owed one was before, and its *)
(* group still has the same set.                                           *)
LEMMA NothingIsHandled ==
  ASSUME ReachInv, MsgShape, UNCHANGED msgVars,
         \A m \in Msgs : due'[m] \subseteq due[m] \cap joined',
         \A m \in Msgs : due'[m] \ shaken' \subseteq due[m] \ shaken,
         \A m \in Msgs : \A c \in due'[m] \ shaken' : Current(c)' = Current(c)
  PROVE  ReachInv'
<1>1. SentOnce' /\ HandledOnce'
  BY DEF ReachInv, SentOnce, HandledOnce, msgVars
<1>2. WalksTheirSet'
  BY DEF ReachInv, WalksTheirSet, msgVars
<1>3. MembersAreReachedOnce'
  BY DEF ReachInv, MembersAreReachedOnce, msgVars
<1> QED
  BY <1>1, <1>2, <1>3 DEF ReachInv

(* A callback's walk: all the members who are to get the message get it,   *)
(* but those that are owed it no longer.                                   *)
LEMMA MembersAreWritten ==
  ASSUME HubAssumption, SetShape, MsgShape, CallsInOrder, MemberInv, OneServer, ReachInv,
         NEW s \in Servers, NEW m \in Msgs, cb[s][m] # NoSet,
         NEW to \in SUBSET elems[cb[s][m]], WriteTo(s, m, to),
         UNCHANGED <<pub, joined, shaken, group, conns>>,
         \A n \in Msgs : due'[n] = IF n = m THEN due[m] \ (elems[cb[s][m]] \ to) ELSE due[n]
  PROVE  ReachInv'
<1> DEFINE x == cb[s][m]
<1>0. /\ x \in Sets /\ elems[x] \subseteq Conns /\ m \in inbox[s]
      /\ \A c \in Conns : Home[c] \in Servers /\ got[m][c] \in Nat
      /\ joined \subseteq Conns /\ joined \subseteq conns
  BY DEF HubAssumption, SetShape, MsgShape, CallsInOrder, ReachInv, HandledOnce
<1>1. \A c \in elems[x] : Home[c] = s
  <2>1. UsedBy(s, x)
    BY DEF UsedBy
  <2> QED
    BY <1>0, <2>1 DEF OneServer
<1>2. /\ \A n \in Msgs \ {m} : got'[n] = got[n]
      /\ \A c \in Conns : got'[m][c] = got[m][c] + IF c \in to \cap conns THEN 1 ELSE 0
      /\ \A t \in Servers : inbox'[t] = IF t = s THEN inbox[s] \ {m} ELSE inbox[t]
      /\ \A t \in Servers, n \in Msgs : cb'[t][n] = IF t = s /\ n = m THEN NoSet ELSE cb[t][n]
      /\ \A c \in Conns : Current(c)' = Current(c)
  BY DEF WriteTo, MsgShape, Current
<1>3. SentOnce'
  <2>1. pub[m].at = "done"
    BY <1>0 DEF ReachInv, SentOnce
  <2> QED
    BY <1>2, <2>1 DEF ReachInv, SentOnce
<1>4. HandledOnce'
  <2>1. ASSUME NEW n \in Msgs, NEW t \in Servers, cb'[t][n] # NoSet
        PROVE  n \in inbox'[t]
    BY <1>2, <2>1 DEF ReachInv, HandledOnce
  <2>2. ASSUME NEW n \in Msgs, NEW c \in Conns, n \in inbox'[Home[c]]
        PROVE  got'[n][c] = 0
    <3>1. got[n][c] = 0 /\ (n = m => Home[c] # s)
      BY <1>0, <1>2, <2>2 DEF ReachInv, HandledOnce
    <3> QED
      BY <1>1, <1>2, <3>1
  <2> QED
    BY <2>1, <2>2 DEF HandledOnce
<1>5. WalksTheirSet'
  BY <1>0, <1>2 DEF ReachInv, WalksTheirSet
<1>6. MembersAreReachedOnce'
  <2> SUFFICES ASSUME NEW n \in Msgs, NEW c \in Conns
               PROVE  /\ got'[n][c] <= 1
                      /\ c \in due'[n] \ shaken /\ n \notin inbox'[Home[c]] => got'[n][c] = 1
    BY DEF MembersAreReachedOnce
  <2>1. CASE n # m
    BY <1>0, <1>2, <2>1 DEF ReachInv, MembersAreReachedOnce
  <2>2. CASE n = m /\ Home[c] # s
    <3>1. got'[m][c] = got[m][c]
      BY <1>0, <1>1, <1>2, <2>2
    <3> QED
      BY <1>0, <1>2, <2>2, <3>1 DEF ReachInv, MembersAreReachedOnce
  <2>3. CASE n = m /\ Home[c] = s
    <3>1. got[m][c] = 0
      BY <1>0, <2>3 DEF ReachInv, HandledOnce
    <3>2. ASSUME c \in due'[m] \ shaken
          PROVE  c \in to \cap conns
      <4>1. c \in due[m] \ shaken /\ c \in joined \ shaken /\ c \notin elems[x] \ to
        BY <3>2 DEF ReachInv, WalksTheirSet
      <4>2. x = Current(c) /\ c \in elems[Current(c)]
        BY <2>3, <4>1 DEF ReachInv, WalksTheirSet, MemberInv, MemberIsListed
      <4> QED
        BY <1>0, <4>1, <4>2
    <3> QED
      BY <1>2, <2>3, <3>1, <3>2
  <2> QED
    BY <2>1, <2>2, <2>3
<1> QED
  BY <1>3, <1>4, <1>5, <1>6 DEF ReachInv

LEMMA MembersAreReached == Spec => []ReachInv
<1> USE HubAssumption
<1>1. Init => ReachInv
  BY DEF Init, NoPub, ReachInv, SentOnce, HandledOnce, WalksTheirSet, MembersAreReachedOnce
<1>2. /\ LinkInv /\ SetShape /\ MsgShape /\ CallsInOrder /\ MemberInv /\ OneServer
      /\ ReachInv /\ [Next]_vars
      => ReachInv'
  <2> SUFFICES ASSUME LinkInv, SetShape, MsgShape, CallsInOrder, MemberInv, OneServer, ReachInv,
                      [Next]_vars
               PROVE  ReachInv'
    OBVIOUS
  <2>0. /\ group \in [Servers -> Sets \cup {NoSet}] /\ elems \in [Sets -> SUBSET Conns]
        /\ joined \subseteq Conns /\ joined \subseteq conns
        /\ pub \in [Msgs -> [at : {"none", "try", "resubscribe", "done"}, by : Servers, tries : 0 .. 3]]
        /\ inbox \in [Servers -> SUBSET Msgs] /\ cb \in [Servers -> [Msgs -> Sets \cup {NoSet}]]
        /\ got \in [Msgs -> [Conns -> Nat]] /\ due \in [Msgs -> SUBSET Conns]
        /\ \A c \in Conns : Home[c] \in Servers /\ Current(c) = group[Home[c]]
        /\ \A m \in Msgs : due[m] \subseteq joined
        /\ \A c \in joined \ shaken : Current(c) # NoSet
    BY DEF SetShape, MsgShape, CallsInOrder, Current, ReachInv, WalksTheirSet, MemberInv,
           MemberIsListed
  <2>1. ASSUME UNCHANGED <<msgVars, due, group>>, joined \subseteq joined',
               shaken \subseteq shaken'
        PROVE  ReachInv'
    <3>1. \A c \in Conns : Current(c)' = Current(c)
      BY <2>1 DEF Current
    <3> QED
      BY <2>0, <2>1, <3>1, NothingIsHandled
  <2>2. ASSUME NEW c \in Conns, Call(c)
        PROVE  ReachInv'
    <3>0. UNCHANGED msgVars
      BY <2>2, CallsAndMessages
    <3>1. CASE AddConnection(c) \/ FetchToAdd(c) \/ Add(c)
      BY <2>1, <3>0, <3>1 DEF AddConnection, FetchToAdd, Add, setVars, history
    <3>2. CASE AddToGroup(c) \/ RemoveFromGroup(c) \/ Disconnect(c)
      <4>1. /\ UNCHANGED group /\ joined' = joined \ {c} /\ shaken' \in {shaken, shaken \ {c}}
            /\ \A m \in Msgs : due'[m] = due[m] \ {c}
        BY <3>2 DEF AddToGroup, RemoveFromGroup, Disconnect
      <4>2. \A e \in Conns : Current(e)' = Current(e)
        BY <4>1 DEF Current
      <4>3. /\ \A m \in Msgs : due'[m] \subseteq due[m] \cap joined'
            /\ \A m \in Msgs : due'[m] \ shaken' \subseteq due[m] \ shaken
        BY <2>0, <4>1
      <4> QED
        BY <2>0, <3>0, <4>2, <4>3, NothingIsHandled
    <3>3. CASE TryAdd(c)
      <4>1. /\ UNCHANGED <<joined, shaken, due>>
            /\ UNCHANGED group \/ (Current(c) = NoSet /\ \E x : group' = [group EXCEPT ![Home[c]] = x])
        BY <3>3 DEF TryAdd, history
      <4>2. ASSUME NEW e \in joined \ shaken
            PROVE  Current(e)' = Current(e)
        BY <2>0, <4>1 DEF Current
      <4>3. \A m \in Msgs : \A e \in due'[m] \ shaken' : Current(e)' = Current(e)
        BY <2>0, <4>1, <4>2
      <4> QED
        BY <2>0, <3>0, <4>1, <4>3, NothingIsHandled
    <3> QED
      BY <2>2, <3>1, <3>2, <3>3 DEF Call
  <2>3. ASSUME NEW c \in Conns, NEW r \in Roles, Change(c, r)
        PROVE  ReachInv'
    <3>0. UNCHANGED <<msgVars, due>>
      BY <2>3, CallsAndMessages
    <3>1. CASE ~Drop(c, r)
      BY <2>1, <2>3, <3>0, <3>1 DEF Change, FetchToRemove, Remove, Count, Clash, history
    <3>2. CASE Drop(c, r)
      <4>1. /\ task[c][r].at = "drop" /\ joined' = joined /\ shaken \subseteq shaken'
            /\ group' = [group EXCEPT ![Home[c]] = NoSet]
        BY <3>2 DEF Drop
      <4>2. ASSUME NEW e \in joined \ shaken
            PROVE  Current(e)' = Current(e)
        <5>1. Home[e] # Home[c]
          BY <2>0, <4>1 DEF MemberInv, RemoversHaveCurrent
        <5> QED
          BY <2>0, <4>1, <5>1 DEF Current
      <4>3. \A m \in Msgs : \A e \in due'[m] \ shaken' : Current(e)' = Current(e)
        BY <2>0, <3>0, <4>1, <4>2
      <4> QED
        BY <2>0, <3>0, <4>1, <4>3, NothingIsHandled
    <3> QED
      BY <3>1, <3>2
  <2>4. ASSUME NEW a \in Actors, Link(a)
        PROVE  ReachInv'
    BY <2>1, <2>4, WhoTouchesTheSets DEF setVars, history
  <2>5. CASE DeleteTopic \/ UNCHANGED vars
    BY <2>1, <2>5, WhoTouchesTheSets DEF setVars, history, vars
  <2>6. ASSUME NEW m \in Msgs, Send(m)
        PROVE  ReachInv'
    <3>0. /\ UNCHANGED <<group, elems, conns, joined, shaken>>
          /\ \A c \in Conns : Current(c)' = Current(c)
      BY <2>6, WhoTouchesTheSets DEF setVars, Current
    <3>1. ASSUME NEW s \in Servers, Walk(s, m) \/ WalkThrows(s, m)
          PROVE  ReachInv'
      <4>1. \E to \in SUBSET elems[cb[s][m]] :
              /\ cb[s][m] # NoSet /\ WriteTo(s, m, to) /\ UNCHANGED pub
              /\ \A n \in Msgs : due'[n] = IF n = m THEN due[m] \ (elems[cb[s][m]] \ to) ELSE due[n]
        <5>1. CASE Walk(s, m)
          <6> DEFINE to == elems[cb[s][m]]
          <6>1. cb[s][m] # NoSet /\ WriteTo(s, m, to) /\ UNCHANGED <<pub, due>> /\ to \in SUBSET to
            BY <5>1 DEF Walk, history
          <6>2. \A n \in Msgs : due'[n] = IF n = m THEN due[m] \ (to \ to) ELSE due[n]
            BY <2>0, <6>1
          <6> QED
            BY <6>1, <6>2
        <5>2. CASE WalkThrows(s, m)
          BY <2>0, <5>2 DEF WalkThrows
        <5> QED
          BY <3>1, <5>1, <5>2
      <4> QED
        BY <3>0, <4>1, MembersAreWritten
    <3>2. ASSUME NEW s \in Servers, Receive(s, m)
          PROVE  ReachInv'
      <4>0. /\ m \in inbox[s] /\ cb[s][m] = NoSet /\ UNCHANGED <<pub, got, due>>
            /\ \A c \in Conns : got[m][c] \in Nat
        BY <2>0, <3>2 DEF Receive, history
      <4>1. CASE group[s] = NoSet
        <5>1. /\ UNCHANGED cb
              /\ \A t \in Servers : inbox'[t] = IF t = s THEN inbox[s] \ {m} ELSE inbox[t]
          BY <2>0, <3>2, <4>1 DEF Receive
        <5>2. SentOnce' /\ HandledOnce'
          <6>1. SentOnce'
            BY <4>0, <5>1 DEF ReachInv, SentOnce
          <6>2. ASSUME NEW n \in Msgs, NEW t \in Servers
                PROVE  /\ cb[t][n] # NoSet => n \in inbox'[t]
                       /\ n \in inbox'[t] => n \in inbox[t]
            BY <4>0, <5>1 DEF ReachInv, HandledOnce
          <6>3. HandledOnce'
            BY <2>0, <4>0, <5>1, <6>2 DEF ReachInv, HandledOnce
          <6> QED
            BY <6>1, <6>3
        <5>3. WalksTheirSet'
          BY <2>0, <3>0, <4>0, <5>1 DEF ReachInv, WalksTheirSet
        <5>4. MembersAreReachedOnce'
          <6>1. \A c \in due[m] \ shaken : Home[c] # s
            BY <2>0, <4>1
          <6>2. ASSUME NEW n \in Msgs, NEW c \in due[n] \ shaken, n \notin inbox'[Home[c]]
                PROVE  got[n][c] = 1
            <7>1. c \in Conns /\ Home[c] \in Servers
              BY <2>0, <6>2
            <7>2. CASE n \in inbox[Home[c]]
              <8>1. Home[c] = s /\ n = m
                BY <5>1, <6>2, <7>1, <7>2
              <8> QED
                BY <6>1, <6>2, <8>1
            <7>3. CASE n \notin inbox[Home[c]]
              BY <6>2, <7>1, <7>3 DEF ReachInv, MembersAreReachedOnce
            <7> QED
              BY <7>2, <7>3
          <6>3. UNCHANGED <<got, due, shaken>>
            BY <3>0, <4>0
          <6>4. \A n \in Msgs, c \in Conns : got[n][c] <= 1
            BY DEF ReachInv, MembersAreReachedOnce
          <6> QED
            BY <6>2, <6>3, <6>4 DEF MembersAreReachedOnce
        <5> QED
          BY <5>2, <5>3, <5>4 DEF ReachInv
      <4>2. CASE group[s] # NoSet
        <5>1. /\ UNCHANGED inbox
              /\ \A t \in Servers, n \in Msgs : cb'[t][n] = IF t = s /\ n = m THEN group[s] ELSE cb[t][n]
          BY <2>0, <3>2, <4>2 DEF Receive
        <5>2. SentOnce' /\ HandledOnce'
          BY <4>0, <5>1, <2>0 DEF ReachInv, SentOnce, HandledOnce
        <5>3. WalksTheirSet'
          BY <2>0, <3>0, <4>0, <5>1 DEF ReachInv, WalksTheirSet
        <5>4. MembersAreReachedOnce'
          BY <2>0, <3>0, <4>0, <5>1 DEF ReachInv, MembersAreReachedOnce
        <5> QED
          BY <5>2, <5>3, <5>4 DEF ReachInv
      <4> QED
        BY <4>1, <4>2
    <3>3. CASE UNCHANGED <<inbox, cb, got, due>> /\ \E p : pub' = [pub EXCEPT ![m] = p] /\ pub[m].at # "done"
      <4>1. pub[m].at # "done" /\ \A n \in Msgs \ {m} : pub'[n] = pub[n]
        BY <2>0, <3>3
      <4>2. SentOnce' /\ HandledOnce'
        BY <3>3, <4>1 DEF ReachInv, SentOnce, HandledOnce
      <4>3. WalksTheirSet' /\ MembersAreReachedOnce'
        BY <2>0, <3>0, <3>3 DEF ReachInv, WalksTheirSet, MembersAreReachedOnce
      <4> QED
        BY <4>2, <4>3 DEF ReachInv
    <3>4. ASSUME pub[m].at # "done", pub'[m].at = "done",
                 \A n \in Msgs \ {m} : pub'[n] = pub[n],
                 Deliver(m), UNCHANGED <<cb, got>>,
                 \A n \in Msgs \ {m} : due'[n] = due[n],
                 due'[m] = {} \/ due'[m] = {c \in joined : sub[Home[c]] = "live"}
          PROVE  ReachInv'
      <4>1. /\ due[m] = {} /\ \A s \in Servers : m \notin inbox[s] /\ cb[s][m] = NoSet
            /\ \A c \in Conns : got[m][c] = 0
        BY <3>4 DEF ReachInv, SentOnce, HandledOnce
      <4>2. /\ \A s \in Servers, n \in Msgs \ {m} : n \in inbox'[s] <=> n \in inbox[s]
            /\ \A s \in Servers : m \in inbox'[s] <=> sub[s] = "live"
        BY <2>0, <3>4, <4>1 DEF Deliver
      <4>3. SentOnce'
        BY <3>4, <4>2 DEF ReachInv, SentOnce
      <4>4. HandledOnce'
        <5>1. ASSUME NEW n \in Msgs, NEW s \in Servers, cb'[s][n] # NoSet
              PROVE  n \in inbox'[s]
          BY <3>4, <4>1, <4>2, <5>1 DEF ReachInv, HandledOnce
        <5>2. ASSUME NEW n \in Msgs, NEW c \in Conns, n \in inbox'[Home[c]]
              PROVE  got'[n][c] = 0
          BY <2>0, <3>4, <4>1, <4>2, <5>2 DEF ReachInv, HandledOnce
        <5> QED
          BY <5>1, <5>2 DEF HandledOnce
      <4>5. WalksTheirSet'
        <5>1. ASSUME NEW n \in Msgs
              PROVE  due'[n] \subseteq joined
          <6>1. CASE n = m
            BY <3>4, <6>1
          <6>2. CASE n # m
            <7>1. due'[n] = due[n]
              BY <3>4, <6>2
            <7> QED
              BY <2>0, <7>1
          <6> QED
            BY <6>1, <6>2
        <5>2. ASSUME NEW n \in Msgs, NEW c \in due'[n] \ shaken
              PROVE  cb[Home[c]][n] \in {NoSet, Current(c)}
          <6>1. c \in Conns
            BY <2>0, <5>1
          <6>2. CASE n = m
            BY <2>0, <4>1, <6>1, <6>2
          <6>3. CASE n # m
            <7>1. c \in due[n] \ shaken
              BY <3>4, <5>2, <6>3
            <7> QED
              BY <7>1 DEF ReachInv, WalksTheirSet
          <6> QED
            BY <6>2, <6>3
        <5> QED
          BY <2>0, <3>0, <3>4, <5>1, <5>2 DEF WalksTheirSet
      <4>6. MembersAreReachedOnce'
        <5>1. ASSUME NEW c \in Conns
              PROVE  got'[m][c] <= 1 /\ (c \in due'[m] => m \in inbox'[Home[c]])
          BY <2>0, <3>4, <4>1, <4>2
        <5>2. ASSUME NEW n \in Msgs \ {m}, NEW c \in Conns
              PROVE  /\ got'[n][c] <= 1
                     /\ c \in due'[n] \ shaken' /\ n \notin inbox'[Home[c]] => got'[n][c] = 1
          BY <2>0, <3>0, <3>4, <4>2 DEF ReachInv, MembersAreReachedOnce
        <5> QED
          BY <5>1, <5>2 DEF MembersAreReachedOnce
      <4> QED
        BY <4>3, <4>4, <4>5, <4>6 DEF ReachInv
    <3>5. CASE TryPublish(m)
      BY <2>0, <3>4, <3>5 DEF TryPublish
    <3>6. CASE PublishFails(m)
      <4>0. /\ pub[m].at # "done" /\ pub' = [pub EXCEPT ![m].at = "done"]
            /\ UNCHANGED <<cb, got, due>> /\ (UNCHANGED inbox \/ Deliver(m))
        BY <3>6 DEF PublishFails, history
      <4>1. /\ pub'[m].at = "done" /\ \A n \in Msgs \ {m} : pub'[n] = pub[n]
            /\ \E p : pub' = [pub EXCEPT ![m] = p]
        <5>1. \E p : pub' = [pub EXCEPT ![m] = p]
          BY <4>0
        <5>2. pub' = [pub EXCEPT ![m] = [pub[m] EXCEPT !.at = "done"]]
          BY <4>0
        <5>3. pub'[m] = [pub[m] EXCEPT !.at = "done"] /\ \A n \in Msgs \ {m} : pub'[n] = pub[n]
          BY <2>0, <5>2
        <5>4. [pub[m] EXCEPT !.at = "done"].at = "done"
          BY <2>0
        <5> QED
          BY <5>1, <5>3, <5>4
      <4>2. due'[m] = {}
        BY <4>0 DEF ReachInv, SentOnce
      <4> QED
        BY <3>3, <3>4, <4>0, <4>1, <4>2
    <3>7. CASE TopicIsGone(m) \/ Resubscribe(m)
      <4>1. pub[m].at # "done" /\ UNCHANGED <<inbox, cb, got, due>>
        BY <3>7 DEF TopicIsGone, Resubscribe, history
      <4>2. \E p : pub' = [pub EXCEPT ![m] = p]
        BY <3>7 DEF TopicIsGone, Resubscribe
      <4> QED
        BY <3>3, <4>1, <4>2
    <3>8. ASSUME NEW s \in Servers, Publish(m, s)
          PROVE  ReachInv'
      BY <3>3, <3>8 DEF Publish, history
    <3> QED
      BY <2>6, <3>1, <3>2, <3>5, <3>6, <3>7, <3>8 DEF Send
  <2> QED
    BY <2>2, <2>3, <2>4, <2>5, <2>6 DEF Next
<1> QED
  BY <1>1, <1>2, LinkInvariant, SetsKeepShape, MessagesKeepShape, CallsComeInOrder,
     MembersAreKept, SetsHaveOneServer, PTL
     DEF Spec

(* SendGroupAsync, Publish's retries, and messageReceivedCallback: no      *)
(* connection is written a message twice, whichever attempt fails, and one *)
(* that stays in the group gets it.                                        *)
THEOREM MembersGetItOnce == Spec => []MembersAreReachedOnce
<1>1. ReachInv => MembersAreReachedOnce
  BY DEF ReachInv
<1> QED
  BY <1>1, MembersAreReached, PTL
=============================================================================
