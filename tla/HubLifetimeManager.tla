------------------------- MODULE HubLifetimeManager --------------------------
(***************************************************************************)
(* The ASP.NET Core SignalR backplane, NCacheHubLifetimeManager: every     *)
(* server keeps its connections and, for each group, a HashSet of their    *)
(* ids in a ConcurrentDictionary; messages to a group go through an NCache *)
(* topic to which every server subscribes.                                 *)
(*                                                                         *)
(* The dictionary's calls are atomic, the methods that make several of     *)
(* them are not, and nothing guards the HashSets: two calls that change    *)
(* one at the same time leave anything that is made of what both had.  The *)
(* model has one group, and connections without a UserIdentifier, for      *)
(* which AddToUserIds and RemoveFromUserIds return at once.                *)
(***************************************************************************)
EXTENDS Integers, FiniteSets

CONSTANTS
  Servers,
  Conns,
  Home,        \* the server of each connection
  Sets,        \* the HashSet objects
  NoSet,
  Msgs,        \* messages to the group
  MaxTopics,   \* bound: topics made under the EventKey, one after the other
  MaxFaults,   \* bound: calls to the cache that fail
  MaxCalls     \* bound: calls of AddToGroupAsync and RemoveFromGroupAsync

ASSUME HubAssumption ==
  /\ Servers # {}
  /\ Servers \cap Conns = {}
  /\ Home \in [Conns -> Servers]
  /\ NoSet \notin Sets \cup Servers \cup Conns
  /\ {MaxTopics, MaxFaults, MaxCalls} \subseteq Nat

VARIABLES
  cache,    \* _cache is there
  guard,    \* who has _connectionLock, the server's actors only
  topicOf,  \* _topic is there
  sub,      \* _topicSubscription: null, to the topic, or to one deleted since
  topic,    \* there is a topic under the EventKey
  made,     \* how many there have been
  faults,
  pc,       \* where the constructors, OnConnectedAsync and the rest are
  conns,    \* _connections of all servers
  group,    \* the HashSet _groups has for the group, on each server
  elems,    \* the contents of the HashSets
  task,     \* the calls that change a HashSet, by connection and role
  calls,    \* how many times a group was joined or left
  pub,      \* the Publish of each message
  inbox,    \* messages on their way to a server's callback
  cb,       \* the HashSet a callback is about to walk through
  got,      \* how often each connection was written each message
  joined,   \* history: AddToGroupAsync is over, nothing was undone since
  shaken,   \* history: connections whose entries another call ran over
  late,     \* history: connections that were joining when they went away
  due       \* history: who must get a message when its server handles it

linkVars == <<cache, guard, topicOf, sub, topic, made, faults>>
setVars  == <<group, elems, task, calls>>
msgVars  == <<pub, inbox, cb, got>>
history  == <<joined, shaken, late, due>>
vars == <<linkVars, pc, conns, setVars, msgVars, history>>

Actors == Conns \cup Servers
ServerOf(a) == IF a \in Servers THEN a ELSE Home[a]

Roles == {"api", "bye"}   \* a call of the hub, OnDisconnectedAsync

Adding == {"tryadd", "fetchadd", "add"}
Removing == {"fetch", "remove", "count", "drop"}
NoTask == [at |-> "none", set |-> NoSet]
NoPub == [at |-> "none", by |-> CHOOSE s \in Servers : TRUE, tries |-> 0]

TypeOK ==
  /\ cache \in [Servers -> BOOLEAN]
  /\ guard \in [Servers -> Actors \cup {NoSet}]
  /\ topicOf \in [Servers -> BOOLEAN]
  /\ sub \in [Servers -> {"null", "live", "lost"}]
  /\ made \in 0 .. MaxTopics
  /\ topic \in BOOLEAN
  /\ (\E s \in Servers : sub[s] = "live") => topic
  /\ faults \in 0 .. MaxFaults
  /\ pc \in [Actors -> {"off", "lock", "topic", "subscribe", "add",
                        "on", "gone"}]
  /\ conns \subseteq Conns
  /\ group \in [Servers -> Sets \cup {NoSet}]
  /\ elems \in [Sets -> SUBSET Conns]
  /\ task \in [Conns -> [Roles ->
                 [at : {"none"} \cup Adding \cup Removing,
                  set : Sets \cup {NoSet}]]]
  /\ \A c \in Conns, r \in Roles :
       task[c][r].at \in {"add", "remove", "count", "drop"} <=> task[c][r].set # NoSet
  /\ calls \in 0 .. MaxCalls
  /\ pub \in [Msgs -> [at : {"none", "try", "resubscribe", "done"},
                       by : Servers, tries : 0 .. 3]]
  /\ inbox \in [Servers -> SUBSET Msgs]
  /\ cb \in [Servers -> [Msgs -> Sets \cup {NoSet}]]
  /\ got \in [Msgs -> [Conns -> Nat]]
  /\ joined \subseteq Conns
  /\ shaken \subseteq Conns
  /\ late \subseteq Conns
  /\ due \in [Msgs -> SUBSET Conns]

Goto(a, l) == pc' = [pc EXCEPT ![a] = l]

-----------------------------------------------------------------------------
(* EnsureNCacheServerConnection, by the constructor and by every           *)
(* OnConnectedAsync.  The constructor's is over, for better or worse, when *)
(* the first connection arrives: nothing it awaits is ever busy.           *)

Done(a) == IF a \in Servers THEN "on" ELSE "add"

(* The first look at _cache, outside the lock. *)
Start(a) ==
  /\ pc[a] = "off"
  /\ a \in Conns => pc[Home[a]] = "on"
  /\ Goto(a, IF cache[ServerOf(a)] THEN Done(a) ELSE "lock")
  /\ UNCHANGED <<linkVars, conns, setVars, msgVars, history>>

(* Under the lock _cache is looked at again, and set before the topic is   *)
(* subscribed to: from here on others go past Check.                       *)
GetCache(a) ==
  LET s == ServerOf(a)
  IN /\ pc[a] = "lock"
     /\ guard[s] = NoSet
     /\ IF cache[s]
        THEN Goto(a, Done(a)) /\ UNCHANGED <<cache, guard>>
        ELSE /\ cache' = [cache EXCEPT ![s] = TRUE]
             /\ guard' = [guard EXCEPT ![s] = a]
             /\ Goto(a, "topic")
     /\ UNCHANGED <<topicOf, sub, topic, made, faults, conns, setVars, msgVars,
                    history>>

(* GetTopic and, when there is none, CreateTopic. *)
TakeTopic(s) ==
  /\ ~topic => made < MaxTopics
  /\ made' = IF topic THEN made ELSE made + 1
  /\ topic' = TRUE
  /\ topicOf' = [topicOf EXCEPT ![s] = TRUE]

GetTopic(a) ==
  /\ pc[a] = "topic"
  /\ TakeTopic(ServerOf(a))
  /\ Goto(a, "subscribe")
  /\ UNCHANGED <<cache, guard, sub, faults, conns, setVars, msgVars, history>>

(* A server that has a subscription makes no other, to whatever topic. *)
Listen(s) == sub' = [sub EXCEPT ![s] = IF @ = "null" THEN "live" ELSE @]

CreateSubscription(a) ==
  LET s == ServerOf(a)
  IN /\ pc[a] = "subscribe"
     /\ topic
     /\ Listen(s)
     /\ guard' = [guard EXCEPT ![s] = NoSet]
     /\ Goto(a, Done(a))
     /\ UNCHANGED <<cache, topicOf, topic, made, faults, conns, setVars,
                    msgVars, history>>

(* Wrong on purpose: a connection that could not subscribe is kept. *)
ConnectFailsAndKeeps(a) ==
  LET s == ServerOf(a)
  IN /\ \/ faults < MaxFaults /\ faults' = faults + 1
        \/ pc[a] = "subscribe" /\ ~topic /\ UNCHANGED faults
     /\ \/ pc[a] \in {"topic", "subscribe"}
        \/ pc[a] = "lock" /\ guard[s] = NoSet /\ ~cache[s]
     /\ guard' = [guard EXCEPT ![s] = NoSet]
     /\ Goto(a, Done(a))
     /\ UNCHANGED <<cache, topicOf, sub, topic, made, conns, setVars, msgVars,
                    history>>

(* GetCache, GetTopic, CreateTopic or CreateSubscription throws: _cache is *)
(* null again, for the next OnConnectedAsync to try.                       *)
ConnectFails(a) ==
  LET s == ServerOf(a)
  IN /\ \/ faults < MaxFaults /\ faults' = faults + 1
        \/ pc[a] = "subscribe" /\ ~topic /\ UNCHANGED faults
     /\ \/ pc[a] \in {"topic", "subscribe"}
        \/ pc[a] = "lock" /\ guard[s] = NoSet /\ ~cache[s]
     /\ cache' = [cache EXCEPT ![s] = FALSE]
     /\ guard' = [guard EXCEPT ![s] = NoSet]
     /\ Goto(a, Done(a))
     /\ UNCHANGED <<topicOf, sub, topic, made, conns, setVars, msgVars, history>>

-----------------------------------------------------------------------------
(* The HashSets.  A call is a task of one connection in one role.          *)

Spawn(t, c, r, at) == [t EXCEPT ![c][r] = [at |-> at, set |-> NoSet]]

Current(c) == group[Home[c]]

(* An object nothing refers to, for new HashSet<string>(). *)
Fresh(x) ==
  /\ \A s \in Servers : group[s] # x /\ \A m \in Msgs : cb[s][m] # x
  /\ \A c \in Conns, r \in Roles : task[c][r].set # x

Others(c, r, steps) ==
  {d \in Conns : \E q \in Roles :
     /\ <<d, q>> # <<c, r>>
     /\ Home[d] = Home[c]
     /\ task[d][q].at \in steps}

(* OnConnectedAsync, its connection to the cache tried. *)
AddConnection(c) ==
  /\ pc[c] = "add"
  /\ conns' = conns \cup {c}
  /\ Goto(c, "on")
  /\ UNCHANGED <<linkVars, setVars, msgVars, history>>

(* AddToGroupAsync; a connection that is not here is left alone. *)
AddToGroup(c) ==
  /\ c \in conns
  /\ pc[c] = "on"
  /\ task[c]["api"].at = "none"
  /\ calls < MaxCalls
  /\ calls' = calls + 1
  /\ task' = Spawn(task, c, "api", "tryadd")
  /\ joined' = joined \ {c}
  /\ shaken' = shaken \ {c}
  /\ due' = [m \in Msgs |-> due[m] \ {c}]
  /\ UNCHANGED <<linkVars, pc, conns, group, elems, msgVars, late>>

(* RemoveFromGroupAsync. *)
RemoveFromGroup(c) ==
  /\ pc[c] = "on"
  /\ task[c]["api"].at = "none"
  /\ calls < MaxCalls
  /\ calls' = calls + 1
  /\ task' = Spawn(task, c, "api", "fetch")
  /\ joined' = joined \ {c}
  /\ due' = [m \in Msgs |-> due[m] \ {c}]
  /\ UNCHANGED <<linkVars, pc, conns, group, elems, msgVars, shaken, late>>

(* Wrong on purpose: a connection that goes away stays in its groups. *)
DisconnectKeepsGroups(c) ==
  /\ pc[c] = "on"
  /\ Goto(c, "gone")
  /\ conns' = conns \ {c}
  /\ joined' = joined \ {c}
  /\ due' = [m \in Msgs |-> due[m] \ {c}]
  /\ UNCHANGED <<linkVars, setVars, msgVars, shaken, late>>

(* OnDisconnectedAsync: _connections.Remove, and a task nobody awaits.     *)
(* A hub method of the connection may still be running.                    *)
Disconnect(c) ==
  /\ pc[c] = "on"
  /\ Goto(c, "gone")
  /\ conns' = conns \ {c}
  /\ task' = Spawn(task, c, "bye", "fetch")
  /\ joined' = joined \ {c}
  /\ late' = IF task[c]["api"].at \in Adding THEN late \cup {c} ELSE late
  /\ due' = [m \in Msgs |-> due[m] \ {c}]
  /\ UNCHANGED <<linkVars, calls, group, elems, msgVars, shaken>>

(* TryAdd of a new set, which does nothing when the key has one. *)
TryAdd(c) ==
  /\ task[c]["api"].at = "tryadd"
  /\ IF Current(c) = NoSet
     THEN \E x \in Sets :
            /\ Fresh(x)
            /\ group' = [group EXCEPT ![Home[c]] = x]
            /\ elems' = [elems EXCEPT ![x] = {}]
     ELSE UNCHANGED <<group, elems>>
  /\ task' = [task EXCEPT ![c]["api"].at = "fetchadd"]
  /\ UNCHANGED <<linkVars, calls, pc, conns, msgVars, history>>

(* Wrong on purpose: the set is there because it has just been put there. *)
FetchUnchecked(c) ==
  /\ task[c]["api"].at = "fetchadd"
  /\ task' = [task EXCEPT ![c]["api"] = [at |-> "add", set |-> Current(c)]]
  /\ UNCHANGED <<linkVars, calls, pc, conns, group, elems, msgVars, history>>

(* The indexer throws when the key is gone again: AddToGroupAsync fails. *)
FetchToAdd(c) ==
  /\ task[c]["api"].at = "fetchadd"
  /\ task' = [task EXCEPT ![c]["api"] =
                IF Current(c) = NoSet THEN NoTask
                ELSE [at |-> "add", set |-> Current(c)]]
  /\ UNCHANGED <<linkVars, calls, pc, conns, group, elems, msgVars, history>>

Add(c) ==
  /\ task[c]["api"].at = "add"
  /\ elems' = [elems EXCEPT ![task[c]["api"].set] = @ \cup {c}]
  /\ task' = [task EXCEPT ![c]["api"] = NoTask]
  /\ joined' = joined \cup ({c} \cap conns)
  /\ shaken' = IF Others(c, "api", Removing) # {} THEN shaken \cup {c} ELSE shaken
  /\ UNCHANGED <<linkVars, calls, pc, conns, group, msgVars, late, due>>

(* ContainsKey and the indexer, or the next step of the enumerator. *)
FetchToRemove(c, r) ==
  /\ task[c][r].at = "fetch"
  /\ task' = [task EXCEPT ![c][r] = IF Current(c) = NoSet THEN NoTask
                ELSE [at |-> "remove", set |-> Current(c)]]
  /\ UNCHANGED <<linkVars, calls, pc, conns, group, elems, msgVars, history>>

Remove(c, r) ==
  /\ task[c][r].at = "remove"
  /\ elems' = [elems EXCEPT ![task[c][r].set] = @ \ {c}]
  /\ task' = [task EXCEPT ![c][r].at = "count"]
  /\ UNCHANGED <<linkVars, calls, pc, conns, group, msgVars, history>>

(* Wrong on purpose: the set is dropped whether it is empty or not. *)
CountNothing(c, r) ==
  /\ task[c][r].at = "count"
  /\ task' = [task EXCEPT ![c][r].at = "drop"]
  /\ UNCHANGED <<linkVars, calls, pc, conns, group, elems, msgVars, history>>

Count(c, r) ==
  /\ task[c][r].at = "count"
  /\ task' = [task EXCEPT ![c][r] = IF elems[@.set] = {}
                THEN [@ EXCEPT !.at = "drop"] ELSE NoTask]
  /\ UNCHANGED <<linkVars, calls, pc, conns, group, elems, msgVars, history>>

(* TryRemove takes whatever set is under the key by now. *)
Drop(c, r) ==
  /\ task[c][r].at = "drop"
  /\ group' = [group EXCEPT ![Home[c]] = NoSet]
  /\ task' = [task EXCEPT ![c][r] = NoTask]
  /\ shaken' = shaken \cup Others(c, r, Adding)
  /\ UNCHANGED <<linkVars, calls, pc, conns, elems, msgVars, joined, late, due>>

(* The next step of the call changes the set, it does not just look. *)
Writes(c, r) ==
  \/ task[c][r].at = "add" /\ c \notin elems[task[c][r].set]
  \/ task[c][r].at = "remove" /\ c \in elems[task[c][r].set]

(* Two threads that change one HashSet: any of the entries may be lost, or *)
(* come back.                                                              *)
Clash(c, r, d, q) ==
  LET x == task[c][r].set
      next(e, p) == IF task[e][p].at = "add" THEN NoTask
                    ELSE [at |-> "count", set |-> x]
  IN /\ <<c, r>> # <<d, q>>
     /\ Writes(c, r) /\ Writes(d, q)
     /\ task[d][q].set = x
     /\ \E s \in SUBSET (elems[x] \cup {c, d}) : elems' = [elems EXCEPT ![x] = s]
     /\ task' = [task EXCEPT ![c][r] = next(c, r), ![d][q] = next(d, q)]
     /\ joined' = joined \cup {e \in {c, d} \cap conns : task[e]["api"].at = "add"}
     /\ shaken' = shaken \cup elems[x] \cup {c, d}
     /\ UNCHANGED <<linkVars, calls, pc, conns, group, msgVars, late, due>>

-----------------------------------------------------------------------------
(* Messages to the group.                                                  *)

(* SendGroupAsync on some server: refused without a cache or a topic. *)
Publish(m, s) ==
  /\ pub[m].at = "none"
  /\ cache[s]
  /\ topicOf[s]
  /\ pub' = [pub EXCEPT ![m] = [at |-> "try", by |-> s, tries |-> 3]]
  /\ UNCHANGED <<linkVars, pc, conns, setVars, inbox, cb, got, history>>

Deliver(m) ==
  inbox' = [s \in Servers |-> IF sub[s] = "live"
                              THEN inbox[s] \cup {m} ELSE inbox[s]]

(* DeliveryOption.All: every subscription of the topic gets it. *)
TryPublish(m) ==
  /\ pub[m].at = "try"
  /\ topic
  /\ pub' = [pub EXCEPT ![m].at = "done"]
  /\ Deliver(m)
  /\ due' = [due EXCEPT ![m] = {c \in joined : sub[Home[c]] = "live"}]
  /\ UNCHANGED <<linkVars, pc, conns, setVars, cb, got, joined, shaken, late>>

(* "Topic does not exists": subscribe, and try again. *)
TopicIsGone(m) ==
  /\ pub[m].at = "try"
  /\ ~topic
  /\ pub' = [pub EXCEPT ![m].at = "resubscribe", ![m].tries = @ - 1]
  /\ UNCHANGED <<linkVars, pc, conns, setVars, inbox, cb, got, history>>

Resubscribe(m) ==
  /\ pub[m].at = "resubscribe"
  /\ TakeTopic(pub[m].by)
  /\ Listen(pub[m].by)
  /\ pub' = [pub EXCEPT ![m].at = IF pub[m].tries >= 1 THEN "try" ELSE "done"]
  /\ UNCHANGED <<cache, guard, faults, pc, conns, setVars, inbox, cb, got,
                 history>>

(* Wrong on purpose: every failure is tried again. *)
PublishFailsAndRetries(m) ==
  /\ pub[m].at = "try"
  /\ faults < MaxFaults
  /\ faults' = faults + 1
  /\ pub' = [pub EXCEPT ![m].tries = @ - 1]
  /\ \/ UNCHANGED inbox
     \/ Deliver(m)
  /\ UNCHANGED <<cache, guard, topicOf, sub, topic, made, pc, conns, setVars, cb,
                 got, history>>

(* Any other failure is logged, whether the message went out or not. *)
PublishFails(m) ==
  /\ pub[m].at \in {"try", "resubscribe"}
  /\ faults < MaxFaults
  /\ faults' = faults + 1
  /\ pub' = [pub EXCEPT ![m].at = "done"]
  /\ \/ UNCHANGED inbox
     \/ pub[m].at = "try" /\ Deliver(m)
  /\ UNCHANGED <<cache, guard, topicOf, sub, topic, made, pc, conns, setVars, cb,
                 got, history>>

(* Somebody deletes the topic, which Publish is prepared for. *)
DeleteTopic ==
  /\ topic
  /\ made < MaxTopics
  /\ topic' = FALSE
  /\ sub' = [s \in Servers |-> IF sub[s] = "live" THEN "lost" ELSE sub[s]]
  /\ UNCHANGED <<cache, guard, topicOf, made, faults, pc, conns, setVars,
                 msgVars, history>>

(* messageReceivedCallback, SendToGroups: the group's set ... *)
Receive(s, m) ==
  /\ m \in inbox[s]
  /\ cb[s][m] = NoSet
  /\ IF group[s] = NoSet
     THEN inbox' = [inbox EXCEPT ![s] = @ \ {m}] /\ UNCHANGED cb
     ELSE cb' = [cb EXCEPT ![s][m] = group[s]] /\ UNCHANGED inbox
  /\ UNCHANGED <<linkVars, pc, conns, setVars, pub, got, history>>

WriteTo(s, m, to) ==
  /\ got' = [got EXCEPT ![m] = [c \in Conns |->
                got[m][c] + IF c \in to \cap conns THEN 1 ELSE 0]]
  /\ inbox' = [inbox EXCEPT ![s] = @ \ {m}]
  /\ cb' = [cb EXCEPT ![s][m] = NoSet]

(* ... and those of its connections that are still here. *)
Walk(s, m) ==
  /\ cb[s][m] # NoSet
  /\ WriteTo(s, m, elems[cb[s][m]])
  /\ UNCHANGED <<linkVars, pc, conns, setVars, pub, history>>

(* The set is changed under the enumerator, which throws; the callback     *)
(* swallows it and the rest of the set gets nothing.                       *)
WalkThrows(s, m) ==
  /\ cb[s][m] # NoSet
  /\ \E c \in Conns, r \in Roles :
       Writes(c, r) /\ task[c][r].set = cb[s][m]
  /\ \E to \in SUBSET elems[cb[s][m]] :
       /\ WriteTo(s, m, to)
       /\ due' = [due EXCEPT ![m] = @ \ (elems[cb[s][m]] \ to)]
  /\ UNCHANGED <<linkVars, pc, conns, setVars, pub, joined, shaken, late>>

-----------------------------------------------------------------------------
Init ==
  /\ cache = [s \in Servers |-> FALSE]
  /\ guard = [s \in Servers |-> NoSet]
  /\ topicOf = [s \in Servers |-> FALSE]
  /\ sub = [s \in Servers |-> "null"]
  /\ topic = FALSE
  /\ made = 0
  /\ faults = 0
  /\ pc = [a \in Actors |-> "off"]
  /\ conns = {}
  /\ group = [s \in Servers |-> NoSet]
  /\ elems = [x \in Sets |-> {}]
  /\ task = [c \in Conns |-> [r \in Roles |-> NoTask]]
  /\ calls = 0
  /\ pub = [m \in Msgs |-> NoPub]
  /\ inbox = [s \in Servers |-> {}]
  /\ cb = [s \in Servers |-> [m \in Msgs |-> NoSet]]
  /\ got = [m \in Msgs |-> [c \in Conns |-> 0]]
  /\ joined = {}
  /\ shaken = {}
  /\ late = {}
  /\ due = [m \in Msgs |-> {}]

Link(a) ==
  \/ Start(a) \/ GetCache(a) \/ GetTopic(a)
  \/ CreateSubscription(a) \/ ConnectFails(a)

Call(c) ==
  \/ AddConnection(c) \/ AddToGroup(c) \/ RemoveFromGroup(c) \/ Disconnect(c)
  \/ TryAdd(c) \/ FetchToAdd(c) \/ Add(c)

Change(c, r) ==
  \/ FetchToRemove(c, r) \/ Remove(c, r) \/ Count(c, r) \/ Drop(c, r)
  \/ \E d \in Conns, q \in Roles : Clash(c, r, d, q)

Send(m) ==
  \/ \E s \in Servers : Publish(m, s) \/ Receive(s, m) \/ Walk(s, m)
                         \/ WalkThrows(s, m)
  \/ TryPublish(m) \/ TopicIsGone(m) \/ Resubscribe(m) \/ PublishFails(m)

Next ==
  \/ \E a \in Actors : Link(a)
  \/ \E c \in Conns : Call(c)
  \/ \E c \in Conns, r \in Roles : Change(c, r)
  \/ \E m \in Msgs : Send(m)
  \/ DeleteTopic

Spec == Init /\ [][Next]_vars

-----------------------------------------------------------------------------
(* A server that has a connection to the cache also listens to the topic,  *)
(* but for the time in which somebody is busy subscribing.  A failed       *)
(* attempt leaves no connection behind, so that the next one is made.      *)
ConnectedMeansSubscribed ==
  \A s \in Servers : cache[s] /\ guard[s] = NoSet => sub[s] # "null"

(* A connection whose AddToGroupAsync is over stays in its group: the      *)
(* leaves and disconnects of others, which drop sets they found empty,     *)
(* only take it along when one of them ran while it was joining.           *)
MemberIsListed ==
  \A c \in joined \ shaken :
    /\ Current(c) # NoSet
    /\ c \in elems[Current(c)]

(* Once the task that OnDisconnectedAsync leaves behind is done, the       *)
(* connection is not in the group, unless it was still joining at the time *)
(* or another call was inside the set.                                     *)
GhostOnlyAfterLateJoin ==
  \A c \in Conns :
    /\ pc[c] = "gone"
    /\ task[c]["api"] = NoTask /\ task[c]["bye"] = NoTask
    /\ Current(c) # NoSet
    /\ c \in elems[Current(c)]
    => c \in shaken \cup late

(* A message to the group is written once to each connection that was in   *)
(* it, on a server listening to the topic, when the message was published  *)
(* and that is still in it when its server has handled the message.  Nobody *)
(* gets it twice, whatever fails and is tried again.                       *)
MembersAreReachedOnce ==
  \A m \in Msgs, c \in Conns :
    /\ got[m][c] <= 1
    /\ c \in due[m] \ shaken /\ m \notin inbox[Home[c]] => got[m][c] = 1
=============================================================================
