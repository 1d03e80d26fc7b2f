------------------------------- MODULE JobLine -------------------------------
(***************************************************************************)
(* What the job queue promises its clients and workers: a line of jobs.    *)
(* Enqueue adds at the end; TryDequeue takes the first job, and no other,  *)
(* for one taker; Requeue puts a job in front of all, or at the end when   *)
(* it does not get the lock.  Each happens at once, and nothing else       *)
(* changes the line: a taker that finishes, gives up or dies does not.     *)
(* JobQueue is the protocol of counters, items and two locks that          *)
(* implements it.                                                          *)
(*                                                                         *)
(* The line is a job for each place taken; places are ordered, and need    *)
(* not be adjacent.                                                        *)
(***************************************************************************)
EXTENDS Integers

CONSTANTS
  Places,  \* a set of integers
  Jobs,
  Takers,
  NoJob

VARIABLES
  line,   \* the job at each place of the line
  taken   \* the job each taker took and has neither put back nor finished with

lineVars == <<line, taken>>

LineInit ==
  /\ line = [k \in {} |-> NoJob]
  /\ taken = [w \in Takers |-> NoJob]

First(k) == k \in DOMAIN line /\ \A i \in DOMAIN line : k <= i

PutAt(k, j) == line' = [i \in DOMAIN line \cup {k} |-> IF i = k THEN j ELSE line[i]]

PutLast(j)  == \E k \in Places : (\A i \in DOMAIN line : i < k) /\ PutAt(k, j)
PutFirst(j) == \E k \in Places : (\A i \in DOMAIN line : k < i) /\ PutAt(k, j)

(* Enqueue by a client, and Requeue by the watcher. *)
Add(j) == (PutLast(j) \/ PutFirst(j)) /\ UNCHANGED taken

(* TryDequeue. *)
Take(w) ==
  /\ taken[w] = NoJob
  /\ \E k \in DOMAIN line :
       /\ First(k)
       /\ taken' = [taken EXCEPT ![w] = line[k]]
       /\ line' = [i \in DOMAIN line \ {k} |-> line[i]]

(* Requeue by the worker that took the job. *)
GiveBack(w) ==
  /\ taken[w] # NoJob
  /\ PutFirst(taken[w]) \/ PutLast(taken[w])
  /\ taken' = [taken EXCEPT ![w] = NoJob]

(* RemoveFromQueue, and whatever else parts takers and their jobs. *)
PartWith(W) ==
  /\ \A w \in W : taken[w] # NoJob
  /\ taken' = [w \in Takers |-> IF w \in W THEN NoJob ELSE taken[w]]
  /\ UNCHANGED line

LineNext ==
  \/ \E W \in SUBSET Takers : PartWith(W)
  \/ \E w \in Takers : Take(w) \/ GiveBack(w)
  \/ \E j \in Jobs : Add(j)

LineSpec == LineInit /\ [][LineNext]_lineVars
=============================================================================
