-------------------------- MODULE StreamAdmission --------------------------
(***************************************************************************)
(* The resources of the audit streams of one server process                *)
(* (apps/server/events/stream-audit-route.ts and stream-audit.ts): the     *)
(* counters of open streams, for the process, each Workspace and each      *)
(* actor, and the gate that lets two queries run at once.  A stream passes *)
(* the gate to be authorized and to read its first batch, and then with    *)
(* two timers, one for data and one for access.  What it reads is the      *)
(* subject of module AuditStream.                                          *)
(***************************************************************************)
EXTENDS Naturals, FiniteSets

CONSTANTS
  Streams,      \* requests; an identity is used again
  Workspaces, Actors,
  AppLimit, ActorLimit,
  Quotas,       \* what a User may set as the limit of a Workspace
  Width         \* queries that run at once

\* Assumed of the constants, by the module that gives them values.
StreamAdmissionAssumption ==
  /\ IsFiniteSet(Streams) /\ Workspaces # {} /\ Actors # {}
  /\ {AppLimit, ActorLimit, Width} \subseteq Nat \ {0} /\ Quotas \subseteq Nat

VARIABLES
  stream,    \* of each request: step, Workspace, actor, whether the client is gone
  counters,  \* app: number; workspace, actor: of each
  query,     \* of each stream, in its two places
  running    \* StreamQueries.active

vars == <<stream, counters, query, running>>

-----------------------------------------------------------------------------
Places == {"data", "access"}
Unused == [step |-> "none", aborted |-> FALSE]
At(s, step) == stream[s].step = step
To(s, step) == stream' = [stream EXCEPT ![s].step = step]
Closed == [step |-> "idle", workspace |-> CHOOSE w \in Workspaces : TRUE,
           actor |-> CHOOSE a \in Actors : TRUE, gone |-> FALSE]

(* StreamQueries.run: it runs when there is room, and waits otherwise.     *)
Entered(q) == [q EXCEPT !.step = IF running >= Width THEN "waiting" ELSE "running"]
Started(s, p) ==
  /\ query' = [query EXCEPT ![s][p] = Entered([Unused EXCEPT !.aborted = stream[s].gone])]
  /\ running' = IF running >= Width THEN running ELSE running + 1

(* A query that was woken tries again; an aborted one gives up.            *)
Resume(s, p) ==
  /\ query[s][p].step = "woken" /\ ~query[s][p].aborted
  /\ query' = [query EXCEPT ![s][p] = Entered(@)]
  /\ running' = IF running >= Width THEN running ELSE running + 1
  /\ UNCHANGED <<stream, counters>>

(* The deadline, or the end of the stream; it wakes a query that waits.    *)
Aborted(q) == [q EXCEPT !.aborted = TRUE,
                        !.step = IF @ = "waiting" THEN "woken" ELSE @]
Expire(s, p) ==
  /\ query[s][p].step \in {"waiting", "woken", "running"} /\ ~query[s][p].aborted
  /\ query' = [query EXCEPT ![s][p] = Aborted(@)]
  /\ UNCHANGED <<stream, counters, running>>

(* Mutant: the end of a query wakes one waiter. *)
WokenOne(s, p) ==
  IF \E t \in Streams, o \in Places : query[t][o].step = "waiting"
  THEN LET one == CHOOSE x \in Streams \X Places : query[x[1]][x[2]].step = "waiting"
       IN [query EXCEPT ![s][p] = Unused, ![one[1]][one[2]].step = "woken"]
  ELSE [query EXCEPT ![s][p] = Unused]
Woken(s, p) == [t \in Streams |-> [o \in Places |->
  IF t = s /\ o = p THEN Unused
  ELSE IF query[t][o].step = "waiting" THEN [query[t][o] EXCEPT !.step = "woken"] ELSE query[t][o]]]

(* The end of a query: TRUE with an answer, FALSE with an error *)
Ended(s, p, ok) ==
  \/ /\ query[s][p].step = "running" /\ (query[s][p].aborted => ~ok)
     /\ running' = running - 1
     /\ query' = Woken(s, p)
  \/ /\ query[s][p].step = "woken" /\ query[s][p].aborted /\ ~ok
     /\ query' = [query EXCEPT ![s][p] = Unused]
     /\ UNCHANGED running

-----------------------------------------------------------------------------
Bump(s, d) ==
  [counters EXCEPT !.app = @ + d - 1, !.workspace[stream[s].workspace] = @ + d - 1,
                   !.actor[stream[s].actor] = @ + d - 1]
Raised(s) == Bump(s, 2)
Lowered(s) == Bump(s, 0)

Request(s) ==
  /\ At(s, "idle")
  /\ \E w \in Workspaces, a \in Actors :
       stream' = [stream EXCEPT ![s] = [step |-> "authorizing", workspace |-> w, actor |-> a, gone |-> FALSE]]
  /\ Started(s, "data")
  /\ UNCHANGED counters

Authorized(s) ==
  /\ At(s, "authorizing")
  /\ \E ok \in BOOLEAN : Ended(s, "data", ok) /\ To(s, IF ok THEN "admitting" ELSE "idle")
  /\ UNCHANGED counters

(* admitStream: the counters are read and raised with nothing in between,  *)
(* after the quota was read.                                               *)
Admissible(s, quota) ==
  /\ counters.app < AppLimit /\ counters.workspace[stream[s].workspace] < quota
  /\ counters.actor[stream[s].actor] < ActorLimit
Admit(s) ==
  /\ At(s, "admitting")
  /\ \E quota \in Quotas :
       IF ~stream[s].gone /\ Admissible(s, quota)
       THEN counters' = Raised(s) /\ To(s, "opening") /\ Started(s, "data")
       ELSE To(s, "idle") /\ UNCHANGED <<counters, query, running>>

(* Mutant: a first batch that fails does not lower the counters. *)
Forgotten(s) == counters
Refused(s) == Lowered(s)
Open(s) ==
  /\ At(s, "opening")
  /\ \E ok \in BOOLEAN :
       /\ Ended(s, "data", ok)
       /\ IF ok /\ ~stream[s].gone
          THEN To(s, "streaming") /\ UNCHANGED counters
          ELSE counters' = Refused(s) /\ To(s, "idle")

Tick(s, p) ==
  /\ At(s, "streaming") /\ query[s][p] = Unused
  /\ Started(s, p)
  /\ UNCHANGED <<stream, counters>>

Tock(s, p) ==
  /\ At(s, "streaming")
  /\ \E ok \in BOOLEAN : Ended(s, p, ok) /\ To(s, IF ok THEN "streaming" ELSE "failing")
  /\ UNCHANGED counters

(* cleanup: the reader cancels, the client is gone, or a query reported    *)
(* an error.  The lifetime ends for the queries under way.                 *)
Finish(s) ==
  /\ stream[s].step \in {"streaming", "failing"}
  /\ To(s, "closing")
  /\ query' = [query EXCEPT ![s] = [p \in Places |->
       IF query[s][p].step = "none" THEN Unused ELSE Aborted(query[s][p])]]
  /\ UNCHANGED <<counters, running>>
Settle(s, p) ==
  /\ At(s, "closing")
  /\ \E ok \in BOOLEAN : Ended(s, p, ok)
  /\ UNCHANGED <<stream, counters>>
Release(s) ==
  /\ At(s, "closing") /\ \A p \in Places : query[s][p] = Unused
  /\ counters' = Lowered(s)
  /\ To(s, "idle")
  /\ UNCHANGED <<query, running>>

(* The client leaves while the request is being prepared.                  *)
Leave(s) ==
  /\ stream[s].step \in {"authorizing", "admitting", "opening"} /\ ~stream[s].gone
  /\ stream' = [stream EXCEPT ![s].gone = TRUE]
  /\ query' = [query EXCEPT ![s]["data"] = IF @ = Unused THEN @ ELSE Aborted(@)]
  /\ UNCHANGED <<counters, running>>

-----------------------------------------------------------------------------
Init ==
  /\ stream = [s \in Streams |-> Closed]
  /\ counters = [app |-> 0, workspace |-> [w \in Workspaces |-> 0], actor |-> [a \in Actors |-> 0]]
  /\ query = [s \in Streams |-> [p \in Places |-> Unused]]
  /\ running = 0

Next == \E s \in Streams :
  \/ Request(s) \/ Authorized(s) \/ Admit(s) \/ Open(s) \/ Finish(s) \/ Release(s) \/ Leave(s)
  \/ \E p \in Places : Resume(s, p) \/ Expire(s, p) \/ Tick(s, p) \/ Tock(s, p) \/ Settle(s, p)

Spec == Init /\ [][Next]_vars

-----------------------------------------------------------------------------
Counting == {s \in Streams : stream[s].step \in {"opening", "streaming", "failing", "closing"}}

(* The counters are the streams that were admitted and have not ended,     *)
(* whatever ended them; a query that outlives its stream still counts.     *)
StreamsCounted ==
  /\ counters.app = Cardinality(Counting) /\ counters.app <= AppLimit
  /\ \A w \in Workspaces : counters.workspace[w] = Cardinality({s \in Counting : stream[s].workspace = w})
  /\ \A a \in Actors : /\ counters.actor[a] = Cardinality({s \in Counting : stream[s].actor = a})
                       /\ counters.actor[a] <= ActorLimit

(* No query waits while there is room: not when a woken one has expired,   *)
(* and not when a newcomer took its place.                                 *)
NoIdleQuery ==
  /\ running = Cardinality({x \in Streams \X Places : query[x[1]][x[2]].step = "running"})
  /\ running <= Width
  /\ (\E s \in Streams, p \in Places : query[s][p].step = "waiting") => running = Width

(* No slot and no turn leaks, whatever ends a stream or a query.           *)
StreamsAccounted == StreamsCounted /\ NoIdleQuery
=============================================================================
