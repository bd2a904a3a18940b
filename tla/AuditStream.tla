----------------------------- MODULE AuditStream -----------------------------
(***************************************************************************)
(* GET /workspaces/:id/events: the audit log of a Workspace streamed to    *)
(* clients that reconnect with the last event id they kept.                *)
(*                                                                         *)
(* The server polls: a data tick takes a snapshot of the log behind its    *)
(* cursor (one statement, so one moment of the database), and what it      *)
(* returned is flushed into the response as far as there is room.          *)
(* The log is AuditTrail's, so a restore may come between any two steps.   *)
(* retention_floor is left out: no code of this version ever raises it.    *)
(*                                                                         *)
(* Clients do as the route's description asks: they keep the full id of    *)
(* what they received, some time after they used it, and ignore what they  *)
(* already have; on cursor_expired they start over.                        *)
(***************************************************************************)
EXTENDS AuditTrail, FiniteSets

CONSTANTS
  Clients,
  Page,         \* LIMIT 100 of a snapshot
  Room,         \* STREAM_BYTES: the frames a response holds before its client reads
  MaxHead,      \* bound: events of the log
  MaxRestores,  \* bound: restores
  Ready,        \* the first frame of a response
  Unknown       \* the generation of a client that never had a cursor

ASSUME StreamAssumption ==
  /\ Page \in Nat \ {0} /\ Room \in Nat \ {0}
  /\ MaxHead \in Nat /\ MaxRestores \in Nat
  /\ Ready \notin Event
  /\ Unknown \notin Nat

VARIABLES
  client,   \* per client: the id it kept, and what it has of the log
  stream    \* per client: the server's side of its connection

vars == <<trail, client, stream>>

-----------------------------------------------------------------------------
(* Cursors and snapshots *)

Cursor(g, n) == [generation |-> g, after |-> n]
Frame(n, e) == [generation |-> generation, at |-> n, event |-> e]

(* Mutant: a cursor is good for any generation. *)
AcceptedAnyGeneration(cur) == ~gated /\ cur.after <= Len(log)

(* validateStreamCursor, behind the gate check of auditSnapshot.           *)
Accepted(cur) ==
  /\ ~gated
  /\ cur.generation \in {generation, Unknown}
  /\ cur.after <= Len(log)

Snapshot(cur) ==
  LET last == IF cur.after + Page < Len(log) THEN cur.after + Page ELSE Len(log)
  IN  IF Accepted(cur)
      THEN [ok |-> TRUE,
            frames |-> [i \in 1 .. last - cur.after |-> Frame(cur.after + i, log[cur.after + i])]]
      ELSE [ok |-> FALSE, frames |-> <<>>]

NoAnswer == [ok |-> FALSE, frames |-> <<>>]
Closed == [open |-> FALSE, cursor |-> Cursor(0, 0), frames |-> <<>>, wire |-> <<>>,
           busy |-> FALSE, answer |-> NoAnswer]

(* Mutant: a flush that leaves the cursor where it was. *)
FlushedStill(st) ==
  LET free == Room - Len(st.wire)
      n == IF Len(st.frames) < free THEN Len(st.frames) ELSE free
  IN  IF n <= 0 THEN st
      ELSE [st EXCEPT !.wire = @ \o SubSeq(st.frames, 1, n),
                      !.frames = SubSeq(@, n + 1, Len(@))]

(* flush: frames leave for the wire while there is room, and the cursor    *)
(* moves with them.                                                        *)
Flushed(st) ==
  LET free == Room - Len(st.wire)
      n == IF Len(st.frames) < free THEN Len(st.frames) ELSE free
  IN  IF n <= 0 THEN st
      ELSE [st EXCEPT !.cursor.after = st.frames[n].at,
                      !.wire = @ \o SubSeq(st.frames, 1, n),
                      !.frames = SubSeq(@, n + 1, Len(@))]

(* finish: what is on the wire is still delivered, nothing follows it. *)
Finished(st) == [st EXCEPT !.open = FALSE, !.frames = <<>>]

-----------------------------------------------------------------------------
(* The server *)

Serve(c, st) == stream' = [stream EXCEPT ![c] = st] /\ UNCHANGED <<trail, client>>

(* dataTick asks for more once everything was read. *)
Query(c) ==
  LET st == stream[c] IN
  /\ st.open /\ ~st.busy /\ st.frames = <<>> /\ st.wire = <<>>
  /\ Serve(c, [st EXCEPT !.busy = TRUE, !.answer = Snapshot(st.cursor)])

Answer(c) ==
  LET st == [stream[c] EXCEPT !.busy = FALSE, !.answer = NoAnswer]
      answer == stream[c].answer
  IN
  /\ stream[c].busy
  /\ Serve(c, IF ~st.open THEN st
              ELSE IF answer.ok THEN Flushed([st EXCEPT !.frames = answer.frames])
              ELSE Finished(st))

(* pull, and the flush at the start of a dataTick *)
Flush(c) ==
  /\ stream[c].open /\ Flushed(stream[c]) # stream[c]
  /\ Serve(c, Flushed(stream[c]))

(* accessTick *)
Recheck(c) ==
  /\ stream[c].open /\ ~Accepted(stream[c].cursor)
  /\ Serve(c, Finished(stream[c]))

(* slow_consumer, events_unavailable, a credential that was revoked *)
Finish(c) == stream[c].open /\ Serve(c, Finished(stream[c]))

(* The connection, or the server, is gone with all that was under way. *)
Cut(c) == stream[c].open /\ Serve(c, Closed)

-----------------------------------------------------------------------------
(* The client *)

(* To start over at position n: at the beginning, or at the head reported. *)
Fresh(cur) == [kept |-> cur, seen |-> cur, base |-> cur.after, got |-> <<>>]

(* A client without a generation asks from the beginning.  cursor_expired  *)
(* reports the generation that the log has or will have after the restore. *)
Connect(c) ==
  LET cur == client[c].kept
      answer == Snapshot(cur)
      opened == [Closed EXCEPT !.open = TRUE, !.cursor = Cursor(generation, cur.after),
                               !.frames = answer.frames, !.wire = <<Frame(cur.after, Ready)>>]
  IN
  /\ ~stream[c].open /\ stream[c].wire = <<>>
  /\ \/ /\ answer.ok
        /\ stream' = [stream EXCEPT ![c] = Flushed(opened)]
        /\ client' = [client EXCEPT ![c] = IF cur.generation = Unknown THEN Fresh(cur) ELSE @]
     \/ /\ ~answer.ok
        /\ stream' = [stream EXCEPT ![c] = Closed]
        /\ \E n \in {0, Len(log)} :
             client' = [client EXCEPT ![c] =
                         Fresh(Cursor(IF gated THEN epoch ELSE generation, n))]
  /\ UNCHANGED trail

Receive(c) ==
  LET f == Head(stream[c].wire)
      have == client[c].seen
      new == f.event # Ready /\ f.at > have.after
  IN
  /\ stream[c].wire # <<>>
  /\ stream' = [stream EXCEPT ![c].wire = Tail(@)]
  /\ client' = [client EXCEPT
       ![c].seen = Cursor(f.generation, IF new THEN f.at ELSE have.after),
       ![c].got = IF new THEN Append(@, f.event) ELSE @]
  /\ UNCHANGED trail

Keep(c) ==
  /\ client[c].kept # client[c].seen
  /\ client' = [client EXCEPT ![c].kept = client[c].seen]
  /\ UNCHANGED <<trail, stream>>

-----------------------------------------------------------------------------
(* Specification *)

Init ==
  /\ TrailInit
  /\ client = [c \in Clients |-> Fresh(Cursor(Unknown, 0))]
  /\ stream = [c \in Clients |-> Closed]

Database ==
  /\ \/ \E n \in 1 .. MaxHead - Len(log) : \E es \in [1 .. n -> Event] : Grow(es)
     \/ Backup
     \/ epoch < MaxRestores /\ Restore
     \/ \E opens \in BOOLEAN : Release(<<>>, opens)
     \/ Len(log) < MaxHead /\ \E e \in Event, opens \in BOOLEAN : Release(<<e>>, opens)
  /\ UNCHANGED <<client, stream>>

Next ==
  \/ Database
  \/ \E c \in Clients :
       \/ Query(c)
       \/ Answer(c)
       \/ Flush(c)
       \/ Recheck(c)
       \/ Finish(c)
       \/ Cut(c)
       \/ Connect(c)
       \/ Receive(c)
       \/ Keep(c)

(* setInterval fires, a statement ends (or its deadline does), a stream    *)
(* with room pulls, a client reads what arrives and reconnects.            *)
Fairness ==
  \A c \in Clients :
    /\ WF_vars(Query(c)) /\ WF_vars(Answer(c)) /\ WF_vars(Flush(c))
    /\ WF_vars(Connect(c)) /\ WF_vars(Receive(c))

Spec == Init /\ [][Next]_vars
FairSpec == Spec /\ Fairness

-----------------------------------------------------------------------------
(* Properties *)

Cursors == [generation : 0 .. MaxRestores, after : 0 .. MaxHead]
Frames == Seq([generation : 0 .. MaxRestores, at : 0 .. MaxHead, event : Event \cup {Ready}])
TypeOK ==
  /\ TrailTypeOK
  /\ Len(log) <= MaxHead /\ epoch <= MaxRestores
  /\ \A c \in Clients :
       /\ {client[c].kept, client[c].seen} \subseteq Cursors \cup {Cursor(Unknown, 0)}
       /\ client[c].base \in 0 .. MaxHead /\ client[c].got \in Seq(Event)
       /\ stream[c].cursor \in Cursors
       /\ stream[c].frames \in Frames /\ stream[c].wire \in Frames
       /\ Len(stream[c].wire) <= Room /\ Len(stream[c].frames) <= Page

(* Whenever the server would resume a client where it says it is, the      *)
(* client has exactly the committed events from where it started up to     *)
(* there: no event was skipped, whatever was cut, repeated or restored, and *)
(* nothing of a timeline that a restore gave up is taken for this one      *)
(* (ADR-0006; stream-audit-input.ts:39).                                   *)
Resumable ==
  \A c \in Clients :
    LET me == client[c]
        end == me.base + Len(me.got)
    IN  Accepted(me.kept) /\ me.kept.generation # Unknown =>
          /\ me.kept.after <= end /\ end <= Len(log)
          /\ me.got = SubSeq(log, me.base + 1, end)

(* A client that stays connected long enough has every committed event,    *)
(* unless the database stays behind its gate.                              *)
CaughtUp(c) == client[c].base + Len(client[c].got) = Len(log)
Interrupted(c) == Cut(c) \/ Finish(c)
Follows ==
  \A c \in Clients :
    <>[][~Interrupted(c)]_vars => <>[](gated \/ CaughtUp(c))
=============================================================================
