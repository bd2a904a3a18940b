------------------------------ MODULE Timeline ------------------------------
(***************************************************************************)
(* The timeline of one Run in the dashboard (apps/web/client/audit-state.ts *)
(* and audit-stream.ts): a page of the browser that first reads the        *)
(* history, stages it, and then follows the stream, which the server may   *)
(* cut or expire.  Whatever the page starts belongs to an epoch of it; the *)
(* end of the epoch cancels what it started, and the callbacks that run    *)
(* none the less see that it has ended and do nothing.                     *)
(*                                                                         *)
(* The log is AuditTrail's, so a restore may come between any two steps;   *)
(* the server's side of the stream is the subject of module AuditStream.   *)
(***************************************************************************)
EXTENDS AuditTrail, FiniteSets

CONSTANTS
  Mine,         \* the events of the Run
  Limit,        \* events in a page of the history
  MaxHead,      \* bound: events of the log
  MaxRestores,  \* bound
  MaxEpoch,     \* bound: what ends an epoch of the page
  Nothing

\* Assumed of the constants, by the module that gives them values.
TimelineAssumption ==
  /\ Mine \subseteq Event /\ Limit \in Nat \ {0}
  /\ {MaxHead, MaxRestores, MaxEpoch} \subseteq Nat /\ Nothing \notin Nat \cup Event

VARIABLES
  page,   \* TimelineState
  conn    \* what the page's epoch has started

vars == <<trail, page, conn>>

-----------------------------------------------------------------------------
Row(g, n, e) == [generation |-> g, at |-> n, event |-> e]
(* staged: the history that was read, in a set of its own, or {}.          *)
initialTimeline == [epoch |-> 0, generation |-> Nothing, after |-> 0, staged |-> {},
                    events |-> {}, error |-> FALSE]
Unstarted == [step |-> "none", generation |-> Nothing, head |-> 0, read |-> 0, events |-> {},
              cursor |-> 0, wire |-> <<>>]

(* validateStreamCursor, behind the gate; who names no generation asks     *)
(* from the beginning.                                                     *)
Accepted(g, after) == ~gated /\ g = generation /\ after <= Len(log)

(* What ends the epoch of the page ends its connection, and the next one   *)
(* is made after a while.                                                  *)
(* Mutant: the rows stay on the screen until there are new ones. *)
ExpiredKept == [initialTimeline EXCEPT !.epoch = page.epoch + 1, !.events = page.events]
Expired == [initialTimeline EXCEPT !.epoch = page.epoch + 1]
Disconnected == [page EXCEPT !.epoch = @ + 1]
Ends(state) == page.epoch < MaxEpoch /\ page' = state /\ conn' = Unstarted

-----------------------------------------------------------------------------
(* connect: the probe, which tells where the log is, and whether the page  *)
(* can go on where it was.  Behind the gate it tells the generation that   *)
(* the log will have.                                                      *)
Bootstrap == page.generation = Nothing \/ page.staged # {}

Probe ==
  /\ ~page.error /\ conn.step = "none"
  /\ IF Bootstrap
     THEN /\ conn' = [Unstarted EXCEPT !.step = "reading", !.head = Len(log),
                                       !.generation = IF gated THEN epoch ELSE generation]
          /\ UNCHANGED page
     ELSE IF Accepted(page.generation, page.after)
     THEN conn' = [Unstarted EXCEPT !.step = "ready"] /\ UNCHANGED page
     ELSE Ends(Expired)
  /\ UNCHANGED trail

(* A page of the Run's events, of whatever timeline the log is in by then  *)
Later(n) == {i \in n + 1 .. Len(log) : log[i] \in Mine}
PageAfter(n) == {i \in Later(n) : Cardinality({j \in Later(n) : j <= i}) <= Limit}
Last(S, n) == IF S = {} THEN n ELSE CHOOSE i \in S : \A j \in S : j <= i
Read ==
  LET c == conn
      rows == PageAfter(c.read)
      next == Last(rows, c.read)
      all == c.events \cup {Row(c.generation, i, log[i]) : i \in {j \in rows : j <= c.head}}
  IN
  /\ ~page.error /\ c.step = "reading"
  /\ IF c.read < c.head /\ rows # {} /\ next < c.head
     THEN conn' = [c EXCEPT !.read = next, !.events = all] /\ UNCHANGED page
     ELSE /\ conn' = [Unstarted EXCEPT !.step = "ready"]
          /\ page' = [page EXCEPT !.generation = c.generation, !.after = c.head, !.staged = {all}]
  /\ UNCHANGED trail

(* The EventSource.  Its first frame says where it begins. *)
Open ==
  /\ ~page.error /\ conn.step = "ready"
  /\ IF Accepted(page.generation, page.after)
     THEN /\ conn' = [conn EXCEPT !.step = "open", !.generation = generation, !.cursor = page.after,
                                  !.wire = <<Row(generation, page.after, Nothing)>>]
          /\ UNCHANGED page
     ELSE Ends(Disconnected)
  /\ UNCHANGED trail

(* The server sends the next event, or that the cursor is no longer good.  *)
Serve ==
  LET c == conn IN
  /\ c.step = "open"
  /\ IF Accepted(c.generation, c.cursor)
     THEN /\ c.cursor < Len(log)
          /\ conn' = [c EXCEPT !.cursor = @ + 1,
                               !.wire = Append(@, Row(generation, c.cursor + 1, log[c.cursor + 1]))]
     ELSE conn' = [c EXCEPT !.step = "refused"]
  /\ UNCHANGED <<trail, page>>

(* reduceAudit, for the first frame and for the events *)
Ready(f) ==
  IF f.generation # page.generation \/ f.at # page.after THEN Expired
  ELSE IF page.staged = {} THEN page
  ELSE [page EXCEPT !.staged = {},
                    !.events = {r \in UNION page.staged : r.event \in Mine /\ r.at <= page.after}]
Audit(f) ==
  IF page.staged # {} \/ f.generation # page.generation THEN Expired
  ELSE IF \E r \in page.events : r.at = f.at /\ r.generation = f.generation /\ r # f
  THEN [page EXCEPT !.error = TRUE]
  ELSE [page EXCEPT !.events = IF f.event \in Mine THEN @ \cup {f} ELSE @,
                    !.after = IF f.at > @ THEN f.at ELSE @]
Receive ==
  LET f == Head(conn.wire) IN
  /\ ~page.error /\ conn.wire # <<>> /\ page.epoch < MaxEpoch
  /\ page' = IF f.event = Nothing THEN Ready(f) ELSE Audit(f)
  /\ conn' = IF page'.epoch = page.epoch THEN [conn EXCEPT !.wire = Tail(@)] ELSE Unstarted
  /\ UNCHANGED trail
Refused ==
  /\ ~page.error /\ conn.step = "refused" /\ conn.wire = <<>>
  /\ Ends(Expired)
  /\ UNCHANGED trail

(* An error, a stall of thirty seconds, a connection that is gone *)
Lost == ~page.error /\ conn.step # "none" /\ Ends(Disconnected) /\ UNCHANGED trail

-----------------------------------------------------------------------------
Init ==
  /\ TrailInit
  /\ page = initialTimeline
  /\ conn = Unstarted

Database ==
  /\ \/ Len(log) < MaxHead /\ \E e \in Event : Grow(<<e>>)
     \/ Backup
     \/ epoch < MaxRestores /\ Restore
     \/ Release(<<>>, TRUE)
     \/ Len(log) < MaxHead /\ \E e \in Event : Release(<<e>>, TRUE)
  /\ UNCHANGED <<page, conn>>

Next ==
  \/ Database
  \/ Probe \/ Read \/ Open \/ Serve \/ Receive \/ Refused \/ Lost

Spec == Init /\ [][Next]_vars

-----------------------------------------------------------------------------
(* What the page shows is of one timeline, and while that is the timeline  *)
(* of the log, it is exactly the Run's events up to where the page says it *)
(* is: nothing of a restored past, nothing skipped between the history and *)
(* the stream, and the page never stops over a conflict.                   *)
Shown ==
  /\ ~page.error
  /\ \A r \in page.events : r.generation = page.generation
  /\ page.generation = generation /\ ~gated /\ page.staged = {} =>
       /\ page.after <= Len(log)
       /\ page.events = {Row(generation, i, log[i]) : i \in {j \in 1 .. page.after : log[j] \in Mine}}
=============================================================================
