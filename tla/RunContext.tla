----------------------------- MODULE RunContext -----------------------------
(***************************************************************************)
(* The write path: withRunContext and audit.bind_context.  Every write is  *)
(* one transaction that takes its Workspace's audit.cursor row, rechecks   *)
(* the restore gate, the Principal and the Run behind that lock, emits     *)
(* Audit Events at the next positions, and commits it all.  The writes     *)
(* here are those that other writes depend on: creating a Run, revoking a  *)
(* Principal, releasing a restore; "work" stands for any other.            *)
(*                                                                         *)
(* What a transaction changed is kept in its session until COMMIT.  The    *)
(* transactions run under READ COMMITTED, so what one reads after it got   *)
(* the lock is what the holder before it committed.                        *)
(*                                                                         *)
(* The heads a backup's manifest requires are those of a moment before its *)
(* restore point, so a recovered database always has them: the head checks *)
(* of restore() and restore_progress pass and are left out.                *)
(***************************************************************************)
EXTENDS Naturals, Sequences, FiniteSets

CONSTANTS
  Workspaces,
  Principals,
  Home,          \* [Principals -> Workspaces]
  Revocable,     \* the Principals a User revokes in this instance
  RunIds,        \* random UUIDs: drawn once, whatever is restored
  Sessions,      \* database sessions of the pool
  MaxHead,       \* bound: events of a Workspace
  MaxEmits,      \* bound: events of one piece of work
  MaxRestores,   \* bound: restores of the database
  User, NoRun, Nobody

ASSUME ContextAssumption ==
  /\ Home \in [Principals -> Workspaces]
  /\ Revocable \subseteq Principals
  /\ NoRun \notin RunIds
  /\ User \notin Principals /\ Nobody \notin Principals \cup {User}
  /\ MaxHead \in Nat /\ MaxEmits \in Nat \ {0} /\ MaxRestores \in Nat

VARIABLES
  cursor,    \* audit.cursor: head and generation of each Workspace
  events,    \* audit.events: of each Workspace, by position
  status,    \* control.principals.status
  runs,      \* control.runs.principal_id, Nobody for a Run that is not there
  gate,      \* control.restore_gate, and the restore_workspaces of its epoch
  sessions,  \* the transactions
  saved,     \* the backup
  drawn      \* the UUIDs ever drawn

vars == <<cursor, events, status, runs, gate, sessions, saved, drawn>>

-----------------------------------------------------------------------------
(* Data *)

Kinds == {"work", "runs.created", "principal.revoked", "restore.progress"}
Event == [kind : Kinds, by : Principals \cup {User}, run : RunIds \cup {NoRun},
          of : Principals \cup {Nobody}]
Positions == 1 .. MaxHead
IsRows(f) == DOMAIN f \subseteq Positions /\ f \in [DOMAIN f -> Event]

Verbs == {"work", "create", "revoke", "release"}
Request == [verb : Verbs, workspace : Workspaces, by : Principals \cup {User},
            run : RunIds \cup {NoRun}, of : Principals \cup {Nobody}, epoch : 0 .. MaxRestores]

Steps == {"idle", "waiting", "locked", "bound", "worked"}
NoRequest == [verb |-> "work", workspace |-> CHOOSE w \in Workspaces : TRUE,
              by |-> User, run |-> NoRun, of |-> Nobody, epoch |-> 0]
Idle == [step |-> "idle", request |-> NoRequest, head |-> 0, rows |-> <<>>,
         gateLock |-> "none", finishes |-> FALSE, opens |-> FALSE]

(* A database without Workspaces is open at once. *)
NewGate(e) ==
  [active |-> e > 0 /\ Workspaces # {}, epoch |-> e, rotated |-> [w \in Workspaces |-> FALSE],
   done |-> [w \in Workspaces |-> FALSE]]

-----------------------------------------------------------------------------
(* Transactions *)

Of(s) == sessions[s].request
Holds(s, w) == sessions[s].step \in {"locked", "bound", "worked"} /\ Of(s).workspace = w
FreeGate(s) == \A t \in Sessions \ {s} : sessions[t].gateLock # "update"
(* Mutant: the release does not wait for the gate's row. *)
GateUnlocked(s) == TRUE
UnsharedGate(s) == \A t \in Sessions \ {s} : sessions[t].gateLock = "none"
Now(s, tx) == sessions' = [sessions EXCEPT ![s] = tx]
Data == <<cursor, events, status, runs, gate>>

(* Rows and the rows under them, as an insert leaves them *)
Over(new, old) ==
  [i \in DOMAIN new \cup DOMAIN old |-> IF i \in DOMAIN new THEN new[i] ELSE old[i]]

(* audit.emit: the transaction's own view of the cursor moves on. *)
Emitted(tx, kind, of) ==
  LET row == [kind |-> kind, by |-> tx.request.by, run |-> tx.request.run, of |-> of]
  IN  [tx EXCEPT !.head = @ + 1, !.rows = Over(@, [i \in {tx.head + 1} |-> row])]

(* A request whose credential was accepted, some time before its transaction *)
(* gets to run.                                                            *)
Ask(s, q) ==
  /\ sessions[s].step = "idle"
  /\ q.by # User => status[q.by] = "active"
  /\ q.verb = "create" => q.run \notin drawn
  /\ q.verb = "work" => q.run \in drawn
  /\ q.epoch <= gate.epoch
  /\ drawn' = IF q.verb = "create" THEN drawn \cup {q.run} ELSE drawn
  /\ Now(s, [Idle EXCEPT !.step = "waiting", !.request = q])
  /\ UNCHANGED <<Data, saved>>

(* audit.lock_workspace *)
Lock(s) ==
  /\ sessions[s].step = "waiting"
  /\ \A t \in Sessions : ~Holds(t, Of(s).workspace)
  /\ Now(s, [sessions[s] EXCEPT !.step = "locked", !.head = cursor[Of(s).workspace].head])
  /\ UNCHANGED <<Data, saved, drawn>>

(* What bind_context rechecks behind the lock.  A new Run's row is inserted *)
(* by this transaction itself.                                             *)
(* Mutants: status as of authentication; any Run a Principal names.        *)
MayActOnceActive(q) ==
  /\ ~gate.active
  /\ q.verb = "create" \/ runs[q.run] = q.by
MayActUnderAnyRun(q) ==
  /\ ~gate.active
  /\ status[q.by] = "active"
MayAct(q) ==
  /\ ~gate.active
  /\ status[q.by] = "active"
  /\ q.verb = "create" \/ runs[q.run] = q.by

Bind(s) ==
  /\ sessions[s].step = "locked"
  /\ Of(s).by # User => FreeGate(s) /\ MayAct(Of(s))
  /\ Now(s, [sessions[s] EXCEPT
              !.step = "bound", !.gateLock = IF Of(s).by = User THEN "none" ELSE "share"])
  /\ UNCHANGED <<Data, saved, drawn>>

Work(s) ==
  /\ sessions[s].step = "bound" /\ Of(s).verb = "work"
  /\ sessions[s].head < MaxHead /\ Cardinality(DOMAIN sessions[s].rows) < MaxEmits
  /\ Now(s, Emitted(sessions[s], "work", Nobody))
  /\ UNCHANGED <<Data, saved, drawn>>

Create(s) ==
  /\ sessions[s].step = "bound" /\ Of(s).verb = "create"
  /\ sessions[s].head < MaxHead
  /\ Now(s, [Emitted(sessions[s], "runs.created", Nobody) EXCEPT !.step = "worked"])
  /\ UNCHANGED <<Data, saved, drawn>>

(* A repeated revocation emits nothing. *)
Revoke(s) ==
  LET p == Of(s).of IN
  /\ sessions[s].step = "bound" /\ Of(s).verb = "revoke"
  /\ sessions[s].head < MaxHead
  /\ Now(s, [IF status[p] = "revoked" THEN sessions[s]
             ELSE Emitted(sessions[s], "principal.revoked", p) EXCEPT !.step = "worked"])
  /\ UNCHANGED <<Data, saved, drawn>>

(* Mutant: each Workspace opens the gate for itself. *)
LastAlways(w) == TRUE
LastToFinish(w) == \A v \in Workspaces \ {w} : gate.done[v]

(* releaseRestore: restore_progress holds the gate for update, rotates the *)
(* generation and, once nothing of the Workspace is in flight, finishes    *)
(* it; the last Workspace to finish opens the gate.                        *)
Release(s, finishes) ==
  LET w == Of(s).workspace IN
  /\ sessions[s].step = "bound" /\ Of(s).verb = "release"
  /\ UnsharedGate(s)
  /\ Of(s).epoch = gate.epoch
  /\ sessions[s].head < MaxHead
  /\ Now(s, IF gate.done[w] THEN [sessions[s] EXCEPT !.step = "worked", !.gateLock = "update"]
            ELSE [Emitted(sessions[s], "restore.progress", Nobody) EXCEPT
                   !.step = "worked", !.gateLock = "update", !.finishes = finishes,
                   !.opens = finishes /\ LastToFinish(w)])
  /\ UNCHANGED <<Data, saved, drawn>>

Releases(s) == Of(s).verb = "release" /\ sessions[s].rows # <<>>
(* Mutant: the restored log keeps its generation. *)
GenerationKept(s) == cursor[Of(s).workspace].generation
GenerationAfter(s) ==
  IF Releases(s) /\ ~gate.rotated[Of(s).workspace]
  THEN gate.epoch ELSE cursor[Of(s).workspace].generation

Commit(s) ==
  LET tx == sessions[s]
      w == Of(s).workspace
  IN
  /\ tx.step = "worked" \/ (tx.step = "bound" /\ Of(s).verb = "work")
  /\ cursor' = [cursor EXCEPT ![w] = [head |-> tx.head, generation |-> GenerationAfter(s)]]
  /\ events' = [events EXCEPT ![w] = Over(tx.rows, @)]
  /\ status' = [p \in Principals |->
                 IF Of(s).verb = "revoke" /\ Of(s).of = p THEN "revoked" ELSE status[p]]
  /\ runs' = [r \in RunIds |->
               IF Of(s).verb = "create" /\ Of(s).run = r THEN Of(s).by ELSE runs[r]]
  /\ gate' = IF Releases(s)
             THEN [gate EXCEPT !.rotated[w] = TRUE, !.done[w] = tx.finishes,
                               !.active = ~tx.opens]
             ELSE gate
  /\ Now(s, Idle)
  /\ UNCHANGED <<saved, drawn>>

(* Mutant: a position once allocated stays allocated, as of a SEQUENCE. *)
AbortLeaky(s) ==
  /\ sessions[s].step # "idle"
  /\ Now(s, Idle)
  /\ cursor' = IF sessions[s].step \in {"idle", "waiting"} THEN cursor
               ELSE [cursor EXCEPT ![Of(s).workspace].head = sessions[s].head]
  /\ UNCHANGED <<events, status, runs, gate, saved, drawn>>
(* A refusal, a timeout, an error of the caller or a lost connection: the  *)
(* transaction is rolled back.                                             *)
Abort(s) ==
  /\ sessions[s].step # "idle"
  /\ Now(s, Idle)
  /\ UNCHANGED <<Data, saved, drawn>>

Backup ==
  /\ saved' = [cursor |-> cursor, events |-> events, status |-> status, runs |-> runs]
  /\ UNCHANGED <<Data, sessions, drawn>>

(* restore(): offline, to the backup's restore point, the gate armed.      *)
Restore ==
  /\ gate.epoch < MaxRestores
  /\ cursor' = saved.cursor /\ events' = saved.events
  /\ status' = saved.status /\ runs' = saved.runs
  /\ gate' = NewGate(gate.epoch + 1)
  /\ sessions' = [s \in Sessions |-> Idle]
  /\ UNCHANGED <<saved, drawn>>

-----------------------------------------------------------------------------
(* Specification *)

Asked(verb, w, by, run, of, e) ==
  [verb |-> verb, workspace |-> w, by |-> by, run |-> run, of |-> of, epoch |-> e]
Asks ==
  {Asked(v, Home[p], p, r, Nobody, 0) : v \in {"work", "create"}, p \in Principals, r \in RunIds}
  \cup {Asked("revoke", Home[p], User, NoRun, p, 0) : p \in Revocable}
  \cup {Asked("release", w, User, NoRun, Nobody, e) : w \in Workspaces, e \in 1 .. MaxRestores}

Init ==
  /\ cursor = [w \in Workspaces |-> [head |-> 0, generation |-> 0]]
  /\ events = [w \in Workspaces |-> <<>>]
  /\ status = [p \in Principals |-> "active"]
  /\ runs = [r \in RunIds |-> Nobody]
  /\ gate = NewGate(0)
  /\ sessions = [s \in Sessions |-> Idle]
  /\ saved = [cursor |-> cursor, events |-> events, status |-> status, runs |-> runs]
  /\ drawn = {}

Next ==
  \/ \E s \in Sessions :
       \/ \E q \in Asks : Ask(s, q)
       \/ Lock(s)
       \/ Bind(s)
       \/ Work(s)
       \/ Create(s)
       \/ Revoke(s)
       \/ \E finishes \in BOOLEAN : Release(s, finishes)
       \/ Commit(s)
       \/ Abort(s)
  \/ Backup
  \/ Restore

Spec == Init /\ [][Next]_vars

-----------------------------------------------------------------------------
(* Properties *)

TypeOK ==
  /\ cursor \in [Workspaces -> [head : 0 .. MaxHead, generation : 0 .. MaxRestores]]
  /\ DOMAIN events = Workspaces /\ \A w \in Workspaces : IsRows(events[w])
  /\ status \in [Principals -> {"active", "revoked"}]
  /\ runs \in [RunIds -> Principals \cup {Nobody}]
  /\ gate \in [active : BOOLEAN, epoch : 0 .. MaxRestores,
               rotated : [Workspaces -> BOOLEAN], done : [Workspaces -> BOOLEAN]]
  /\ DOMAIN sessions = Sessions
  /\ \A s \in Sessions :
       /\ sessions[s].step \in Steps /\ sessions[s].request \in Request \cup {NoRequest}
       /\ sessions[s].head \in 0 .. MaxHead /\ IsRows(sessions[s].rows)
       /\ sessions[s].gateLock \in {"none", "share", "update"}
       /\ sessions[s].finishes \in BOOLEAN /\ sessions[s].opens \in BOOLEAN
  /\ drawn \subseteq RunIds

(* The committed events of a Workspace fill the positions up to its head:  *)
(* none is missing, so a reader at the head has seen every event, whatever *)
(* was rolled back or restored (ADR-0006).                                 *)
Gapless == \A w \in Workspaces : DOMAIN events[w] = 1 .. cursor[w].head

(* Nothing is attributed to a Principal at a position after its            *)
(* revocation, and it is revoked exactly if the log says so: a write that  *)
(* waited behind the revocation is refused (000026:82).                    *)
RevocationFinal ==
  \A p \in Principals :
    LET log == events[Home[p]]
        Revoked(i) == log[i].kind = "principal.revoked" /\ log[i].of = p
    IN  /\ status[p] = "revoked" <=> \E i \in DOMAIN log : Revoked(i)
        /\ \A i, j \in DOMAIN log : Revoked(i) /\ i < j => log[j].by # p

(* Every event under a Run follows the Run's creation by the same          *)
(* Principal in the same log, also for the Runs a restore made disappear.  *)
RunsPrecede ==
  \A w \in Workspaces : \A j \in DOMAIN events[w] :
    events[w][j].run # NoRun =>
      /\ runs[events[w][j].run] = events[w][j].by
      /\ \E i \in 1 .. j : /\ events[w][i].kind = "runs.created"
                           /\ events[w][i].run = events[w][j].run
                           /\ events[w][i].by = events[w][j].by

(* After a restore no Principal writes to a Workspace that a User has not  *)
(* released yet.                                                           *)
RestoredQuiet ==
  [][\A w \in Workspaces : gate.epoch > 0 /\ ~gate.done[w] =>
       \A i \in DOMAIN events'[w] \ DOMAIN events[w] : events'[w][i].by = User]_vars

(* Two Users who finish the last two Workspaces at once do not both leave  *)
(* the gate to the other: once all are released it is open.                *)
GateNotStuck == (\A w \in Workspaces : gate.done[w]) => ~gate.active

(* The log each reader is promised.                                        *)
Trail(w) == INSTANCE AuditTrail WITH
  log <- [i \in 1 .. cursor[w].head |-> events[w][i]],
  generation <- cursor[w].generation, gated <- gate.active, epoch <- gate.epoch,
  saved <- [log |-> [i \in 1 .. saved.cursor[w].head |-> saved.events[w][i]],
            generation |-> saved.cursor[w].generation]

(* Each Workspace's log grows by whole transactions and is in a generation *)
(* of its own once a restored database is open to Principals.              *)
TrailKept ==
  /\ \A w \in Workspaces : Trail(w)!TrailInit
  /\ [][\A w \in Workspaces : [Trail(w)!TrailNext]_(Trail(w)!trail)]_vars

(* The log can be read as a history: complete, with every event under a    *)
(* Run of an active Principal.                                             *)
LogSound == Gapless /\ RevocationFinal /\ RunsPrecede
=============================================================================
