--------------------------- MODULE StorageBinding ---------------------------
(***************************************************************************)
(* Which store of bytes belongs to which database: the binding row and the *)
(* marker in the store, the operator's storage-admin commands that write   *)
(* them, and the check a server makes before it serves                     *)
(* (apps/server/blobs/storage-*.ts, main.ts).                              *)
(*                                                                         *)
(* Servers and the operator exclude each other with a session-level        *)
(* advisory lock.  A server whose session is lost goes on serving until    *)
(* its watch notices.  Uploads and sweeps are module Blobs; here they put  *)
(* bytes before the row and remove them after it, and a call to S3 may     *)
(* take effect after its server died.                                      *)
(*                                                                         *)
(* --fenced is the operator's word that no server and no writer is left,   *)
(* and it is kept.  The digest of an inventory is the set of objects: an   *)
(* object stands for its key, size and hash.  The three UUIDs of a binding *)
(* are drawn together: one number.                                         *)
(***************************************************************************)
EXTENDS Naturals, FiniteSets

CONSTANTS
  Servers, Operator, Nobody,
  Stores, Backends,  \* what may be configured; functions Stores -> backend
  Objects,
  Checkpoints,       \* references an operator may give
  MaxFaults          \* bound: lost sessions, crashes, restores

None == 0
NoBinding == [gen |-> None, backend |-> "none", phase |-> "none", kind |-> "none",
              checkpoint |-> "none", retain |-> FALSE, digest |-> {}]

\* Assumed of the constants, by the module that gives them values.
StorageAssumption ==
  /\ Operator \notin Servers /\ Nobody \notin Servers \cup {Operator}
  /\ Backends \subseteq [Stores -> {"filesystem", "s3"}]
  /\ "none" \notin Checkpoints /\ MaxFaults \in Nat

VARIABLES
  backend,  \* one of Backends for good
  db,       \* [binding, rows, retained, used]: used once there is a User or a Workspace;
            \* ghost place: the store of the last intent
  marker,   \* [Stores -> the binding in .backplane-store]
  objects,  \* [Stores -> SUBSET Objects]
  drawn,    \* bindings drawn so far
  lease,    \* who holds the advisory lock
  server,   \* [Servers -> [step, store, snap]]
  op,       \* the operator's command
  flying,   \* puts that have not taken effect or are not answered
  late,     \* marker publications of commands that ended
  saved,    \* the last capture
  torn,     \* ghost: database and store come from two captures
  faults

vars == <<backend, db, marker, objects, drawn, lease, server, op, flying, late, saved, torn, faults>>
stores == <<marker, objects>>
rest == <<backend, saved, torn>>

EmptyDb == [binding |-> NoBinding, rows |-> {}, retained |-> {}, used |-> FALSE, place |-> Nobody]
OpIdle == [step |-> "idle"]
Off == [step |-> "off"]

Fault == faults < MaxFaults /\ faults' = faults + 1
Serving(s) == server[s].step = "serving"
Fenced == (\A s \in Servers : server[s] = Off) /\ flying = {}
Binding == db.binding

-----------------------------------------------------------------------------
(* storage-lease.ts *)

Takes(who) == lease = Nobody /\ lease' = who
Owned(who) == lease = who
Releases(who) == lease' = IF lease = who THEN Nobody ELSE lease

-----------------------------------------------------------------------------
(* storage-inventory.ts *)

Expected(d) == d.rows \cup d.retained
(* Every row has its bytes, no row is there twice. *)
Complete(d, st) == d.rows \cap d.retained = {} /\ Expected(d) \subseteq objects[st]
Unreferenced(d, st) == objects[st] \ Expected(d)

-----------------------------------------------------------------------------
(* A server: main.ts, storage-binding.ts *)

(* Everything in the database is read in one snapshot. *)
StartServer(s, st) ==
  /\ server[s] = Off /\ Takes(s)
  /\ server' = [server EXCEPT ![s] = [step |-> "verify", store |-> st, snap |-> db]]
  /\ UNCHANGED <<db, stores, drawn, op, flying, late, rest, faults>>

(* Mutant: a store without a marker passes. *)
MarkerOptional(d, st) == marker[st] \in {None, d.binding.gen}
MarkerMatches(d, st) == marker[st] = d.binding.gen

Bound(d, st) ==
  /\ d.binding.phase = "ready" /\ d.binding.backend = backend[st]
  /\ MarkerMatches(d, st)
  /\ Complete(d, st) /\ Unreferenced(d, st) = {}

Serve(s) ==
  /\ server[s].step = "verify" /\ Bound(server[s].snap, server[s].store) /\ Owned(s)
  /\ server' = [server EXCEPT ![s].step = "serving", ![s].snap = NoBinding]
  /\ db' = [db EXCEPT !.used = TRUE]
  /\ UNCHANGED <<stores, drawn, lease, op, flying, late, rest, faults>>

(* A refusal, also of an unavailable database or store. *)
Refuse(s) ==
  /\ server[s].step = "verify"
  /\ server' = [server EXCEPT ![s] = Off] /\ Releases(s)
  /\ UNCHANGED <<db, stores, drawn, op, flying, late, rest, faults>>

Mine(s) == {f \in flying : f.by = s}

(* SIGTERM: requests end before the lease does. *)
Shutdown(s) ==
  /\ Serving(s) /\ Mine(s) = {}
  /\ server' = [server EXCEPT ![s] = Off] /\ Releases(s)
  /\ UNCHANGED <<db, stores, drawn, op, flying, late, rest, faults>>

(* The process ends at once; what it sent to S3 may still take effect. *)
Gone(s) ==
  /\ server' = [server EXCEPT ![s] = Off]
  /\ flying' = {IF f.by = s THEN [f EXCEPT !.by = Nobody] ELSE f :
                  f \in {g \in flying : g.by # s \/ (~g.there /\ backend[g.store] = "s3")}}
Crash(s) ==
  /\ server[s] # Off /\ Fault
  /\ Gone(s) /\ Releases(s)
  /\ UNCHANGED <<db, stores, drawn, op, late, rest>>

LoseSession(s) ==
  /\ server[s] # Off /\ Owned(s) /\ Fault
  /\ lease' = Nobody
  /\ UNCHANGED <<db, stores, drawn, server, op, flying, late, rest>>

(* watch() exits the process. *)
Watch(s) ==
  /\ Serving(s) /\ ~Owned(s)
  /\ Gone(s)
  /\ UNCHANGED <<db, stores, drawn, lease, op, late, rest, faults>>

-----------------------------------------------------------------------------
(* Its writes; a blob gets a fresh key *)

Fresh(o) == o \notin Expected(db) /\ \A st \in Stores : o \notin objects[st]
Unlocked == op.step \notin {"published", "proven"}

Put(s, o) ==
  /\ Serving(s) /\ Fresh(o) /\ \A f \in flying : f.object # o
  /\ flying' = flying \cup {[by |-> s, object |-> o, store |-> server[s].store, there |-> FALSE]}
  /\ UNCHANGED <<db, stores, drawn, lease, server, op, late, rest, faults>>

Land(f) ==
  /\ f \in flying /\ ~f.there
  /\ objects' = [objects EXCEPT ![f.store] = @ \cup {f.object}]
  /\ flying' = (flying \ {f}) \cup (IF f.by = Nobody THEN {} ELSE {[f EXCEPT !.there = TRUE]})
  /\ UNCHANGED <<db, marker, drawn, lease, server, op, late, rest, faults>>

(* The row commits, or the upload failed. *)
Answer(f) ==
  /\ f \in flying /\ f.there /\ Unlocked
  /\ db' \in {db, [db EXCEPT !.rows = @ \cup {f.object}]}
  /\ flying' = flying \ {f}
  /\ UNCHANGED <<stores, drawn, lease, server, op, late, rest, faults>>

Delete(s, o) ==
  /\ Serving(s) /\ o \in db.rows /\ Unlocked
  /\ db' = [db EXCEPT !.rows = @ \ {o}]
  /\ UNCHANGED <<stores, drawn, lease, server, op, flying, late, rest, faults>>

(* Mutant: a sweep that does not look for retained bytes. *)
SparesRows(o) == o \notin db.rows
Collectable(o) == o \notin Expected(db)
Sweep(s, o) ==
  /\ Serving(s) /\ o \in objects[server[s].store] /\ Collectable(o)
  /\ \A f \in flying : f.object # o
  /\ objects' = [objects EXCEPT ![server[s].store] = @ \ {o}]
  /\ UNCHANGED <<db, marker, drawn, lease, server, op, flying, late, rest, faults>>

-----------------------------------------------------------------------------
(* The operator: storage-admin.ts, storage-adoption.ts *)

Command(mode, k, r) == [mode |-> mode, checkpoint |-> k, retain |-> r]
Commands == {Command("initialize", "none", FALSE)} \cup
            {Command("reconcile", k, r) : k \in Checkpoints, r \in BOOLEAN}

(* An interrupted command is repeated with the same backend, as the docs   *)
(* ask: nothing in an intent tells one store of a kind from another.       *)
(* A database that is bound is answered without a lease.  inspect, which   *)
(* only reads, is left out.                                                *)
Begin(c, st) ==
  /\ op.step = "idle" /\ Fenced /\ Takes(Operator)
  /\ c.mode = "initialize" => Binding.phase # "ready"
  /\ Binding.phase = "verifying" => st = db.place
  /\ op' = [step |-> "begun", command |-> c, store |-> st]
  /\ UNCHANGED <<db, stores, drawn, server, flying, late, rest, faults>>

Agrees(b, c) == b.kind = c.mode /\ b.checkpoint = c.checkpoint /\ b.retain = c.retain

(* Mutant: what is retained is recorded only once the store is proven. *)
RecordLater(d, st) == d.retained
Recorded(d, st) == d.retained \cup Unreferenced(d, st)

Admissible(c, st) ==
  /\ Binding # NoBinding => Binding.backend = backend[st]
  /\ marker[st] # None => Binding.gen = marker[st]
  /\ Binding.phase = "ready" => marker[st] # None
  /\ Complete(db, st)
  /\ Binding = NoBinding => objects[st] \cap db.retained = {}
  /\ c.mode = "initialize" => objects[st] = {} /\ ~db.used

(* The first transaction: an intent, with everything a retry must match. *)
Intend ==
  /\ op.step = "begun" /\ Owned(Operator)
  /\ LET c == op.command  st == op.store
     IN  /\ Admissible(c, st)
         /\ \/ /\ Binding.phase = "verifying" /\ Agrees(Binding, c)
               /\ Binding.digest = objects[st]
               /\ UNCHANGED <<db, drawn>>
            \/ /\ Binding.phase # "verifying"
               /\ (c.mode = "initialize") = (Binding = NoBinding)
               /\ Unreferenced(db, st) # {} => c.retain
               /\ drawn' = IF Binding = NoBinding THEN drawn + 1 ELSE drawn
               /\ db' = [db EXCEPT
                    !.binding = [gen |-> IF Binding = NoBinding THEN drawn' ELSE Binding.gen,
                                 backend |-> backend[st], phase |-> "verifying", kind |-> c.mode,
                                 checkpoint |-> c.checkpoint, retain |-> c.retain,
                                 digest |-> objects[st]],
                    !.retained = Recorded(db, st), !.place = st]
  /\ op' = [op EXCEPT !.step = "intended"]
  /\ UNCHANGED <<stores, lease, server, flying, late, rest, faults>>

(* The second transaction: the marker is created if there is none (an      *)
(* exclusive link, or If-None-Match) and read back.                        *)
PublishTo(st, gen) == marker' = [marker EXCEPT ![st] = IF @ = None THEN gen ELSE @]
Publish ==
  /\ op.step = "intended" /\ Owned(Operator)
  /\ Binding.phase = "verifying" /\ Agrees(Binding, op.command)
  /\ Complete(db, op.store) /\ Unreferenced(db, op.store) = {} /\ objects[op.store] = Binding.digest
  /\ marker[op.store] \in {None, Binding.gen}
  /\ PublishTo(op.store, Binding.gen)
  /\ op' = [op EXCEPT !.step = "published"]
  /\ UNCHANGED <<db, objects, drawn, lease, server, flying, late, rest, faults>>

Prove ==
  /\ op.step = "published"
  /\ marker[op.store] = Binding.gen /\ objects[op.store] = Binding.digest
  /\ op' = [op EXCEPT !.step = "proven"]
  /\ UNCHANGED <<db, stores, drawn, lease, server, flying, late, rest, faults>>

Finish ==
  /\ op.step = "proven" /\ Owned(Operator)
  /\ db' = [db EXCEPT !.binding.phase = "ready"]
  /\ op' = OpIdle /\ Releases(Operator) /\ torn' = FALSE
  /\ UNCHANGED <<stores, drawn, server, flying, late, backend, saved, faults>>

(* A refusal, an error, a lost session, an end of the process.  The marker *)
(* may be on its way.                                                      *)
End ==
  /\ op.step # "idle"
  /\ op' = OpIdle /\ Releases(Operator)
  /\ \/ late' = late
     \/ /\ op.step = "intended" /\ Binding.phase = "verifying" /\ backend[op.store] = "s3"
        /\ late' = late \cup {[store |-> op.store, gen |-> Binding.gen]}
  /\ UNCHANGED <<db, stores, drawn, server, flying, rest, faults>>

LateMarker ==
  /\ \E m \in late : PublishTo(m.store, m.gen) /\ late' = late \ {m}
  /\ UNCHANGED <<db, objects, drawn, lease, server, op, flying, rest, faults>>

-----------------------------------------------------------------------------
(* Capture and restore, of the database, of the stores, or of both: fenced *)
(* for longer than a call to S3 can be on its way                          *)

Quiet == Fenced /\ op.step = "idle" /\ late = {}

Capture ==
  /\ Quiet
  /\ saved' = [db |-> db, marker |-> marker, objects |-> objects]
  /\ UNCHANGED <<backend, db, stores, drawn, lease, server, op, flying, late, torn, faults>>

Restore ==
  /\ Quiet /\ Fault
  /\ \/ /\ db' = saved.db /\ torn' = TRUE /\ UNCHANGED stores
     \/ /\ marker' = saved.marker /\ objects' = saved.objects /\ torn' = TRUE /\ UNCHANGED db
     \/ /\ db' = saved.db /\ marker' = saved.marker /\ objects' = saved.objects
        /\ UNCHANGED torn
  /\ UNCHANGED <<backend, drawn, lease, server, op, flying, late, saved>>

-----------------------------------------------------------------------------
Init ==
  /\ backend \in Backends /\ db = EmptyDb
  /\ marker = [st \in Stores |-> None] /\ objects = [st \in Stores |-> {}]
  /\ drawn = 0 /\ lease = Nobody
  /\ server = [s \in Servers |-> Off] /\ op = OpIdle
  /\ flying = {} /\ late = {} /\ torn = FALSE /\ faults = 0
  /\ saved = [db |-> EmptyDb, marker |-> marker, objects |-> objects]

ServerNext ==
  \E s \in Servers :
    \/ \E st \in Stores : StartServer(s, st)
    \/ Serve(s) \/ Refuse(s) \/ Shutdown(s) \/ Crash(s) \/ LoseSession(s) \/ Watch(s)
    \/ \E o \in Objects : Put(s, o) \/ Delete(s, o) \/ Sweep(s, o)

OperatorNext ==
  \/ \E c \in Commands, st \in Stores : Begin(c, st)
  \/ Intend \/ Publish \/ Prove \/ Finish \/ End \/ LateMarker

Next ==
  \/ ServerNext \/ OperatorNext \/ Capture \/ Restore
  \/ \E f \in flying : Land(f) \/ Answer(f)

Spec == Init /\ [][Next]_vars

-----------------------------------------------------------------------------
(* Properties *)

(* A server that holds the lease serves the store its database is bound    *)
(* to, and every byte a row or a reconciliation refers to is there,        *)
(* whatever was restored, misconfigured or interrupted before it started   *)
(* (docs/operations/storage-identity.md, storage-binding.ts:21).           *)
ServesItsOwn ==
  \A s \in Servers : Serving(s) /\ Owned(s) =>
    /\ Binding.phase = "ready" /\ marker[server[s].store] = Binding.gen
    /\ Complete(db, server[s].store)

(* An interrupted command can be finished by repeating it: nothing moves   *)
(* what a retry has to match, unless somebody restores the database        *)
(* without its store (storage-identity.md "Interrupted operations",        *)
(* storage-adoption.ts:50).                                                *)
IntentFinishable ==
  Binding.phase = "verifying" /\ ~torn =>
    /\ backend[db.place] = Binding.backend /\ marker[db.place] \in {None, Binding.gen}
    /\ objects[db.place] = Binding.digest /\ Expected(db) = Binding.digest

(* The binding of database and store survives every command and restart.   *)
StorageKept == ServesItsOwn /\ IntentFinishable
=============================================================================
