------------------------------- MODULE Blobs --------------------------------
(***************************************************************************)
(* Files of one Workspace: metadata rows in PostgreSQL and bytes in a      *)
(* store, a directory or an S3 bucket, which no transaction covers         *)
(* (apps/server/blobs, retention/purge-payloads.ts).  An upload stages the *)
(* bytes, inserts the row, promotes the bytes and commits; a deletion      *)
(* commits before it removes the bytes; a sweep removes what no row refers *)
(* to.  Each of these transactions holds the Workspace's cursor lock       *)
(* (module RunContext), but a store call takes no notice of whether its    *)
(* transaction is still alive.                                             *)
(*                                                                         *)
(* An upload is named by the fresh id it gives its blob.  Restore gates    *)
(* and bytes retained by an adoption, which only keep a sweep from         *)
(* removing, are left out.                                                 *)
(***************************************************************************)
EXTENDS Naturals, FiniteSets, FiniteSetsExt

CONSTANTS
  Ids,        \* uploads, and the blobs they make
  Deleters,   \* requests to delete a blob
  Purger,     \* the scheduled purge
  Nobody,     \* no transaction, no blob
  Setups,     \* the backend, and the key each upload asks for
  PageSize,   \* references in one page of a scan
  MaxFaults   \* bound: lost answers, failed calls, timeouts, ended transactions, crashes

Callers == Ids \cup Deleters
Actors == Callers \cup {Purger}

ASSUME BlobAssumption ==
  /\ Ids \cap Deleters = {} /\ Purger \notin Callers /\ Nobody \notin Actors
  /\ \A s \in Setups : s.backend \in {"filesystem", "s3"} /\ DOMAIN s.key = Ids
  /\ PageSize \in Nat \ {0} /\ MaxFaults \in Nat

VARIABLES
  setup,      \* one of Setups for good
  rows,       \* committed rows of control.blobs
  objects,    \* what the store holds: <<id, "stage">> and <<id, "final">>
  late,       \* S3 calls given up by the server that may still take effect
  seen,       \* references already listed in this round of scanning
  tx,         \* the transaction with the cursor lock
  proc,       \* the requests and the purge
  did,        \* requests whose change committed
  rejected,   \* requests with a row in audit.rejections
  faults

work == <<rows, objects, late, seen, tx, proc, did, rejected, faults>>
vars == <<setup, work>>
store == <<objects, late, seen>>
database == <<rows, tx, did>>

-----------------------------------------------------------------------------
Backend == setup.backend
Key(b) == setup.key[b]

Refs(ids) == ids \X {"stage", "final"}
NoTx == [of |-> Nobody, put |-> {}, del |-> {}, doubt |-> FALSE]

(* A transaction stays in doubt when the answer to its COMMIT was lost: it *)
(* keeps the lock until PostgreSQL has committed it or rolled it back.     *)
Sql(p) == tx.of = p /\ ~tx.doubt

(* id: what is deleted; refs: what a cleanup has to look at; doomed: what  *)
(* it is about to remove; then: where it leads.                            *)
Fresh(p) == [step |-> "idle", id |-> IF p \in Ids THEN p ELSE Nobody, refs |-> {},
             doomed |-> <<>>, then |-> "done", answer |-> "none"]
At(p, step) == proc[p].step = step
Goes(p, step) == proc' = [proc EXCEPT ![p].step = step]
Answers(p, step, answer) == proc' = [proc EXCEPT ![p].step = step, ![p].answer = answer]
Sweeps(p, step, refs, then, answer) ==
  proc' = [proc EXCEPT ![p].step = step, ![p].refs = refs, ![p].then = then,
                       ![p].answer = answer]
Rests(p) == proc' = [proc EXCEPT ![p] = Fresh(p)]
Fault == faults < MaxFaults /\ faults' = faults + 1

(* Where an error leads: an upload looks whether it committed, a deletion  *)
(* only once it was ready to commit, and the purge waits for its interval. *)
Recovers(p) ==
  IF p = Purger THEN Rests(p)
  ELSE Goes(p, IF p \in Ids \/ At(p, "commit") THEN "recheck" ELSE "reject")

Rollback(p) == tx' = IF Sql(p) THEN NoTx ELSE tx
Errs(p) == Recovers(p) /\ Rollback(p) /\ UNCHANGED <<rows, did>>

-----------------------------------------------------------------------------
(* withRunContext: each transaction first takes the cursor lock *)

Waiting == {"idle", "recheck", "scan"}
Locked(p) ==
  IF At(p, "recheck") THEN "check"
  ELSE IF At(p, "scan") THEN IF proc[p].refs = {} THEN "list" ELSE "sweep"
  ELSE CASE p \in Ids -> "stage"
         [] p \in Deleters -> "look"
         [] OTHER -> "expire"

Lock(p) ==
  /\ proc[p].step \in Waiting /\ tx = NoTx
  /\ tx' = [NoTx EXCEPT !.of = p]
  /\ IF p \in Deleters /\ At(p, "idle")
     THEN \E id \in did \cap Ids : proc' = [proc EXCEPT ![p].step = "look", ![p].id = id]
     ELSE Goes(p, Locked(p))
  /\ UNCHANGED <<rows, did, store, rejected, faults>>

(* Mutant: a recheck that fails proves that the upload was refused. *)
NoRecheckRejects(p) == Goes(p, "reject")
(* An unavailable recheck of an upload preserves the bytes and records     *)
(* nothing; one of a deletion counts as a failure.                         *)
NoRecheck(p) == IF p \in Ids THEN Answers(p, "done", "unavailable") ELSE Goes(p, "reject")

(* A purge first removes what it deleted, then scans the whole store. *)
CleanedUp(p) ==
  IF proc[p].then = "idle" THEN Rests(p)
  ELSE proc' = [proc EXCEPT ![p].step = proc[p].then, ![p].refs = {},
                            ![p].then = IF p = Purger THEN "idle" ELSE @]

LockFails(p) ==
  /\ proc[p].step \in Waiting /\ Fault
  /\ p \in Ids \/ ~At(p, "idle")
  /\ CASE At(p, "idle") -> Recovers(p)
       [] At(p, "recheck") -> NoRecheck(p)
       [] At(p, "scan") -> CleanedUp(p)
  /\ UNCHANGED <<database, store, rejected>>

-----------------------------------------------------------------------------
(* Calls of the store *)

Calling == {"stage", "promote", "unstage", "remove"}
Call(p) ==
  LET id == proc[p].id IN
  CASE At(p, "stage") -> [add |-> {<<id, "stage">>}, sub |-> {}]
    [] At(p, "promote") ->
         [add |-> {<<id, "final">>},
          sub |-> IF Backend = "s3" THEN {} ELSE {<<id, "stage">>}]
    [] At(p, "unstage") -> [add |-> {}, sub |-> {<<id, "stage">>}]
    [] At(p, "remove") -> [add |-> {}, sub |-> {proc[p].doomed}]
Applied(call) == (objects \ call.sub) \cup call.add

AfterCall(p) ==
  CASE At(p, "stage") -> "insert"
    [] At(p, "promote") -> IF Backend = "s3" THEN "unstage" ELSE "verify"
    [] At(p, "unstage") -> "verify"
    [] At(p, "remove") -> "sweep"

(* rename needs its source *)
Possible(p) ==
  At(p, "promote") /\ Backend = "filesystem" => <<proc[p].id, "stage">> \in objects

Transfer(p) ==
  /\ proc[p].step \in Calling
  /\ IF Possible(p)
     THEN objects' = Applied(Call(p)) /\ Goes(p, AfterCall(p)) /\ UNCHANGED database
     ELSE Errs(p) /\ UNCHANGED objects
  /\ UNCHANGED <<late, seen, rejected, faults>>

(* The call fails before or after its effect; S3 may apply it later. *)
TransferFails(p) ==
  /\ proc[p].step \in Calling /\ Fault
  /\ \/ UNCHANGED <<objects, late>>
     \/ Possible(p) /\ objects' = Applied(Call(p)) /\ UNCHANGED late
     \/ Backend = "s3" /\ late' = late \cup {Call(p)} /\ UNCHANGED objects
  /\ IF At(p, "remove") THEN Goes(p, "sweep") /\ UNCHANGED database ELSE Errs(p)
  /\ UNCHANGED <<seen, rejected>>

TakesEffect(call) ==
  /\ objects' = Applied(call) /\ late' = late \ {call}
  /\ UNCHANGED <<seen, database, proc, rejected, faults>>

-----------------------------------------------------------------------------
(* putBlob *)

(* UNIQUE(workspace_id, key) *)
Insert(b) ==
  /\ At(b, "insert")
  /\ IF Sql(b) /\ \A r \in rows : Key(r) # Key(b)
     THEN tx' = [tx EXCEPT !.put = {b}] /\ Goes(b, "promote") /\ UNCHANGED <<rows, did>>
     ELSE Errs(b)
  /\ UNCHANGED <<store, rejected, faults>>

Verify(b) ==
  /\ At(b, "verify")
  /\ IF Sql(b) /\ <<b, "final">> \in objects
     THEN Goes(b, "commit") /\ UNCHANGED database
     ELSE Errs(b)
  /\ UNCHANGED <<store, rejected, faults>>

(* deleteBlob *)
Look(d) ==
  /\ At(d, "look")
  /\ CASE ~Sql(d) -> Errs(d)
       [] Sql(d) /\ proc[d].id \in rows ->
            tx' = [tx EXCEPT !.del = {proc[d].id}] /\ Goes(d, "commit") /\ UNCHANGED <<rows, did>>
       [] OTHER ->
            tx' = NoTx /\ Answers(d, "reject", "missing") /\ UNCHANGED <<rows, did>>
  /\ UNCHANGED <<store, rejected, faults>>

(* purgePayloads deletes the rows that have expired *)
Expire(expired) ==
  /\ At(Purger, "expire")
  /\ IF Sql(Purger)
     THEN /\ tx' = [tx EXCEPT !.del = expired] /\ UNCHANGED <<rows, did>>
          /\ Sweeps(Purger, "commit", Refs(expired), "done", "none")
     ELSE expired = {} /\ Errs(Purger)
  /\ UNCHANGED <<store, rejected, faults>>

-----------------------------------------------------------------------------
(* COMMIT, and the recheck when its answer does not arrive *)

Commits == rows' = (rows \cup tx.put) \ tx.del /\ did' = did \cup {tx.of} /\ tx' = NoTx

(* An upload then scans the store, the others remove what they deleted. *)
Committed(p) ==
  CASE p \in Ids -> Sweeps(p, "scan", {}, "done", "ok")
    [] p \in Deleters -> Sweeps(p, "scan", Refs({proc[p].id}), "done", "ok")
    [] OTHER -> Sweeps(p, "scan", proc[p].refs, IF proc[p].refs = {} THEN "idle" ELSE "scan", "none")

Commit(p) ==
  /\ At(p, "commit")
  /\ IF Sql(p) THEN Commits /\ Committed(p) ELSE Errs(p)
  /\ UNCHANGED <<store, rejected, faults>>

CommitUnanswered(p) ==
  /\ At(p, "commit") /\ Sql(p) /\ Fault
  /\ tx' = [tx EXCEPT !.doubt = TRUE] /\ Recovers(p)
  /\ UNCHANGED <<rows, did, store, rejected>>

Resolve(committed) ==
  /\ tx.doubt
  /\ IF committed THEN Commits ELSE tx' = NoTx /\ UNCHANGED <<rows, did>>
  /\ UNCHANGED <<store, proc, rejected, faults>>

Check(p) ==
  /\ At(p, "check")
  /\ IF ~Sql(p) THEN NoRecheck(p) /\ UNCHANGED database
     ELSE \/ p \in Ids /\ p \in rows /\ Answers(p, "done", "ok") /\ Rollback(p)
          \/ p \in Ids /\ p \notin rows
             /\ Sweeps(p, "sweep", Refs({p}), "reject", "none") /\ UNCHANGED tx
          \/ p \in Deleters /\ proc[p].id \notin rows /\ Committed(p) /\ Rollback(p)
          \/ p \in Deleters /\ proc[p].id \in rows /\ Goes(p, "reject") /\ Rollback(p)
  /\ UNCHANGED <<rows, did, store, rejected, faults>>

(* recordRejection takes no lock, and may fail *)
Reject(p, recorded) ==
  /\ At(p, "reject")
  /\ Answers(p, "done", IF proc[p].answer = "missing" THEN "missing" ELSE "error")
  /\ rejected' = IF recorded THEN rejected \cup {p} ELSE rejected
  /\ UNCHANGED <<database, store, faults>>

-----------------------------------------------------------------------------
(* sweepBlobs *)

(* Mutant: each scan begins with the first page. *)
FirstPage(p, page) ==
  /\ At(p, "list")
  /\ page = CHOOSE r \in kSubset(IF objects = {} THEN 0 ELSE 1, objects) : TRUE
  /\ Sweeps(p, "sweep", page, proc[p].then, proc[p].answer)
  /\ UNCHANGED <<objects, late, seen, database, rejected, faults>>
(* The next page of the round; after the last one a new round begins. *)
List(p, page) ==
  LET rest == objects \ seen IN
  /\ At(p, "list")
  /\ page \in IF Cardinality(rest) <= PageSize THEN {rest} ELSE kSubset(PageSize, rest)
  /\ seen' = IF page = rest THEN {} ELSE seen \cup page
  /\ Sweeps(p, "sweep", page, proc[p].then, proc[p].answer)
  /\ UNCHANGED <<objects, late, database, rejected, faults>>

(* Mutant: bytes are spared only while they are staged. *)
Unspared(ref) == ref[2] = "stage"
Spared(ref) == ref[2] = "final" /\ ref[1] \in rows
Judge(p, ref) ==
  /\ At(p, "sweep") /\ ref \in proc[p].refs
  /\ proc' = [proc EXCEPT ![p].refs = @ \ {ref},
       ![p].doomed = IF Sql(p) /\ ~Spared(ref) THEN ref ELSE @,
       ![p].step = IF Sql(p) /\ ~Spared(ref) THEN "remove" ELSE @]
  /\ UNCHANGED <<database, store, rejected, faults>>

(* the deadline of 10 seconds *)
TimeUp(p) ==
  /\ At(p, "sweep") /\ proc[p].refs # {} /\ Fault
  /\ proc' = [proc EXCEPT ![p].refs = {}]
  /\ UNCHANGED <<database, store, rejected>>

Swept(p) ==
  /\ At(p, "sweep") /\ proc[p].refs = {}
  /\ IF ~Sql(p) /\ proc[p].then = "reject" THEN NoRecheck(p) ELSE CleanedUp(p)
  /\ Rollback(p)
  /\ UNCHANGED <<rows, did, store, rejected, faults>>

-----------------------------------------------------------------------------
(* PostgreSQL ends a transaction: a timeout, a lost connection *)
End ==
  /\ tx # NoTx /\ ~tx.doubt /\ Fault
  /\ tx' = NoTx
  /\ UNCHANGED <<rows, did, store, proc, rejected>>

(* The server process dies; the calls and the COMMIT it was waiting for    *)
(* may still take effect.                                                  *)
Crash ==
  /\ Fault
  /\ proc' = [p \in Actors |-> IF p = Purger THEN Fresh(p)
                ELSE IF proc[p].step \in {"idle", "done"} THEN proc[p]
                ELSE [proc[p] EXCEPT !.step = "gone", !.answer = "none"]]
  /\ tx' = IF tx.of # Nobody /\ At(tx.of, "commit") /\ ~tx.doubt THEN [tx EXCEPT !.doubt = TRUE]
           ELSE IF tx.doubt THEN tx ELSE NoTx
  /\ late' = late \cup IF Backend = "s3" THEN {Call(p) : p \in {q \in Actors : proc[q].step \in Calling}}
                       ELSE {}
  /\ seen' = {}
  /\ UNCHANGED <<rows, did, objects, rejected>>

-----------------------------------------------------------------------------
Init ==
  /\ setup \in Setups
  /\ rows = {} /\ objects = {} /\ late = {} /\ seen = {}
  /\ tx = NoTx /\ proc = [p \in Actors |-> Fresh(p)]
  /\ did = {} /\ rejected = {} /\ faults = 0

Step(p) ==
  \/ Transfer(p) \/ Commit(p) \/ Check(p) \/ Swept(p)
  \/ p \in Ids /\ (Insert(p) \/ Verify(p))
  \/ p \in Deleters /\ Look(p)
  \/ p = Purger /\ \E expired \in SUBSET rows : Expire(expired)
  \/ \E recorded \in BOOLEAN : Reject(p, recorded)
  \/ \E page \in SUBSET objects : List(p, page)
  \/ \E ref \in Refs(Ids) : Judge(p, ref)

Next ==
  /\ UNCHANGED setup
  /\ \/ \E p \in Actors : \/ Lock(p) \/ Step(p) \/ LockFails(p) \/ TransferFails(p)
                         \/ CommitUnanswered(p) \/ TimeUp(p)
     \/ \E call \in late : TakesEffect(call)
     \/ \E committed \in BOOLEAN : Resolve(committed)
     \/ End \/ Crash
Spec == Init /\ [][Next]_vars

(* The server runs its requests, the purge comes back each interval, who   *)
(* waits for the lock gets it, and PostgreSQL and S3 finish what they have *)
(* begun.                                                                  *)
Fairness ==
  /\ \A p \in Actors : WF_work(Step(p)) /\ SF_work(Lock(p))
  /\ WF_work(\E call \in late : TakesEffect(call))
  /\ WF_work(\E committed \in BOOLEAN : Resolve(committed))
FairSpec == Spec /\ Fairness

-----------------------------------------------------------------------------
(* Properties *)

TypeOK ==
  /\ rows \subseteq Ids /\ objects \subseteq Refs(Ids) /\ seen \subseteq Refs(Ids)
  /\ late \subseteq [add : SUBSET Refs(Ids), sub : SUBSET Refs(Ids)]
  /\ tx \in [of : Actors \cup {Nobody}, put : SUBSET Ids, del : SUBSET Ids, doubt : BOOLEAN]
  /\ tx.of = Nobody => tx = NoTx
  /\ proc \in [Actors ->
       [step : Waiting \cup Calling \cup {"insert", "verify", "look", "expire", "commit", "check",
                                          "reject", "list", "sweep", "done", "gone"},
        id : Ids \cup {Nobody}, refs : SUBSET Refs(Ids), doomed : Refs(Ids) \cup {<<>>},
        then : {"idle", "scan", "reject", "done"},
        answer : {"none", "ok", "missing", "error", "unavailable"}]]
  /\ did \subseteq Actors /\ rejected \subseteq Callers /\ faults \in 0 .. MaxFaults

(* Every row has its bytes: whatever fails, a sweep never removes the      *)
(* bytes of a committed blob, not even one whose transaction has died      *)
(* between its look at the row and the removal.                            *)
Stored == \A b \in rows : <<b, "final">> \in objects

(* What a request was told is so: an upload that succeeded has committed,  *)
(* one that was refused is not stored and never will be, and a blob that   *)
(* was deleted is gone.                                                    *)
AnswersTrue ==
  \A p \in Callers :
    /\ p \in Ids /\ proc[p].answer = "ok" => p \in did
    /\ p \in Ids /\ (proc[p].answer = "error" \/ p \in rejected) => p \notin rows \cup tx.put
    /\ p \in Deleters /\ proc[p].answer \in {"ok", "missing"} => proc[p].id \notin rows

(* Once nothing fails any more, the scheduled purge brings the store down  *)
(* to the bytes of the rows: no crash and no late call leaves a leak.      *)
Settles == <>[](objects = {<<b, "final">> : b \in rows})

(* Rows, bytes and answers agree, whatever fails in between.               *)
StoreTrue == Stored /\ AnswersTrue
=============================================================================
