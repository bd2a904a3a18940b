------------------------------ MODULE Bootstrap ------------------------------
(***************************************************************************)
(* bp bootstrap, on top of Tenancy: an invocation takes a lock file, reads *)
(* the checkpoint and walks on from its step, saving the checkpoint before *)
(* every request that creates something and after its answer.              *)
(*                                                                         *)
(* An invocation may be killed between any two steps (the lock file stays, *)
(* and what it sent may still be handled), an answer may be lost, and the  *)
(* person who runs it may create, look up and adopt things by hand.  The   *)
(* readiness, session and Principal lookups are reads: each is part of the *)
(* step that uses it, except the enrollment state read at the start and    *)
(* the key's metadata read before the issue.                               *)
(*                                                                         *)
(* Arguments that contradict the checkpoint (another origin, email or      *)
(* adopted ID), unsafe files and a session that cannot be had end an       *)
(* invocation like any other error: GiveUp.                                *)
(***************************************************************************)
EXTENDS Tenancy, Integers

VARIABLES
  lockFile,    \* the lock file is there
  checkpoint,  \* the file [step, workspace, principal, file]
  mainFile,    \* <digest>.credentials.json: the key in it, 0 when absent
  copies,      \* the keys in recovery files: one file per key
  proc         \* the invocation each client runs

bootVars == <<lockFile, checkpoint, mainFile, copies, proc>>
vars == <<tenancyVars, bootVars>>

Steps == {"initial", "enrollment:in-flight", "enrollment:saved", "workspace:in-flight",
          "workspace:saved", "principal:in-flight", "principal:saved",
          "key:in-flight", "key:ambiguous", "key:saved"}

(* checkpoint.file: none, the main file, or the recovery file of a key. *)
NoFile == 0
Main == -1
Recovered == Nat \ {NoFile}

Idle == [at |-> "idle", workspace |-> 0, principal |-> 0, recover |-> 0,
         ready |-> "claimed", again |-> FALSE, key |-> 0]

At(c, at) == proc[c].at = at
Moves(c, at) == proc' = [proc EXCEPT ![c].at = at]
Save(next) == checkpoint' = next
To(step) == [checkpoint EXCEPT !.step = step]
Step(c, steps) == At(c, "loop") /\ checkpoint.step \in steps

(* The end of an invocation: the finally block removes the lock. *)
Ends(c) == proc' = [proc EXCEPT ![c] = Idle] /\ lockFile' = FALSE

-----------------------------------------------------------------------------
(* Credential files *)

KeyIn(file) == IF file = NoFile THEN 0 ELSE IF file = Main THEN mainFile ELSE file
(* verify(): the key is of the recorded Principal, and whoami accepts it. *)
Verified(k) == server # "down" /\ Authenticates(k) /\ keys[k].principal = checkpoint.principal

(* privateLock: exclusive creation. *)
NoLock == ~lockFile

-----------------------------------------------------------------------------
(* Start and end *)

(* readiness(): the server is up, and one of the two. *)
Ready == server # "down" /\ Observed \in {"pending", "claimed"}

(* With no credential file recorded, readiness waits for the server to say *)
(* pending or claimed; the two flags adopt things that exist.              *)
Run(c, w, p, k) ==
  /\ At(c, "idle") /\ NoLock
  /\ w # 0 /\ checkpoint.workspace # 0 => w = checkpoint.workspace
  /\ p # 0 /\ checkpoint.principal # 0 => p = checkpoint.principal
  /\ checkpoint.file = NoFile =>
       /\ Ready /\ k = 0
       /\ Observed = "pending" => checkpoint.step \in {"initial", "enrollment:in-flight"}
  /\ lockFile' = TRUE
  /\ proc' = [proc EXCEPT ![c] =
       [Idle EXCEPT !.at = "loop", !.workspace = w, !.principal = p, !.recover = k,
                    !.ready = IF checkpoint.file = NoFile THEN Observed ELSE "claimed"]]
  /\ UNCHANGED <<tenancyVars, checkpoint, mainFile, copies>>

GiveUp(c) ==
  /\ At(c, "loop")
  /\ Ends(c)
  /\ UNCHANGED <<tenancyVars, checkpoint, mainFile, copies>>

Kill(c) ==
  /\ ~At(c, "idle")
  /\ proc' = [proc EXCEPT ![c] = Idle]
  /\ wire' = {[r EXCEPT !.to = IF @ = c THEN Gone ELSE @] : r \in wire}
  /\ answers' = [answers EXCEPT ![c] = NoAnswer]
  /\ UNCHANGED <<identity, objects, lockFile, checkpoint, mainFile, copies>>

(* The stale lock is removed once no bootstrap runs. *)
ClearLock ==
  /\ lockFile /\ \A c \in Clients : At(c, "idle")
  /\ lockFile' = FALSE
  /\ UNCHANGED <<tenancyVars, checkpoint, mainFile, copies, proc>>

-----------------------------------------------------------------------------
(* Requests *)

Post(c, op, on, token) ==
  wire' = wire \cup {[op |-> op, to |-> c, user |-> Us, by |-> "bootstrap", on |-> on,
                      token |-> token, stage |-> "sent"]}
Take(c) == answers' = [answers EXCEPT ![c] = NoAnswer]
Forget(c) == /\ wire' = {[r EXCEPT !.to = IF @ = c THEN Gone ELSE @] : r \in wire}
             /\ Take(c)
Answered(c, statuses) == answers[c].status \in statuses
(* A request that failed in transport may still be handled; it may also    *)
(* have been answered already.                                             *)
NotOk(c) == Answered(c, {"none", "refused", "failed"})
(* authenticate(): the session found or signed in for names the User. *)
Authenticated == server # "down" /\ Member(Us)

(* validatePrincipal(): the Workspace is the User's, the Principal in it. *)
Validated(w, p) == Authenticated /\ Exists(w) /\ (p # 0 => Listed(w, p))

-----------------------------------------------------------------------------
(* Enrollment *)

Enroll(c) ==
  /\ Step(c, {"initial", "enrollment:in-flight"}) /\ proc[c].ready = "pending"
  /\ capability \in Written
  /\ Save(To("enrollment:in-flight"))
  /\ Post(c, "enroll", 0, capability)
  /\ Moves(c, "enrolling")
  /\ UNCHANGED <<identity, objects, answers, lockFile, mainFile, copies>>

(* With the state claimed, or after an answer that did not tell, the User  *)
(* the session names is the one enrolled.                                  *)
Enrolled(c) ==
  /\ \/ At(c, "enrolling") /\ Answered(c, {"ok"}) /\ Take(c) /\ UNCHANGED wire
     \/ At(c, "enrolling") /\ Answered(c, {"none", "failed"}) /\ Ready /\ Observed = "claimed"
          /\ Authenticated /\ Forget(c)
     \/ /\ Step(c, {"initial", "enrollment:in-flight"}) /\ proc[c].ready = "claimed"
        /\ Authenticated /\ UNCHANGED <<wire, answers>>
  /\ Save(To("enrollment:saved")) /\ Moves(c, "loop")
  /\ UNCHANGED <<identity, objects, lockFile, mainFile, copies>>

EnrollAgain(c) ==
  /\ At(c, "enrolling") /\ ~proc[c].again /\ Answered(c, {"none", "failed"})
  /\ Ready /\ Observed = "pending"
  /\ wire' = {[r EXCEPT !.to = IF @ = c THEN Gone ELSE @] : r \in wire}
             \cup {[op |-> "enroll", to |-> c, user |-> Us, by |-> "bootstrap", on |-> 0,
                    token |-> capability, stage |-> "sent"]}
  /\ Take(c)
  /\ proc' = [proc EXCEPT ![c].again = TRUE]
  /\ UNCHANGED <<identity, objects, lockFile, checkpoint, mainFile, copies>>

EnrollFails(c) ==
  /\ At(c, "enrolling") /\ NotOk(c)
  /\ Forget(c) /\ Ends(c)
  /\ UNCHANGED <<identity, objects, checkpoint, mainFile, copies>>

-----------------------------------------------------------------------------
(* Workspace and Principal *)

(* Mutant: a step that is in flight creates when nothing was adopted. *)
CreatesAgain(step) == {step, IF step = "enrollment:saved" THEN "workspace:in-flight" ELSE "principal:in-flight"}
CreatesFrom(step) == {step}

(* Only the invocation that saved the in-flight step sends the request. *)
AskWorkspace(c) ==
  /\ Step(c, CreatesFrom("enrollment:saved")) /\ Authenticated
  /\ Save(To("workspace:in-flight"))
  /\ IF proc[c].workspace = 0
     THEN Post(c, "workspace", 0, Absent) /\ Moves(c, "creating")
     ELSE UNCHANGED <<wire, proc>>
  /\ UNCHANGED <<identity, objects, answers, lockFile, mainFile, copies>>

AskPrincipal(c) ==
  /\ Step(c, CreatesFrom("workspace:saved")) /\ Validated(checkpoint.workspace, 0)
  /\ Save(To("principal:in-flight"))
  /\ IF proc[c].principal = 0
     THEN Post(c, "principal", checkpoint.workspace, Absent) /\ Moves(c, "creating")
     ELSE UNCHANGED <<wire, proc>>
  /\ UNCHANGED <<identity, objects, answers, lockFile, mainFile, copies>>

Identified(n) ==
  IF checkpoint.step = "workspace:in-flight"
  THEN [checkpoint EXCEPT !.step = "workspace:saved", !.workspace = n]
  ELSE [checkpoint EXCEPT !.step = "principal:saved", !.principal = n]

Created(c) ==
  /\ At(c, "creating") /\ Answered(c, {"ok"})
  /\ Save(Identified(answers[c].value)) /\ Take(c) /\ Moves(c, "loop")
  /\ UNCHANGED <<identity, objects, wire, lockFile, mainFile, copies>>

(* Whatever the error, adoption is required. *)
CreateFails(c) ==
  /\ At(c, "creating") /\ NotOk(c)
  /\ Forget(c) /\ Ends(c)
  /\ UNCHANGED <<identity, objects, checkpoint, mainFile, copies>>

Adopt(c) ==
  /\ \/ /\ Step(c, {"workspace:in-flight"}) /\ proc[c].workspace # 0
        /\ Validated(proc[c].workspace, 0)
        /\ Save(Identified(proc[c].workspace))
     \/ /\ Step(c, {"principal:in-flight"}) /\ proc[c].principal # 0
        /\ Validated(checkpoint.workspace, proc[c].principal)
        /\ Save(Identified(proc[c].principal))
  /\ UNCHANGED <<tenancyVars, lockFile, mainFile, copies, proc>>

-----------------------------------------------------------------------------
(* The key *)

Unsent == [checkpoint EXCEPT !.step = "principal:saved", !.file = NoFile]

Announce(c) ==
  /\ Step(c, {"principal:saved"}) /\ Validated(checkpoint.workspace, checkpoint.principal)
  /\ Save([To("key:in-flight") EXCEPT !.file = Main]) /\ Moves(c, "asking")
  /\ UNCHANGED <<tenancyVars, lockFile, mainFile, copies>>

NoKeyYet(p) == KeyOf(p) = 0

(* getPrincipalKey says that there is none.  The issue is a later request. *)
Ask(c) ==
  /\ At(c, "asking") /\ server # "down" /\ NoKeyYet(checkpoint.principal)
  /\ Moves(c, "issuing")
  /\ UNCHANGED <<tenancyVars, lockFile, checkpoint, mainFile, copies>>

SendIssue(c) ==
  /\ At(c, "issuing")
  /\ Post(c, "key", checkpoint.principal, Absent) /\ Moves(c, "issued")
  /\ UNCHANGED <<identity, objects, answers, lockFile, checkpoint, mainFile, copies>>

(* No request left: no session, or no connection. *)
NothingSent(c) ==
  /\ proc[c].at \in {"asking", "issuing"}
  /\ Save(Unsent) /\ Ends(c)
  /\ UNCHANGED <<tenancyVars, mainFile, copies>>

Issued(c) ==
  /\ At(c, "issued") /\ Answered(c, {"ok"})
  /\ proc' = [proc EXCEPT ![c].at = "write", ![c].key = answers[c].value]
  /\ Take(c)
  /\ UNCHANGED <<identity, objects, wire, lockFile, checkpoint, mainFile, copies>>

(* Mutant: the checkpoint is saved before the credential file is written. *)
SavedFirst(c) ==
  /\ At(c, "write")
  /\ Save(To("key:saved")) /\ Moves(c, "mark")
  /\ UNCHANGED <<tenancyVars, lockFile, mainFile, copies>>
WriteKey(c) ==
  /\ At(c, "write") /\ mainFile = 0
  /\ mainFile' = proc[c].key /\ Moves(c, "mark")
  /\ UNCHANGED <<tenancyVars, lockFile, checkpoint, copies>>

Mark(c) ==
  /\ At(c, "mark")
  /\ Save(To("key:saved")) /\ Moves(c, "loop")
  /\ UNCHANGED <<tenancyVars, lockFile, mainFile, copies>>

(* Every other error of the key's step: an error answer, none, a key that  *)
(* is there already, a file that cannot be written, a checkpoint that      *)
(* cannot be saved (then it stays in flight).                              *)
Ambiguous(c) ==
  /\ \/ proc[c].at \in {"asking", "issuing", "write", "mark"}
     \/ At(c, "issued") /\ NotOk(c)
  /\ Forget(c)
  /\ Save(To("key:ambiguous")) \/ UNCHANGED checkpoint
  /\ Ends(c)
  /\ UNCHANGED <<identity, objects, mainFile, copies>>

(* A later invocation finds the step in flight. *)
Resume(c) ==
  /\ Step(c, {"key:in-flight"})
  /\ \/ Verified(KeyIn(checkpoint.file)) /\ Save(To("key:saved"))
     \/ Save(To("key:ambiguous"))
  /\ UNCHANGED <<tenancyVars, lockFile, mainFile, copies, proc>>

(* --recover-key-file: a key issued by hand, verified, copied, recorded. *)
Copy(c) ==
  /\ Step(c, {"key:ambiguous", "key:saved"}) /\ proc[c].recover # 0
  /\ Verified(proc[c].recover)
  /\ copies' = copies \cup {proc[c].recover} /\ Moves(c, "copied")
  /\ UNCHANGED <<tenancyVars, lockFile, checkpoint, mainFile>>

Record(c) ==
  /\ At(c, "copied")
  /\ Save([To("key:saved") EXCEPT !.file = proc[c].recover]) \/ UNCHANGED checkpoint
  /\ Ends(c)
  /\ UNCHANGED <<tenancyVars, mainFile, copies>>

-----------------------------------------------------------------------------
Init ==
  /\ TenancyInit
  /\ lockFile = FALSE
  /\ checkpoint = [step |-> "initial", workspace |-> 0, principal |-> 0, file |-> NoFile]
  /\ mainFile = 0 /\ copies = {} /\ proc = [c \in Clients |-> Idle]

(* The one who runs it has looked up the exact ID, or has a file issued by *)
(* hand, and passes it while it can matter.                                *)
Runs(c) ==
  \/ Run(c, 0, 0, 0)
  \/ checkpoint.workspace = 0 /\ \E w \in DOMAIN workspaces : Run(c, w, 0, 0)
  \/ checkpoint.principal = 0 /\ \E p \in DOMAIN principals : Run(c, 0, p, 0)
  \/ \E k \in DOMAIN keys : keys[k].by = "hand" /\ Run(c, 0, 0, k)

Walk(c) ==
  \/ Enroll(c) \/ Enrolled(c) \/ EnrollAgain(c) \/ EnrollFails(c)
  \/ AskWorkspace(c) \/ AskPrincipal(c) \/ Created(c) \/ CreateFails(c) \/ Adopt(c)
  \/ Announce(c) \/ Ask(c) \/ SendIssue(c) \/ NothingSent(c) \/ Issued(c)
  \/ WriteKey(c) \/ Mark(c) \/ Ambiguous(c) \/ Resume(c) \/ Copy(c) \/ Record(c)

Next ==
  \/ TenancyNext /\ UNCHANGED bootVars
  \/ \E c \in Clients : Runs(c) \/ Walk(c) \/ GiveUp(c) \/ Kill(c)
  \/ ClearLock

Spec == Init /\ [][Next]_vars

-----------------------------------------------------------------------------
(* Properties *)

Mine(made) == {n \in DOMAIN made : made[n].by = "bootstrap"}

(* Whatever is killed, lost or run again, the invocations of one           *)
(* checkpoint create one Workspace, one Principal and one key at most:     *)
(* a step in flight is adopted or verified, never repeated                 *)
(* (bootstrap.ts:133, infra/bootstrap/README.md "Resume and recovery").    *)
ProvisionedOnce ==
  /\ Cardinality(Mine(workspaces)) <= 1
  /\ Cardinality(Mine(principals)) <= 1
  /\ Cardinality(Mine(keys)) <= 1

(* The steps after which something is saved *)
WithPrincipal == {"principal:saved", "key:in-flight", "key:ambiguous", "key:saved"}
WithWorkspace == {"workspace:saved", "principal:in-flight"} \cup WithPrincipal
WithUser == {"enrollment:saved", "workspace:in-flight"} \cup WithWorkspace

(* What the checkpoint calls saved is there: the User is enrolled, the     *)
(* Workspace and the Principal in it exist, and the file named by          *)
(* key:saved holds a key that was issued for that Principal.               *)
EvidenceTrue ==
  /\ checkpoint.step \in WithUser => claimed = Us
  /\ checkpoint.step \in WithWorkspace => Exists(checkpoint.workspace)
  /\ checkpoint.step \in WithPrincipal => Listed(checkpoint.workspace, checkpoint.principal)
  /\ checkpoint.step = "key:saved" =>
       /\ KeyIn(checkpoint.file) \in DOMAIN keys
       /\ keys[KeyIn(checkpoint.file)].principal = checkpoint.principal
       /\ checkpoint.file \in Recovered => checkpoint.file \in copies

(* A checkpoint provisions once, and says what it did.                     *)
Provisioned == ProvisionedOnce /\ EvidenceTrue
=============================================================================
