------------------------------- MODULE Tenancy -------------------------------
(***************************************************************************)
(* What a human's session may do on the server: the first User enrolls     *)
(* with the capability the server published on its disk, then creates      *)
(* Workspaces, Principals and their keys.                                  *)
(*                                                                         *)
(* Handlers run in one transaction each, so a handler is one step; the     *)
(* enrollment is three, because it observes the state before its           *)
(* transaction and removes the file after it.  The server may stop between *)
(* any two steps, and inside the publication of the capability.            *)
(*                                                                         *)
(* A Workspace, a Principal and a key are known by their number.  Sessions *)
(* are those of Better Auth: a User's request is made in his name.         *)
(***************************************************************************)
EXTENDS Naturals, Sequences, FiniteSets, SequencesExt

CONSTANTS
  Clients,      \* the processes that wait for answers
  Gone,         \* no process waits for the answer any more
  Us, Other,    \* two people who know the capability file
  Nobody,
  MaxByHand,    \* bound: Workspaces, Principals and keys a person makes, of each
  MaxStops      \* bound: stops of the server

\* Assumed of the constants, by the module that gives them values.
TenancyAssumption ==
  /\ Gone \notin Clients /\ Us # Other /\ Nobody \notin {Us, Other}
  /\ MaxByHand \in Nat /\ MaxStops \in Nat

VARIABLES
  users,       \* control.user: who has an identity
  claimed,     \* control.enrollment: who claimed it, Nobody while pending
  capability,  \* the file on the server's disk
  hash,        \* the digest the server process keeps
  server,      \* "down", "up", or "failed": the publication threw
  stops,
  workspaces,  \* [by] in the order of creation
  principals,  \* [by, workspace]
  keys,        \* [by, principal]: every key ever issued
  wire,        \* requests that reached the server's socket
  answers      \* [Clients -> the answer that waits for it]

identity == <<users, claimed, capability, hash, server, stops>>
objects == <<workspaces, principals, keys>>
tenancyVars == <<identity, objects, wire, answers>>

(* The file: absent, created and not written, or one of the values drawn.  *)
(* Values are random: a value drawn later is another one.                  *)
Absent == 0
Torn == 1
Written == 2 .. MaxStops + 3

Makers == {"bootstrap", "hand"}
Operations == {"enroll", "workspace", "principal", "key"}
Request == [op : Operations, to : Clients \cup {Gone}, user : {Us, Other}, by : Makers,
            on : Nat, token : {Absent} \cup Written,
            stage : {"sent", "checked", "committed"}]
Answer == [status : {"none", "ok", "refused", "failed"}, value : Nat]
NoAnswer == [status |-> "none", value |-> 0]

-----------------------------------------------------------------------------
(* Facts *)

(* What /health/ready says of the enrollment. *)
Observed ==
  IF claimed # Nobody THEN "claimed"
  ELSE IF users # {} \/ server = "failed" THEN "recovery_required"
  ELSE IF hash # Absent THEN "pending" ELSE "unknown"

(* The claim's trigger makes its User a member of the Organization, and    *)
(* nothing else does.                                                      *)
Member(user) == claimed = user

Exists(w) == w \in DOMAIN workspaces
Listed(w, p) == p \in DOMAIN principals /\ principals[p].workspace = w

(* The one credential of a Principal: the key issued last. *)
KeyOf(p) ==
  LET own == {k \in DOMAIN keys : keys[k].principal = p}
  IN IF own = {} THEN 0 ELSE CHOOSE k \in own : \A other \in own : other <= k
Authenticates(k) == k \in DOMAIN keys /\ KeyOf(keys[k].principal) = k

-----------------------------------------------------------------------------
(* The server process *)

(* prepare(): with nobody enrolled the file is created or read again; the  *)
(* process may stop with the file created and empty.                       *)
Start ==
  /\ server = "down"
  /\ \/ /\ claimed # Nobody \/ users # {} \/ capability \in Written
        /\ hash' = IF claimed = Nobody /\ users = {} THEN capability ELSE Absent
        /\ server' = "up"
        /\ UNCHANGED <<capability, stops>>
     \/ /\ claimed = Nobody /\ users = {} /\ capability = Torn
        /\ hash' = Absent /\ server' = "failed"
        /\ UNCHANGED <<capability, stops>>
     \/ /\ claimed = Nobody /\ users = {} /\ capability = Absent
        /\ capability' = 2 + stops /\ hash' = 2 + stops /\ server' = "up"
        /\ UNCHANGED stops
     \/ /\ claimed = Nobody /\ users = {} /\ capability = Absent /\ stops < MaxStops
        /\ capability' = Torn /\ stops' = stops + 1
        /\ UNCHANGED <<hash, server>>
  /\ UNCHANGED <<users, claimed, objects, wire, answers>>

(* Whoever waits for a handler that had begun gets no answer. *)
Stop ==
  /\ server # "down" /\ stops < MaxStops
  /\ server' = "down" /\ hash' = Absent /\ stops' = stops + 1
  /\ wire' = {r \in wire : r.stage = "sent"}
  /\ UNCHANGED <<users, claimed, capability, objects, answers>>

(* The operator removes a file that was never written and starts again.    *)
Repair ==
  /\ server = "failed" /\ capability = Torn
  /\ capability' = Absent /\ server' = "down"
  /\ wire' = {r \in wire : r.stage = "sent"}
  /\ UNCHANGED <<users, claimed, hash, stops, objects, answers>>

-----------------------------------------------------------------------------
(* Handlers *)

Reply(r, status, value) ==
  answers' = IF r.to = Gone THEN answers
             ELSE [answers EXCEPT ![r.to] = [status |-> status, value |-> value]]
Done(r) == wire' = wire \ {r}
Advance(r, stage) == wire' = (wire \ {r}) \cup {[r EXCEPT !.stage = stage]}

TokenValid(r) == hash # Absent /\ r.token = hash

(* Mutant: the file goes before the enrollment is committed. *)
EagerCheck(r) ==
  /\ r.op = "enroll" /\ r.stage = "sent" /\ Observed = "pending" /\ TokenValid(r)
  /\ Advance(r, "checked") /\ capability' = Absent
  /\ UNCHANGED <<users, claimed, hash, server, stops, objects, answers>>

(* enroll(): the checks outside the transaction. *)
EnrollCheck(r) ==
  /\ r.op = "enroll" /\ r.stage = "sent"
  /\ IF Observed = "pending" /\ TokenValid(r)
     THEN Advance(r, "checked") /\ UNCHANGED answers
     ELSE /\ Done(r)
          /\ Reply(r, IF Observed \in {"claimed", "pending"} THEN "refused" ELSE "failed", 0)
  /\ UNCHANGED <<identity, objects>>

(* Read again under the lock of the Organization's row. *)
StillPending == claimed = Nobody /\ users = {}

(* enrollFirstUser: the identity, the claim and the membership, or nothing: *)
(* a claim that came first, a lock that timed out, a restore gate.          *)
EnrollCommit(r) ==
  /\ r.op = "enroll" /\ r.stage = "checked"
  /\ \/ /\ StillPending
        /\ users' = users \cup {r.user} /\ claimed' = r.user
        /\ Advance(r, "committed")
        /\ UNCHANGED answers
     \/ /\ Done(r) /\ Reply(r, IF claimed # Nobody THEN "refused" ELSE "failed", 0)
        /\ UNCHANGED <<users, claimed>>
  /\ UNCHANGED <<capability, hash, server, stops, objects>>

(* Only a committed enrollment removes the file; an error of it is ignored. *)
EnrollAnswer(r) ==
  /\ r.op = "enroll" /\ r.stage = "committed"
  /\ capability' \in {Absent, capability}
  /\ Done(r) /\ Reply(r, "ok", 0)
  /\ UNCHANGED <<users, claimed, hash, server, stops, objects>>

NewWorkspace(by) == workspaces' = Append(workspaces, [by |-> by])
NewPrincipal(by, w) == principals' = Append(principals, [by |-> by, workspace |-> w])
(* Issued, or rotated: the row of the Principal is replaced. *)
NewKey(by, p) == keys' = Append(keys, [by |-> by, principal |-> p])

CreateWorkspace(r) ==
  /\ r.op = "workspace"
  /\ \/ /\ Member(r.user)
        /\ NewWorkspace(r.by) /\ Reply(r, "ok", Len(workspaces) + 1)
     \/ /\ Reply(r, IF Member(r.user) THEN "failed" ELSE "refused", 0)
        /\ UNCHANGED workspaces
  /\ Done(r)
  /\ UNCHANGED <<identity, principals, keys>>

CreatePrincipal(r) ==
  /\ r.op = "principal"
  /\ \/ /\ Member(r.user) /\ Exists(r.on)
        /\ NewPrincipal(r.by, r.on) /\ Reply(r, "ok", Len(principals) + 1)
     \/ /\ Reply(r, IF Member(r.user) /\ Exists(r.on) THEN "failed" ELSE "refused", 0)
        /\ UNCHANGED principals
  /\ Done(r)
  /\ UNCHANGED <<identity, workspaces, keys>>

IssueKey(r) ==
  /\ r.op = "key"
  /\ \/ /\ Member(r.user) /\ r.on \in DOMAIN principals
        /\ NewKey(r.by, r.on) /\ Reply(r, "ok", Len(keys) + 1)
     \/ /\ Reply(r, IF Member(r.user) /\ r.on \in DOMAIN principals THEN "failed" ELSE "refused", 0)
        /\ UNCHANGED keys
  /\ Done(r)
  /\ UNCHANGED <<identity, workspaces, principals>>

Handle ==
  /\ server # "down"
  /\ \E r \in wire :
       \/ EnrollCheck(r) \/ EnrollCommit(r) \/ EnrollAnswer(r)
       \/ CreateWorkspace(r) \/ CreatePrincipal(r) \/ IssueKey(r)

MoreOf(made) == Cardinality({n \in DOMAIN made : made[n].by = "hand"}) < MaxByHand

(* The same calls made with the CLI's own commands, by a person who waits  *)
(* for each: one Workspace, Principal or key more.                         *)
ByHand ==
  /\ server # "down" /\ Member(Us)
  /\ \/ /\ MoreOf(workspaces) /\ NewWorkspace("hand")
        /\ UNCHANGED <<principals, keys>>
     \/ /\ MoreOf(principals)
        /\ \E w \in DOMAIN workspaces : NewPrincipal("hand", w)
        /\ UNCHANGED <<workspaces, keys>>
     \/ /\ MoreOf(keys)
        /\ \E p \in DOMAIN principals : NewKey("hand", p)
        /\ UNCHANGED <<workspaces, principals>>
  /\ UNCHANGED <<identity, wire, answers>>

(* Somebody else uses the capability: two enrollments race. *)
OtherEnrolls ==
  /\ claimed = Nobody /\ capability \in Written /\ \A r \in wire : r.user # Other
  /\ wire' = wire \cup {[op |-> "enroll", to |-> Gone, user |-> Other, by |-> "hand",
                         on |-> 0, token |-> capability, stage |-> "sent"]}
  /\ UNCHANGED <<identity, objects, answers>>

TenancyInit ==
  /\ users = {} /\ claimed = Nobody
  /\ capability = Absent /\ hash = Absent /\ server = "down" /\ stops = 0
  /\ workspaces = <<>> /\ principals = <<>> /\ keys = <<>>
  /\ wire = {} /\ answers = [c \in Clients |-> NoAnswer]

TenancyNext == Start \/ Stop \/ Repair \/ Handle \/ ByHand \/ OtherEnrolls

-----------------------------------------------------------------------------
(* Properties *)

(* The server is never left with a capability nobody can use: while it     *)
(* reports the enrollment as pending the file holds what its digest is of, *)
(* and a User exists exactly when the enrollment is claimed, so the        *)
(* enrollment itself never leads to recovery_required (enrollment.ts:21).  *)
CapabilityWorks ==
  /\ Observed = "pending" => capability = hash
  /\ users = {} <=> claimed = Nobody
  /\ claimed # Nobody => users = {claimed}
=============================================================================
