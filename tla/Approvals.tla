----------------------------- MODULE Approvals -----------------------------
(***************************************************************************)
(* The approvals of one Workspace: gates on a table's rows and on schema   *)
(* migrations, requests bound to a version of their target, decisions by   *)
(* Users or delegated Principals, and the writes that use them up.         *)
(*                                                                         *)
(* Every operation runs in one transaction that holds the Workspace cursor *)
(* (approvalWrite, executeSql and applyMigration through withRunContext,   *)
(* module RunContext), so each is one action here; what can go wrong is    *)
(* the order of operations: an approval used after its target changed, was *)
(* changed back, or was ungated and gated again; a delegation that outlives*)
(* the member who gave it; an approval that one agent alone obtains and    *)
(* uses.  Rejected operations change none of this state.                   *)
(***************************************************************************)
EXTENDS Integers, Sequences, FiniteSets

CONSTANTS
    Principals,     \* the agents
    Delegable,      \* those that are active and not the system's own
    Users,          \* the humans
    Rows,           \* the rows of the one gated table
    Contents,       \* what a row may hold
    Migrations,     \* migration texts (their hashes)
    Touching,       \* those that name the gated table
    Absent,         \* no such row, no delegation, no approval
    MaxApprovals, MaxRowFlips, MaxSchemaFlips, MaxRevision, MaxHolds,
    MaxMemberships  \* bounds

ASSUME ApprovalsAssumption ==
    /\ Touching \subseteq Migrations /\ Delegable \subseteq Principals
    /\ Absent \notin Principals \cup Users \cup Contents \cup Nat
    /\ Principals \cap Users = {}
    /\ {MaxApprovals, MaxRowFlips, MaxSchemaFlips, MaxRevision, MaxHolds} \subseteq Nat
    /\ MaxMemberships \in Nat \ {0}

VARIABLES
    gate,           \* control.approval_gates: for each kind, enabled and epoch
    revision,       \* control.workspace_migrations: the latest revision
    rows,           \* the table's contents
    previews,       \* migration.previewed events: principal, revision, hash
    delivery,       \* one Message's current Delivery: its number and state
    approvals,      \* control.approvals in the order of their requests
    allowSelf,      \* control.approval_settings.allow_self_approval
    members,        \* control.member: each User's membership number, 0 if none
    enrolled,       \* each User's memberships so far (member ids are fresh)
    delegations,    \* control.approval_delegations: grantor and membership
    disturbed,      \* ghost: approvals whose target or gate changed since the request
    trusted         \* ghost: Principals whose last grantor is still that member

vars == <<gate, revision, rows, previews, delivery, approvals, allowSelf,
          members, enrolled, delegations, disturbed, trusted>>
people == <<allowSelf, members, enrolled, delegations, trusted>>

Kinds == {"row", "migration"}
MaxFlips == [kind \in Kinds |-> IF kind = "row" THEN MaxRowFlips ELSE MaxSchemaFlips]
Approvers == Principals \cup Users
Asked == DOMAIN approvals

TypeOK ==
    /\ gate \in [Kinds -> [enabled : BOOLEAN, epoch : Nat]]
    /\ \A kind \in Kinds : gate[kind].epoch <= MaxFlips[kind]
    /\ revision \in 0..MaxRevision
    /\ rows \in [Rows -> Contents \cup {Absent}]
    /\ previews \subseteq [by : Principals, revision : 0..MaxRevision, sql : Migrations]
    /\ delivery \in [id : 0..MaxHolds, state : {"leased", "held"}]
    /\ Len(approvals) <= MaxApprovals
    /\ \A a \in Asked :
        /\ approvals[a].kind \in Kinds \cup {"message"}
        /\ approvals[a].by \in Principals
        /\ approvals[a].decision \in {"none", "approve", "reject"}
        /\ approvals[a].decider \in Approvers \cup {Absent}
        /\ approvals[a].user \in Principals \cup {Absent}
        /\ approvals[a].user # Absent => approvals[a].decision = "approve"
    /\ allowSelf \in BOOLEAN
    /\ members \in [Users -> 0..MaxMemberships]
    /\ enrolled \in [Users -> 0..MaxMemberships]
    /\ \A p \in Principals : delegations[p] # Absent =>
          delegations[p] \in [by : Users, membership : 1..MaxMemberships]
    /\ disturbed \subseteq Asked
    /\ trusted \subseteq Principals

Init ==
    /\ gate = [k \in Kinds |-> [enabled |-> FALSE, epoch |-> 0]]
    /\ revision = 0
    /\ rows \in [Rows -> Contents]
    /\ previews = {}
    /\ delivery = [id |-> 0, state |-> "leased"]
    /\ approvals = << >>
    /\ allowSelf = FALSE
    /\ members = [u \in Users |-> 1]
    /\ enrolled = members
    /\ delegations = [p \in Principals |-> Absent]
    /\ disturbed = {}
    /\ trusted = {}

-----------------------------------------------------------------------------
(* Targets and their versions.                                             *)

Consumed(a) == approvals[a].user # Absent

\* What a target's approvals are compared with: a row's version is the hash
\* lock_approval_row takes over the schema's revision, the gate's epoch, the
\* last consumption on this row and the row itself (positions only grow, so
\* how many consumptions there were stands for the last one's position).
\* (Mutant Unlinked: used approvals leave no mark on the version.)
Unlinked(r) == [revision |-> revision, epoch |-> gate["row"].epoch, row |-> rows[r]]
RowVersion(r) ==
    [revision |-> revision, epoch |-> gate["row"].epoch, row |-> rows[r],
     consumed |-> Cardinality({a \in Asked : approvals[a].kind = "row"
                               /\ approvals[a].target = r /\ Consumed(a)})]

\* Ghost: the approvals about a target that changes in this step.
About(kind, targets) ==
    {a \in Asked : approvals[a].kind = kind /\ approvals[a].target \in targets}
Disturb(more) == disturbed' = disturbed \cup more

Member(u) == members[u] > 0

-----------------------------------------------------------------------------
(* Policy set by Users.                                                    *)

\* setGate: a flip gives the gate a fresh epoch; a repeated write does not.
SetGate(u, kind) ==
    /\ Member(u)
    /\ gate[kind].epoch < MaxFlips[kind]
    /\ gate' = [gate EXCEPT ![kind] = [enabled |-> ~@.enabled, epoch |-> @.epoch + 1]]
    /\ Disturb({a \in Asked : approvals[a].kind = kind})
    /\ UNCHANGED <<revision, rows, previews, delivery, approvals, people>>

\* setSettings
SetSettings(u) ==
    /\ Member(u)
    /\ allowSelf' = ~allowSelf
    /\ UNCHANGED <<gate, revision, rows, previews, delivery, approvals,
                   members, enrolled, delegations, disturbed, trusted>>

\* setDelegation: the grant names the grantor's membership; anyone's revokes.
SetDelegation(u, p, enabled) ==
    /\ Member(u)
    /\ enabled => p \in Delegable
    /\ delegations' = [delegations EXCEPT ![p] =
          IF enabled THEN [by |-> u, membership |-> members[u]] ELSE Absent]
    /\ trusted' = IF enabled THEN trusted \cup {p} ELSE trusted \ {p}
    /\ UNCHANGED <<gate, revision, rows, previews, delivery, approvals,
                   allowSelf, members, enrolled, disturbed>>

\* The login service removes and enrolls members; a member's id is fresh.
Leave(u) ==
    /\ Member(u)
    /\ members' = [members EXCEPT ![u] = 0]
    /\ trusted' = {p \in trusted : delegations[p].by # u}
    /\ UNCHANGED <<gate, revision, rows, previews, delivery, approvals,
                   allowSelf, enrolled, delegations, disturbed>>

Enroll(u) ==
    /\ ~Member(u)
    /\ enrolled[u] < MaxMemberships
    /\ enrolled' = [enrolled EXCEPT ![u] = @ + 1]
    /\ members' = [members EXCEPT ![u] = enrolled[u] + 1]
    /\ UNCHANGED <<gate, revision, rows, previews, delivery, approvals,
                   allowSelf, delegations, disturbed, trusted>>

-----------------------------------------------------------------------------
(* Requests.                                                               *)

Record(p, kind, target, version, action) ==
    /\ Len(approvals) < MaxApprovals
    /\ approvals' = Append(approvals,
         [kind |-> kind, target |-> target, version |-> version, by |-> p, action |-> action,
          epoch |-> IF kind = "message" THEN 0 ELSE gate[kind].epoch,
          decision |-> "none", decider |-> Absent, selfAllowed |-> FALSE,
          user |-> Absent, expired |-> FALSE])

\* requestApproval, row: the proposal names an existing row of a gated table
\* and the version the caller saw is its version now.
RequestRow(p, r, to) ==
    /\ gate["row"].enabled
    /\ rows[r] # Absent
    /\ Record(p, "row", r, RowVersion(r), to)
    /\ UNCHANGED <<gate, revision, rows, previews, delivery, people, disturbed>>

Preview(p, sql) ==
    /\ previews' = previews \cup {[by |-> p, revision |-> revision, sql |-> sql]}
    /\ UNCHANGED <<gate, revision, rows, delivery, approvals, people, disturbed>>

Previewed(p, sql) == [by |-> p, revision |-> revision, sql |-> sql] \in previews

\* requestApproval, migration: migrationRequestPolicy.
RequestMigration(p, sql) ==
    /\ gate["migration"].enabled
    /\ Previewed(p, sql)
    /\ Record(p, "migration", sql, revision, sql)
    /\ UNCHANGED <<gate, revision, rows, previews, delivery, people, disturbed>>

\* requestApproval, message: holds the Delivery the caller has leased.
RequestMessage(p) ==
    /\ delivery.state = "leased"
    /\ delivery.id < MaxHolds
    /\ delivery' = [delivery EXCEPT !.state = "held"]
    /\ Record(p, "message", delivery.id, delivery.id, Absent)
    /\ UNCHANGED <<gate, revision, rows, previews, people, disturbed>>

\* holdIn and releaseIn outside approvals; a release makes the next Delivery,
\* which some agent claims again.
Hold ==
    /\ delivery.state = "leased"
    /\ delivery.id < MaxHolds
    /\ delivery' = [delivery EXCEPT !.state = "held"]
    /\ UNCHANGED <<gate, revision, rows, previews, approvals, people, disturbed>>

Redispatch ==
    /\ delivery.state = "held"
    /\ delivery' = [id |-> delivery.id + 1, state |-> "leased"]

Release(u) ==
    /\ Member(u)
    /\ Redispatch
    /\ Disturb(About("message", {delivery.id}))
    /\ UNCHANGED <<gate, revision, rows, previews, approvals, people>>

\* expires_at passes.
Expire(a) ==
    /\ ~approvals[a].expired
    /\ approvals' = [approvals EXCEPT ![a].expired = TRUE]
    /\ UNCHANGED <<gate, revision, rows, previews, delivery, people, disturbed>>

-----------------------------------------------------------------------------
(* Decisions.                                                              *)

\* Who may decide: a member, or a Principal whose delegation names the very
\* membership its grantor still has.
\* (Mutant ByName: a delegation knows its grantor by name only.)
ByName(p) == delegations[p] # Absent /\ Member(delegations[p].by)
Delegated(p) ==
    /\ delegations[p] # Absent
    /\ members[delegations[p].by] = delegations[p].membership

MayDecide(who) == IF who \in Users THEN Member(who) ELSE Delegated(who)

\* decide reads the target again: it must be what was asked about.
Unchanged(a) ==
    \/ /\ approvals[a].kind = "message"
       /\ delivery = [id |-> approvals[a].target, state |-> "held"]
    \/ /\ approvals[a].kind = "row"
       /\ gate["row"].enabled
       /\ rows[approvals[a].target] # Absent
       /\ RowVersion(approvals[a].target) = approvals[a].version
    \/ /\ approvals[a].kind = "migration"
       /\ gate["migration"] = [enabled |-> TRUE, epoch |-> approvals[a].epoch]
       /\ revision = approvals[a].version

\* decisionPolicy: not decided, not expired, not stale, and not one's own
\* unless the Workspace allows it now.
DecisionPolicy(who, a) ==
    /\ approvals[a].decision = "none"
    /\ ~approvals[a].expired
    /\ Unchanged(a)
    /\ who = approvals[a].by => allowSelf

\* decideApproval: approving a Message releases its Delivery.
Decide(who, a, verdict) ==
    /\ MayDecide(who)
    /\ DecisionPolicy(who, a)
    /\ approvals' = [approvals EXCEPT ![a].decision = verdict, ![a].decider = who,
                                      ![a].selfAllowed = allowSelf]
    /\ IF approvals[a].kind = "message" /\ verdict = "approve"
       THEN Redispatch /\ Disturb(About("message", {delivery.id}))
       ELSE UNCHANGED <<delivery, disturbed>>
    /\ UNCHANGED <<gate, revision, rows, previews, people>>

-----------------------------------------------------------------------------
(* Gated work.                                                             *)

\* checkRowApproval: the approval is the caller's own, approved, of this very
\* change, and the row is still at the version that was asked about.
\* (Mutant AnyCaller: anybody may use an approval.)
AnyCaller(p, r, to, a) ==
    /\ approvals[a].kind = "row"
    /\ approvals[a].target = r
    /\ gate["row"].enabled
    /\ ~Consumed(a)
    /\ ~approvals[a].expired
    /\ approvals[a].decision = "approve"
    /\ approvals[a].action = to
    /\ approvals[a].epoch = gate["row"].epoch
    /\ approvals[a].version = RowVersion(r)
CheckRowApproval(p, r, to, a) ==
    /\ approvals[a].kind = "row"
    /\ approvals[a].target = r
    /\ approvals[a].by = p
    /\ gate["row"].enabled
    /\ ~Consumed(a)
    /\ ~approvals[a].expired
    /\ approvals[a].decision = "approve"
    /\ approvals[a].action = to
    /\ approvals[a].epoch = gate["row"].epoch
    /\ approvals[a].version = RowVersion(r)

Consume(p, a) == approvals' = [approvals EXCEPT ![a].user = p]

\* executeSqlIn without an approval: inserts are never gated; updates and
\* deletes only while the table's gate is off.
\* (Mutant Upserts: an insert may meet a row that is there.)
Upserts(r, to) ==
    /\ rows[r] # to /\ to # Absent
    /\ rows' = [rows EXCEPT ![r] = to]
    /\ Disturb(About("row", {r}))
    /\ UNCHANGED <<gate, revision, previews, delivery, approvals, people>>
WriteFreely(r, to) ==
    /\ rows[r] # to
    /\ rows[r] = Absent \/ ~gate["row"].enabled
    /\ rows' = [rows EXCEPT ![r] = to]
    /\ Disturb(About("row", {r}))
    /\ UNCHANGED <<gate, revision, previews, delivery, approvals, people>>

\* executeSqlIn with one: the row is written and the approval used up
\* (consumeRowApproval) in the same transaction.
WriteApproved(p, r, to, a) ==
    /\ CheckRowApproval(p, r, to, a)
    /\ rows[r] # Absent
    /\ rows' = [rows EXCEPT ![r] = to]
    /\ Consume(p, a)
    /\ Disturb(About("row", {r}))
    /\ UNCHANGED <<gate, revision, previews, delivery, people>>

\* migrationConsumptionPolicy
MigrationConsumptionPolicy(p, sql, a) ==
    /\ approvals[a].kind = "migration"
    /\ approvals[a].by = p
    /\ approvals[a].target = sql
    /\ ~Consumed(a)
    /\ ~approvals[a].expired
    /\ gate["migration"] = [enabled |-> TRUE, epoch |-> approvals[a].epoch]
    /\ approvals[a].version = revision
    /\ approvals[a].decision = "approve"

\* A migration that names a table whose row gate is on is refused.
GateConflict(sql) == sql \in Touching /\ gate["row"].enabled

\* applyMigration: the caller's own preview at this revision, then the gate,
\* then the change (here: one that names the table empties it).
ApplyMigration(p, sql, a) ==
    /\ revision < MaxRevision
    /\ Previewed(p, sql)
    /\ ~GateConflict(sql)
    /\ IF a = Absent THEN ~gate["migration"].enabled /\ UNCHANGED approvals
                     ELSE MigrationConsumptionPolicy(p, sql, a) /\ Consume(p, a)
    /\ revision' = revision + 1
    /\ rows' = IF sql \in Touching THEN [r \in Rows |-> Absent] ELSE rows
    /\ Disturb(About("migration", Migrations) \cup About("row", Rows))
    /\ UNCHANGED <<gate, previews, delivery, people>>

-----------------------------------------------------------------------------
Next ==
    \/ \E u \in Users :
        \/ \E kind \in Kinds : SetGate(u, kind)
        \/ SetSettings(u)
        \/ \E p \in Principals, enabled \in BOOLEAN : SetDelegation(u, p, enabled)
        \/ Leave(u)
        \/ Enroll(u)
        \/ Release(u)
    \/ Hold
    \/ \E p \in Principals :
        \/ \E r \in Rows, to \in Contents \cup {Absent} : RequestRow(p, r, to)
        \/ \E sql \in Migrations : Preview(p, sql) \/ RequestMigration(p, sql)
        \/ RequestMessage(p)
        \/ \E sql \in Migrations, a \in Asked \cup {Absent} : ApplyMigration(p, sql, a)
        \/ \E r \in Rows, to \in Contents \cup {Absent}, a \in Asked : WriteApproved(p, r, to, a)
    \/ \E r \in Rows, to \in Contents \cup {Absent} : WriteFreely(r, to)
    \/ \E a \in Asked :
        \/ Expire(a)
        \/ \E who \in Approvers, verdict \in {"approve", "reject"} : Decide(who, a, verdict)

Spec == Init /\ [][Next]_vars

-----------------------------------------------------------------------------
Decided(a) == approvals[a].decision # "none"
DecidedNow(a) == ~Decided(a) /\ Decided(a)'
UsedNow(a) == ~Consumed(a) /\ Consumed(a)'

\* An approval is decided and used only for the target its requester saw: not
\* after the row was written (not even if its contents came back), the schema
\* migrated, the gate flipped, or the Delivery released by somebody else
\* (row and migration versions, gate epochs, held_at).
NeverStale == [][\A a \in Asked : DecidedNow(a) \/ UsedNow(a) => a \notin disturbed]_vars

\* While the table's gate is on, an existing row changes only to what an
\* approval in the same transaction allows; while the migration gate is on, the
\* revision grows only with one (checkRowApproval, applyMigration, and its
\* refusal to touch a gated table).
NothingUngated ==
    [][/\ \A r \in Rows : gate["row"].enabled /\ rows[r] # Absent /\ rows'[r] # rows[r] =>
            \E a \in Asked : UsedNow(a) /\ approvals[a].kind = "row"
                             /\ approvals[a].target = r /\ approvals[a].action = rows'[r]
       /\ gate["migration"].enabled /\ revision' # revision =>
            \E a \in Asked : UsedNow(a) /\ approvals[a].kind = "migration"]_vars

\* Unless the Workspace allowed self-approval when it was decided, what got
\* through a gate took two: whoever used the approval did not decide it
\* (decisionPolicy together with the requester checks at consumption).
TwoActors ==
    \A a \in Asked : Consumed(a) /\ ~approvals[a].selfAllowed =>
        approvals[a].decider # approvals[a].user

\* A delegated Principal decides only while the User who delegated to it has
\* been a member without a break since (decide joins on the membership's id, so
\* that leaving and enrolling again does not revive old grants).
GrantDies ==
    [][\A a \in Asked : DecidedNow(a) =>
        approvals'[a].decider \in Users \cup trusted]_vars

\* A gate lets a change through only with an approval of that very change.
Gated == NeverStale /\ NothingUngated
=============================================================================
