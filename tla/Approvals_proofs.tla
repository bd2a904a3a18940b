-------------------------- MODULE Approvals_proofs --------------------------
(***************************************************************************)
(* Theorems about Approvals, for any number of agents, Users, rows and     *)
(* migrations.                                                             *)
(*                                                                         *)
(* The inductive invariant says what an approval's own fields tell (Sound),*)
(* what a delegation still means (Trusting), and why a version that is     *)
(* current proves that nothing happened since the request (Fresh): the     *)
(* parts of a version only grow, but for a row's contents, and those do    *)
(* not change while the other parts stay.                                  *)
(***************************************************************************)
EXTENDS Approvals, FiniteSetTheorems, TLAPS

RowVersions == [revision : Nat, epoch : Nat, row : Contents \cup {Absent}, consumed : Nat]
Approval ==
    [kind : Kinds \cup {"message"}, target : Rows \cup Migrations \cup Nat,
     version : RowVersions \cup Nat, by : Principals,
     action : Contents \cup Migrations \cup {Absent}, epoch : Nat,
     decision : {"none", "approve", "reject"}, decider : Approvers \cup {Absent},
     selfAllowed : BOOLEAN, user : Principals \cup {Absent}, expired : BOOLEAN]
Delegation == [by : Users, membership : 1..MaxMemberships] \cup {Absent}

Typed ==
    /\ TypeOK
    /\ approvals \in Seq(Approval)
    /\ delegations \in [Principals -> Delegation]
    /\ delivery.state = "held" => delivery.id < MaxHolds

(* Only who asked uses an approval, and decides it only if that is allowed. *)
Sound(a) ==
    /\ Consumed(a) => approvals[a].user = approvals[a].by
    /\ approvals[a].decider = approvals[a].by => approvals[a].selfAllowed

(* A delegation that still matches a membership is one that is trusted. *)
Trusting ==
    /\ \A u \in Users : members[u] <= enrolled[u]
    /\ \A p \in Principals : delegations[p] # Absent =>
          delegations[p].membership <= enrolled[delegations[p].by]
    /\ \A p \in Principals : Delegated(p) => p \in trusted

(* The approvals used on a row *)
Used(r) == {a \in Asked : approvals[a].kind = "row" /\ approvals[a].target = r /\ Consumed(a)}

FreshRow(a) ==
    LET r == approvals[a].target
        v == approvals[a].version
    IN  /\ r \in Rows /\ v \in RowVersions /\ v.row # Absent
        /\ v.revision <= revision /\ v.epoch <= gate["row"].epoch
        /\ v.consumed <= Cardinality(Used(r))
        /\ v.revision = revision /\ v.epoch = gate["row"].epoch /\ v.consumed = Cardinality(Used(r))
           => gate["row"].enabled /\ rows[r] = v.row /\ a \notin disturbed
FreshMigration(a) ==
    /\ approvals[a].version \in Nat /\ approvals[a].version <= revision
    /\ approvals[a].epoch <= gate["migration"].epoch
    /\ approvals[a].version = revision /\ approvals[a].epoch = gate["migration"].epoch
       => a \notin disturbed
FreshMessage(a) ==
    /\ approvals[a].target \in Nat /\ approvals[a].target <= delivery.id
    /\ approvals[a].target = delivery.id => a \notin disturbed
Fresh(a) ==
    /\ approvals[a].kind = "row" => FreshRow(a)
    /\ approvals[a].kind = "migration" => FreshMigration(a)
    /\ approvals[a].kind = "message" => FreshMessage(a)

Inv == Typed /\ Trusting /\ \A a \in Asked : Sound(a) /\ Fresh(a)

-----------------------------------------------------------------------------
(* How many approvals were used on a row *)

LEMMA UsedFinite ==
    ASSUME approvals \in Seq(Approval), NEW r
    PROVE  IsFiniteSet(Used(r)) /\ Cardinality(Used(r)) \in Nat
<1>1. Asked = 1..Len(approvals) /\ Len(approvals) \in Nat
    BY DEF Asked
<1>2. IsFiniteSet(Asked)
    BY <1>1, FS_Interval
<1>3. Used(r) \subseteq Asked
    BY DEF Used
<1> QED BY <1>2, <1>3, FS_Subset, FS_CardinalityType

LEMMA UsedSame ==
    ASSUME approvals \in Seq(Approval), approvals' \in Seq(Approval), Asked \subseteq Asked',
           \A a \in Asked : /\ approvals'[a].kind = approvals[a].kind
                            /\ approvals'[a].target = approvals[a].target
                            /\ approvals'[a].user = approvals[a].user,
           \A a \in Asked' \ Asked : approvals'[a].user = Absent,
           NEW r
    PROVE  Used(r)' = Used(r)
BY DEF Used, Consumed, Asked

LEMMA Consuming ==
    ASSUME approvals \in Seq(Approval), NEW a \in Asked, NEW p \in Principals,
           ~Consumed(a), Consume(p, a)
    PROVE  /\ approvals' \in Seq(Approval) /\ Asked' = Asked /\ Len(approvals') = Len(approvals)
           /\ \A b \in Asked \ {a} : approvals'[b] = approvals[b]
           /\ approvals'[a] = [approvals[a] EXCEPT !.user = p]
           /\ Consumed(a)'
           /\ approvals[a].kind = "row" =>
                 Cardinality(Used(approvals[a].target)') = Cardinality(Used(approvals[a].target)) + 1
           /\ \A r : approvals[a].kind # "row" \/ r # approvals[a].target => Used(r)' = Used(r)
<1> USE ApprovalsAssumption
<1>1. approvals[a] \in Approval
    BY DEF Asked
<1> DEFINE used == [approvals[a] EXCEPT !.user = p]
<1>2. used \in Approval /\ used.user = p /\ used.kind = approvals[a].kind /\ used.target = approvals[a].target
    BY <1>1 DEF Approval
<1> HIDE DEF used
<1>3. approvals' = [approvals EXCEPT ![a] = used]
    BY DEF Consume, used
<1>4. /\ approvals' \in Seq(Approval) /\ Asked' = Asked /\ Len(approvals') = Len(approvals)
      /\ \A b \in Asked \ {a} : approvals'[b] = approvals[b]
      /\ approvals'[a] = used
    BY <1>2, <1>3 DEF Asked
<1>5. Consumed(a)'
    BY <1>2, <1>4 DEF Consumed
<1>6. ASSUME NEW r, approvals[a].kind # "row" \/ r # approvals[a].target
      PROVE  Used(r)' = Used(r)
    BY <1>2, <1>4, <1>6 DEF Used, Consumed
<1>7. ASSUME approvals[a].kind = "row"
      PROVE  Cardinality(Used(approvals[a].target)') = Cardinality(Used(approvals[a].target)) + 1
    <2> DEFINE r == approvals[a].target
    <2>1. Used(r)' = Used(r) \cup {a}
        BY <1>2, <1>4, <1>5, <1>7 DEF Used, Consumed
    <2>2. a \notin Used(r) /\ IsFiniteSet(Used(r))
        BY UsedFinite DEF Used
    <2> QED BY <2>1, <2>2, FS_AddElement
<1> QED BY <1>4, <1>5, <1>6, <1>7 DEF used

-----------------------------------------------------------------------------
(* Initial states *)

LEMMA Beginning == Init => Inv
<1> SUFFICES ASSUME Init PROVE Inv
    OBVIOUS
<1> USE ApprovalsAssumption DEF Init
<1>1. Asked = {} /\ approvals \in Seq(Approval) /\ Len(approvals) = 0
    BY DEF Asked
<1>2. TypeOK
    <2>1. \A kind \in Kinds : MaxFlips[kind] \in Nat
        BY DEF MaxFlips, Kinds
    <2>2. /\ gate \in [Kinds -> [enabled : BOOLEAN, epoch : Nat]]
          /\ \A kind \in Kinds : gate[kind].epoch <= MaxFlips[kind]
        BY <2>1
    <2>3. /\ rows \in [Rows -> Contents \cup {Absent}] /\ delivery \in [id : 0..MaxHolds, state : {"leased", "held"}]
          /\ previews \subseteq [by : Principals, revision : 0..MaxRevision, sql : Migrations]
          /\ revision \in 0..MaxRevision /\ Len(approvals) <= MaxApprovals
        BY <1>1
    <2>4. /\ allowSelf \in BOOLEAN /\ disturbed \subseteq Asked /\ trusted \subseteq Principals
          /\ \A p \in Principals : delegations[p] = Absent
        OBVIOUS
    <2>5. members \in [Users -> 0..MaxMemberships] /\ enrolled \in [Users -> 0..MaxMemberships]
        <3>1. 1 \in 0..MaxMemberships
            OBVIOUS
        <3> QED BY <3>1
    <2> QED BY <1>1, <2>2, <2>3, <2>4, <2>5 DEF TypeOK
<1>3. Typed
    <2>1. delivery.state # "held"
        OBVIOUS
    <2> QED BY <1>1, <1>2, <2>1 DEF Typed, Delegation
<1>4. Trusting
    BY DEF Trusting, Delegated
<1> QED BY <1>1, <1>3, <1>4 DEF Inv

-----------------------------------------------------------------------------
(* What is set by Users *)

LEMMA SameWork ==
    ASSUME Inv, UNCHANGED <<gate, revision, rows, delivery, approvals, disturbed>>
    PROVE  \A a \in Asked' : Sound(a)' /\ Fresh(a)'
<1>1. \A r : Used(r)' = Used(r)
    BY DEF Used, Asked, Consumed
<1> QED BY <1>1 DEF Inv, Sound, Fresh, FreshRow, FreshMigration, FreshMessage, Asked, Consumed

LEMMA People ==
    ASSUME Inv, UNCHANGED <<gate, revision, rows, previews, delivery, approvals, disturbed>>,
           allowSelf' \in BOOLEAN,
           members' \in [Users -> 0..MaxMemberships], enrolled' \in [Users -> 0..MaxMemberships],
           delegations' \in [Principals -> Delegation], trusted' \subseteq Principals, Trusting'
    PROVE  Inv'
<1>1. \A p \in Principals : delegations'[p] # Absent =>
          delegations'[p] \in [by : Users, membership : 1..MaxMemberships]
    BY DEF Delegation
<1>2. Typed'
    BY <1>1 DEF Inv, Typed, TypeOK, Asked
<1> QED BY <1>2, SameWork DEF Inv

LEMMA Settings == ASSUME Inv, NEW u \in Users, SetSettings(u) PROVE Inv'
<1> DEFINE allows == ~allowSelf
<1>1. allows \in BOOLEAN
    OBVIOUS
<1> HIDE DEF allows
<1>2. allowSelf' = allows
    BY DEF SetSettings, allows
<1>3. Trusting'
    BY DEF SetSettings, Inv, Trusting, Delegated
<1> QED BY <1>1, <1>2, <1>3, People DEF SetSettings, Inv, Typed, TypeOK

LEMMA Delegating ==
    ASSUME Inv, NEW u \in Users, NEW p \in Principals, NEW enabled \in BOOLEAN,
           SetDelegation(u, p, enabled)
    PROVE  Inv'
<1>1. members[u] \in 1..MaxMemberships /\ members[u] <= enrolled[u]
    BY ApprovalsAssumption DEF Inv, Typed, TypeOK, SetDelegation, Member, Trusting
<1> DEFINE given == IF enabled THEN [by |-> u, membership |-> members[u]] ELSE Absent
<1>2. given \in Delegation /\ (given # Absent => given.by = u /\ given.membership = members[u] /\ enabled)
    BY <1>1 DEF Delegation
<1>3. delegations' = [delegations EXCEPT ![p] = given]
    BY DEF SetDelegation
<1> HIDE DEF given
<1>4. delegations' \in [Principals -> Delegation] /\ delegations'[p] = given
      /\ \A q \in Principals \ {p} : delegations'[q] = delegations[q]
    BY <1>2, <1>3 DEF Inv, Typed
<1>5. /\ trusted' = IF enabled THEN trusted \cup {p} ELSE trusted \ {p}
      /\ UNCHANGED <<gate, revision, rows, previews, delivery, approvals,
                     allowSelf, members, enrolled, disturbed>>
    BY DEF SetDelegation
<1>6. Trusting'
    <2>1. ASSUME NEW q \in Principals, delegations'[q] # Absent
          PROVE  /\ delegations'[q].membership <= enrolled[delegations'[q].by]
                 /\ members[delegations'[q].by] = delegations'[q].membership => q \in trusted'
        <3>1. CASE q = p
            BY <1>1, <1>2, <1>4, <1>5, <2>1, <3>1
        <3>2. CASE q # p
            BY <1>4, <1>5, <2>1, <3>2 DEF Inv, Trusting, Delegated
        <3> QED BY <3>1, <3>2
    <2> QED BY <1>5, <2>1 DEF Inv, Trusting, Delegated
<1> QED BY <1>4, <1>5, <1>6, People DEF Inv, Typed, TypeOK

LEMMA Leaving == ASSUME Inv, NEW u \in Users, Leave(u) PROVE Inv'
<1>1. /\ members' = [members EXCEPT ![u] = 0]
      /\ trusted' = {p \in trusted : delegations[p].by # u}
      /\ UNCHANGED <<gate, revision, rows, previews, delivery, approvals,
                     allowSelf, enrolled, delegations, disturbed>>
    BY DEF Leave
<1>2. members' \in [Users -> 0..MaxMemberships] /\ members'[u] = 0
      /\ \A v \in Users \ {u} : members'[v] = members[v]
    BY <1>1, ApprovalsAssumption DEF Inv, Typed, TypeOK
<1>3. Trusting'
    <2>1. \A v \in Users : members'[v] <= enrolled[v]
        <3>1. \A v \in Users : members[v] <= enrolled[v] /\ enrolled[v] \in 0..MaxMemberships
            BY DEF Inv, Trusting, Typed, TypeOK
        <3> QED BY <1>2, <3>1, ApprovalsAssumption
    <2>2. ASSUME NEW p \in Principals, delegations[p] # Absent,
                 members'[delegations[p].by] = delegations[p].membership
          PROVE  p \in trusted'
        <3>1. delegations[p].by \in Users /\ delegations[p].membership \in 1..MaxMemberships
            BY <2>2 DEF Inv, Typed, TypeOK
        <3>2. delegations[p].by # u
            BY <1>2, <2>2, <3>1
        <3>3. Delegated(p)
            BY <1>2, <2>2, <3>1, <3>2 DEF Delegated
        <3> QED BY <1>1, <3>2, <3>3 DEF Inv, Trusting
    <2> QED BY <1>1, <2>1, <2>2 DEF Inv, Trusting, Delegated
<1> QED BY <1>1, <1>2, <1>3, People DEF Inv, Typed, TypeOK

LEMMA Enrolling == ASSUME Inv, NEW u \in Users, Enroll(u) PROVE Inv'
<1>1. /\ members[u] = 0 /\ enrolled[u] < MaxMemberships
      /\ enrolled' = [enrolled EXCEPT ![u] = @ + 1]
      /\ members' = [members EXCEPT ![u] = enrolled[u] + 1]
      /\ UNCHANGED <<gate, revision, rows, previews, delivery, approvals,
                     allowSelf, delegations, disturbed, trusted>>
    BY DEF Enroll, Member, Inv, Typed, TypeOK
<1>2. enrolled[u] + 1 \in 0..MaxMemberships /\ enrolled[u] \in Nat
    BY <1>1, ApprovalsAssumption DEF Inv, Typed, TypeOK
<1>3. /\ members' \in [Users -> 0..MaxMemberships] /\ enrolled' \in [Users -> 0..MaxMemberships]
      /\ members'[u] = enrolled[u] + 1 /\ enrolled'[u] = enrolled[u] + 1
      /\ \A v \in Users \ {u} : members'[v] = members[v] /\ enrolled'[v] = enrolled[v]
    BY <1>1, <1>2 DEF Inv, Typed, TypeOK
<1>4. Trusting'
    <2>1. \A v \in Users : members'[v] <= enrolled'[v]
        BY <1>2, <1>3 DEF Inv, Trusting
    <2>2. ASSUME NEW p \in Principals, delegations[p] # Absent
          PROVE  /\ delegations[p].membership <= enrolled'[delegations[p].by]
                 /\ members'[delegations[p].by] = delegations[p].membership => p \in trusted
        <3>1. /\ delegations[p].by \in Users /\ delegations[p].membership \in 1..MaxMemberships
              /\ delegations[p].membership <= enrolled[delegations[p].by]
            BY <2>2 DEF Inv, Typed, TypeOK, Trusting
        <3>2. CASE delegations[p].by = u
            BY <1>2, <1>3, <3>1, <3>2
        <3>3. CASE delegations[p].by # u
            BY <1>3, <2>2, <3>1, <3>3 DEF Inv, Trusting, Delegated
        <3> QED BY <3>2, <3>3
    <2> QED BY <1>1, <2>1, <2>2 DEF Trusting, Delegated
<1> QED BY <1>1, <1>3, <1>4, People DEF Inv, Typed, TypeOK

-----------------------------------------------------------------------------
(* Requests *)

Same(a) == approvals'[a] = approvals[a]

(* A new approval leaves the others and what was used as they are. *)
Recorded(p, kind, target, version) ==
    LET n == Len(approvals) + 1 IN
    /\ approvals' \in Seq(Approval) /\ Len(approvals') <= MaxApprovals
    /\ Asked' = Asked \cup {n} /\ n \notin Asked /\ n \notin disturbed
    /\ \A a \in Asked : Same(a)
    /\ approvals'[n].kind = kind /\ approvals'[n].target = target
    /\ approvals'[n].version = version /\ approvals'[n].by = p
    /\ approvals'[n].epoch = (IF kind = "message" THEN 0 ELSE gate[kind].epoch)
    /\ approvals'[n].decision = "none" /\ approvals'[n].decider = Absent
    /\ approvals'[n].user = Absent
    /\ \A r : Used(r)' = Used(r)

LEMMA Recording ==
    ASSUME Inv, NEW p \in Principals, NEW kind \in Kinds \cup {"message"},
           NEW target \in Rows \cup Migrations \cup Nat, NEW version \in RowVersions \cup Nat,
           NEW action \in Contents \cup Migrations \cup {Absent},
           Record(p, kind, target, version, action)
    PROVE  Recorded(p, kind, target, version)
<1> PICK n : n = Len(approvals) + 1
    OBVIOUS
<1> DEFINE epoch == IF kind = "message" THEN 0 ELSE gate[kind].epoch
           new == [kind |-> kind, target |-> target, version |-> version, by |-> p, action |-> action,
                   epoch |-> epoch,
                   decision |-> "none", decider |-> Absent, selfAllowed |-> FALSE,
                   user |-> Absent, expired |-> FALSE]
<1>1. epoch \in Nat
    BY DEF Inv, Typed, TypeOK
<1>2. approvals' = Append(approvals, new) /\ Len(approvals) < MaxApprovals
    BY DEF Record
<1> HIDE DEF epoch
<1>3. /\ new \in Approval /\ new.kind = kind /\ new.target = target /\ new.version = version
      /\ new.by = p /\ new.epoch = epoch /\ new.decision = "none" /\ new.decider = Absent
      /\ new.user = Absent
    BY <1>1 DEF Approval
<1> HIDE DEF new
<1>4. approvals \in Seq(Approval) /\ Len(approvals) \in Nat /\ Asked = 1..Len(approvals)
      /\ disturbed \subseteq Asked /\ MaxApprovals \in Nat
    BY ApprovalsAssumption DEF Inv, Typed, TypeOK, Asked
<1>5. /\ approvals' \in Seq(Approval) /\ Len(approvals') = n /\ n <= MaxApprovals
      /\ Asked' = 1..n /\ approvals'[n] = new
      /\ \A a \in Asked : approvals'[a] = approvals[a]
    BY <1>2, <1>3, <1>4 DEF Asked
<1>6. Asked' = Asked \cup {n} /\ n \notin Asked
    BY <1>4, <1>5
<1>7. \A r : Used(r)' = Used(r)
    BY <1>3, <1>4, <1>5, <1>6, UsedSame
<1> QED BY <1>3, <1>4, <1>5, <1>6, <1>7 DEF Same, epoch, Recorded

(* What an approval says of itself and of its target stays true while      *)
(* neither changes.                                                        *)
LEMMA Keeping ==
    ASSUME NEW a \in Asked, Sound(a), Fresh(a), Same(a),
           UNCHANGED <<gate, revision, rows>>, delivery'.id = delivery.id,
           a \in disturbed' => a \in disturbed,
           \A r : Used(r)' = Used(r)
    PROVE  Sound(a)' /\ Fresh(a)'
BY DEF Same, Sound, Consumed, Fresh, FreshRow, FreshMigration, FreshMessage

LEMMA Requested ==
    ASSUME Inv, NEW p \in Principals, NEW kind \in Kinds \cup {"message"},
           NEW target \in Rows \cup Migrations \cup Nat, NEW version \in RowVersions \cup Nat,
           NEW action \in Contents \cup Migrations \cup {Absent},
           Record(p, kind, target, version, action),
           UNCHANGED <<gate, revision, rows, previews, people, disturbed>>,
           delivery'.id = delivery.id, delivery' \in [id : 0..MaxHolds, state : {"leased", "held"}],
           delivery'.state = "held" => delivery'.id < MaxHolds,
           NEW n, n = Len(approvals) + 1, Fresh(n)'
    PROVE  Inv'
<1>1. /\ approvals' \in Seq(Approval) /\ Len(approvals') <= MaxApprovals
      /\ Asked' = Asked \cup {n} /\ n \notin Asked /\ n \notin disturbed
      /\ \A a \in Asked : Same(a)
      /\ approvals'[n].by = p /\ approvals'[n].decider = Absent /\ approvals'[n].user = Absent
      /\ \A r : Used(r)' = Used(r)
    BY Recording DEF Recorded
<1>2. ASSUME NEW a \in Asked PROVE Sound(a)' /\ Fresh(a)'
    <2>1. Sound(a) /\ Fresh(a)
        BY DEF Inv
    <2> QED BY <1>1, <2>1, Keeping
<1>3. Sound(n)'
    BY <1>1, ApprovalsAssumption DEF Sound, Consumed
<1>4. Trusting'
    BY DEF Inv, Trusting, Delegated, people
<1>5. ASSUME NEW a \in Asked' PROVE approvals'[a] \in Approval /\ (approvals'[a].user # Absent => approvals'[a].decision = "approve")
    <2>1. approvals' \in Seq(Approval) /\ a \in DOMAIN approvals'
        BY <1>1, <1>5 DEF Asked
    <2>2. approvals'[a] \in Approval
        BY <2>1
    <2> QED BY <1>1, <1>5, <2>2 DEF Inv, Typed, TypeOK, Same
<1>6. Typed'
    <2>1. TypeOK'
        BY <1>1, <1>5 DEF Inv, Typed, TypeOK, people, Approval
    <2> QED BY <1>1, <2>1 DEF Inv, Typed, people
<1> QED BY <1>1, <1>2, <1>3, <1>4, <1>6 DEF Inv

LEMMA RequestingRow ==
    ASSUME Inv, NEW p \in Principals, NEW r \in Rows, NEW to \in Contents \cup {Absent},
           RequestRow(p, r, to)
    PROVE  Inv'
<1> PICK n : n = Len(approvals) + 1
    OBVIOUS
<1> DEFINE version == RowVersion(r)
<1>1. /\ gate["row"].enabled /\ rows[r] # Absent /\ Record(p, "row", r, version, to)
      /\ UNCHANGED <<gate, revision, rows, previews, delivery, people, disturbed>>
    BY DEF RequestRow
<1>2. /\ version = [revision |-> revision, epoch |-> gate["row"].epoch, row |-> rows[r],
                    consumed |-> Cardinality(Used(r))]
      /\ revision \in Nat /\ gate["row"].epoch \in Nat /\ rows[r] \in Contents \cup {Absent}
      /\ Cardinality(Used(r)) \in Nat
    <2>1. version = [revision |-> revision, epoch |-> gate["row"].epoch, row |-> rows[r],
                     consumed |-> Cardinality(Used(r))]
        BY DEF RowVersion, Used
    <2>2. approvals \in Seq(Approval) /\ MaxRevision \in Nat
        BY ApprovalsAssumption DEF Inv, Typed
    <2>3. revision \in Nat /\ gate["row"].epoch \in Nat /\ rows[r] \in Contents \cup {Absent}
        BY <2>2 DEF Inv, Typed, TypeOK, Kinds
    <2> QED BY <2>1, <2>2, <2>3, UsedFinite
<1> HIDE DEF version
<1>3. /\ version \in RowVersions /\ version.revision = revision /\ version.epoch = gate["row"].epoch
      /\ version.row = rows[r] /\ version.consumed = Cardinality(Used(r))
    BY <1>2 DEF RowVersions
<1>4. /\ approvals'[n].kind = "row" /\ approvals'[n].target = r /\ approvals'[n].version = version
      /\ n \notin disturbed /\ Used(r)' = Used(r)
    BY <1>1, <1>3, Recording DEF Kinds, Recorded
<1>5. Fresh(n)'
    BY <1>1, <1>2, <1>3, <1>4 DEF Fresh, FreshRow
<1> QED BY <1>1, <1>3, <1>5, Requested DEF Kinds, Inv, Typed, TypeOK

LEMMA RequestingMigration ==
    ASSUME Inv, NEW p \in Principals, NEW sql \in Migrations, RequestMigration(p, sql)
    PROVE  Inv'
<1> PICK n : n = Len(approvals) + 1
    OBVIOUS
<1>1. /\ Record(p, "migration", sql, revision, sql)
      /\ UNCHANGED <<gate, revision, rows, previews, delivery, people, disturbed>>
    BY DEF RequestMigration
<1>2. revision \in Nat /\ gate["migration"].epoch \in Nat
    BY ApprovalsAssumption DEF Inv, Typed, TypeOK, Kinds
<1>3. /\ approvals'[n].kind = "migration" /\ approvals'[n].version = revision
      /\ approvals'[n].epoch = gate["migration"].epoch /\ n \notin disturbed
    BY <1>1, <1>2, Recording DEF Kinds, Recorded
<1>4. Fresh(n)'
    BY <1>1, <1>2, <1>3 DEF Fresh, FreshMigration
<1> QED BY <1>1, <1>2, <1>4, Requested DEF Kinds, Inv, Typed, TypeOK

LEMMA RequestingMessage ==
    ASSUME Inv, NEW p \in Principals, RequestMessage(p)
    PROVE  Inv'
<1> PICK n : n = Len(approvals) + 1
    OBVIOUS
<1>1. /\ Record(p, "message", delivery.id, delivery.id, Absent) /\ delivery.id < MaxHolds
      /\ delivery' = [delivery EXCEPT !.state = "held"]
      /\ UNCHANGED <<gate, revision, rows, previews, people, disturbed>>
    BY DEF RequestMessage
<1>2. /\ delivery.id \in Nat /\ delivery'.id = delivery.id
      /\ delivery' \in [id : 0..MaxHolds, state : {"leased", "held"}]
    <2>1. delivery \in [id : 0..MaxHolds, state : {"leased", "held"}] /\ MaxHolds \in Nat
        BY ApprovalsAssumption DEF Inv, Typed, TypeOK
    <2> QED BY <1>1, <2>1
<1>3. /\ approvals'[n].kind = "message" /\ approvals'[n].target = delivery.id /\ n \notin disturbed
    BY <1>1, <1>2, Recording DEF Kinds, Recorded
<1>4. Fresh(n)'
    BY <1>1, <1>2, <1>3 DEF Fresh, FreshMessage
<1> QED BY <1>1, <1>2, <1>4, Requested

-----------------------------------------------------------------------------
(* Decisions and work                                                      *)

World ==
    /\ gate \in [Kinds -> [enabled : BOOLEAN, epoch : Nat]]
    /\ \A kind \in Kinds : gate[kind].epoch <= MaxFlips[kind]
    /\ revision \in 0..MaxRevision
    /\ rows \in [Rows -> Contents \cup {Absent}]
    /\ previews \subseteq [by : Principals, revision : 0..MaxRevision, sql : Migrations]
    /\ delivery \in [id : 0..MaxHolds, state : {"leased", "held"}]
    /\ delivery.state = "held" => delivery.id < MaxHolds
    /\ disturbed \subseteq Asked
Earned(a) == approvals[a].user # Absent => approvals[a].decision = "approve"
Alike(a) ==
    /\ approvals'[a].kind = approvals[a].kind
    /\ approvals'[a].target = approvals[a].target
    /\ approvals'[a].version = approvals[a].version
    /\ approvals'[a].epoch = approvals[a].epoch

(* What Inv says of the world and of an approval *)
LEMMA Known ==
    ASSUME Inv
    PROVE  /\ World /\ approvals \in Seq(Approval)
           /\ \A a \in Asked : approvals[a] \in Approval /\ Earned(a) /\ Sound(a) /\ Fresh(a)
           /\ \A r : Cardinality(Used(r)) \in Nat
<1>1. approvals \in Seq(Approval) /\ \A a \in Asked : approvals[a] \in Approval
    BY DEF Inv, Typed, Asked
<1> QED BY <1>1, UsedFinite DEF Inv, Typed, TypeOK, World, Earned

LEMMA Working ==
    ASSUME Inv, UNCHANGED people, World', approvals' \in Seq(Approval),
           Asked' = Asked, Len(approvals') = Len(approvals),
           \A a \in Asked : Earned(a)' /\ Sound(a)' /\ Fresh(a)'
    PROVE  Inv'
<1>1. Trusting'
    BY DEF Inv, Trusting, Delegated, people
<1>2. \A a \in Asked' : approvals'[a] \in Approval
    BY DEF Asked
<1>3. TypeOK'
    BY <1>2 DEF Inv, Typed, TypeOK, World, Earned, people, Approval
<1>4. Typed'
    BY <1>3 DEF Typed, World, Inv, people
<1> QED BY <1>1, <1>4 DEF Inv

LEMMA KeepingFresh ==
    ASSUME NEW a \in Asked, Fresh(a), Alike(a), UNCHANGED <<gate, revision, rows>>,
           delivery'.id = delivery.id, a \in disturbed' => a \in disturbed,
           \A r : Used(r)' = Used(r)
    PROVE  Fresh(a)'
BY DEF Alike, Fresh, FreshRow, FreshMigration, FreshMessage

LEMMA Still ==
    ASSUME UNCHANGED approvals
    PROVE  /\ Asked' = Asked /\ \A r : Used(r)' = Used(r)
           /\ \A a \in Asked : Alike(a) /\ (Sound(a) => Sound(a)') /\ (Earned(a) => Earned(a)')
BY DEF Used, Asked, Consumed, Alike, Sound, Earned

LEMMA Previewing ==
    ASSUME Inv, NEW p \in Principals, NEW sql \in Migrations, Preview(p, sql)
    PROVE  Inv'
<1>1. /\ previews' = previews \cup {[by |-> p, revision |-> revision, sql |-> sql]}
      /\ UNCHANGED <<gate, revision, rows, delivery, approvals, people, disturbed>>
    BY DEF Preview
<1>2. World'
    BY <1>1, Known DEF World, Asked
<1>3. \A a \in Asked : Earned(a)' /\ Sound(a)' /\ Fresh(a)'
    BY <1>1, Known, Still, KeepingFresh
<1> QED BY <1>1, <1>2, <1>3, Known, Still, Working

LEMMA Holding == ASSUME Inv, Hold PROVE Inv'
<1>1. /\ delivery' = [delivery EXCEPT !.state = "held"] /\ delivery.id < MaxHolds
      /\ UNCHANGED <<gate, revision, rows, previews, approvals, people, disturbed>>
    BY DEF Hold
<1>2. delivery'.id = delivery.id /\ delivery' \in [id : 0..MaxHolds, state : {"leased", "held"}]
    BY <1>1, Known DEF World
<1>3. World'
    BY <1>1, <1>2, Known DEF World, Asked
<1>4. \A a \in Asked : Earned(a)' /\ Sound(a)' /\ Fresh(a)'
    BY <1>1, <1>2, Known, Still, KeepingFresh
<1> QED BY <1>1, <1>3, <1>4, Known, Still, Working

(* A flip ends every version and epoch that was current. *)
LEMMA Flipping ==
    ASSUME Inv, NEW u \in Users, NEW kind \in Kinds, SetGate(u, kind)
    PROVE  Inv'
<1>1. /\ gate[kind].epoch < MaxFlips[kind]
      /\ gate' = [gate EXCEPT ![kind] = [enabled |-> ~@.enabled, epoch |-> @.epoch + 1]]
      /\ disturbed' = disturbed \cup {a \in Asked : approvals[a].kind = kind}
      /\ UNCHANGED <<revision, rows, previews, delivery, approvals, people>>
    BY DEF SetGate, Disturb
<1> DEFINE flipped == [enabled |-> ~gate[kind].enabled, epoch |-> gate[kind].epoch + 1]
<1>2. gate[kind] \in [enabled : BOOLEAN, epoch : Nat] /\ gate \in [Kinds -> [enabled : BOOLEAN, epoch : Nat]]
    BY Known DEF World
<1>3. gate' = [gate EXCEPT ![kind] = flipped]
    BY <1>1, <1>2
<1>4. flipped \in [enabled : BOOLEAN, epoch : Nat] /\ flipped.epoch = gate[kind].epoch + 1
    BY <1>2
<1> HIDE DEF flipped
<1>5. /\ gate' \in [Kinds -> [enabled : BOOLEAN, epoch : Nat]]
      /\ gate'[kind].epoch = gate[kind].epoch + 1
      /\ \A k \in Kinds \ {kind} : gate'[k] = gate[k]
    BY <1>2, <1>3, <1>4
<1>6. \A k \in Kinds : gate'[k].epoch <= MaxFlips[k]
    <2>1. MaxFlips[kind] \in Nat
        BY ApprovalsAssumption DEF MaxFlips, Kinds
    <2> QED BY <1>1, <1>2, <1>5, <2>1, Known DEF World
<1>7. World'
    BY <1>1, <1>5, <1>6, Known DEF World, Asked, MaxFlips
<1>8. ASSUME NEW a \in Asked PROVE Fresh(a)'
    <2>1. /\ approvals[a] \in Approval /\ Fresh(a) /\ Alike(a) /\ \A r : Used(r)' = Used(r)
          /\ approvals' = approvals
        BY <1>1, Known, Still
    <2>2. ASSUME approvals[a].kind = "row" PROVE FreshRow(a)'
        <3>1. FreshRow(a)
            BY <2>1, <2>2 DEF Fresh
        <3>2. CASE kind = "row"
            BY <1>1, <1>2, <1>5, <2>1, <3>1, <3>2 DEF FreshRow, RowVersions
        <3>3. CASE kind # "row"
            <4>1. gate'["row"] = gate["row"] /\ (a \in disturbed' => a \in disturbed)
                BY <1>1, <1>5, <2>2, <3>3 DEF Kinds
            <4> QED BY <1>1, <2>1, <3>1, <4>1 DEF FreshRow
        <3> QED BY <3>2, <3>3
    <2>3. ASSUME approvals[a].kind = "migration" PROVE FreshMigration(a)'
        <3>1. FreshMigration(a) /\ approvals[a].epoch \in Nat
            BY <2>1, <2>3 DEF Fresh, Approval
        <3>2. CASE kind = "migration"
            BY <1>1, <1>2, <1>5, <2>1, <3>1, <3>2 DEF FreshMigration
        <3>3. CASE kind # "migration"
            <4>1. gate'["migration"] = gate["migration"] /\ (a \in disturbed' => a \in disturbed)
                BY <1>1, <1>5, <2>3, <3>3 DEF Kinds
            <4> QED BY <1>1, <2>1, <3>1, <4>1 DEF FreshMigration
        <3> QED BY <3>2, <3>3
    <2>4. ASSUME approvals[a].kind = "message" PROVE FreshMessage(a)'
        <3>1. FreshMessage(a) /\ (a \in disturbed' => a \in disturbed)
            BY <1>1, <2>1, <2>4 DEF Fresh, Kinds
        <3> QED BY <1>1, <3>1 DEF FreshMessage
    <2> QED BY <2>1, <2>2, <2>3, <2>4 DEF Fresh
<1>9. \A a \in Asked : Earned(a)' /\ Sound(a)'
    BY <1>1, Known, Still
<1> QED BY <1>1, <1>7, <1>8, <1>9, Known, Still, Working

(* The Delivery that follows is none that an approval names. *)
LEMMA Redispatching ==
    ASSUME Inv, Redispatch
    PROVE  /\ delivery' \in [id : 0..MaxHolds, state : {"leased", "held"}]
           /\ delivery'.state = "leased" /\ delivery'.id = delivery.id + 1 /\ delivery.id \in Nat
<1>1. delivery \in [id : 0..MaxHolds, state : {"leased", "held"}] /\ MaxHolds \in Nat
      /\ (delivery.state = "held" => delivery.id < MaxHolds)
    BY Known, ApprovalsAssumption DEF World
<1>2. delivery' = [id |-> delivery.id + 1, state |-> "leased"] /\ delivery.state = "held"
    BY DEF Redispatch
<1>3. delivery.id \in 0..MaxHolds /\ delivery.id < MaxHolds
    BY <1>1, <1>2
<1>4. delivery.id + 1 \in 0..MaxHolds /\ delivery.id \in Nat
    BY <1>1, <1>3
<1> QED BY <1>2, <1>4

LEMMA Dispatched ==
    ASSUME Inv, NEW a \in Asked, Alike(a), \A r : Used(r)' = Used(r),
           UNCHANGED <<gate, revision, rows>>, Redispatch, Disturb(About("message", {delivery.id}))
    PROVE  Fresh(a)'
<1>1. Fresh(a) /\ approvals[a] \in Approval
    BY Known
<1>2. delivery'.id = delivery.id + 1 /\ delivery.id \in Nat
    BY Redispatching
<1>3. approvals[a].kind # "message" /\ a \in disturbed' => a \in disturbed
    BY DEF Disturb, About
<1>4. approvals[a].kind = "row" => FreshRow(a)'
    BY <1>1, <1>3 DEF Fresh, FreshRow, Alike
<1>5. approvals[a].kind = "migration" => FreshMigration(a)'
    BY <1>1, <1>3 DEF Fresh, FreshMigration, Alike
<1>6. approvals[a].kind = "message" => FreshMessage(a)'
    BY <1>1, <1>2 DEF Fresh, FreshMessage, Alike
<1> QED BY <1>4, <1>5, <1>6 DEF Fresh, Alike

LEMMA Releasing == ASSUME Inv, NEW u \in Users, Release(u) PROVE Inv'
<1>1. /\ Redispatch /\ Disturb(About("message", {delivery.id}))
      /\ UNCHANGED <<gate, revision, rows, previews, approvals, people>>
    BY DEF Release
<1>2. World'
    BY <1>1, Known, Redispatching DEF World, Asked, Disturb, About
<1>3. \A a \in Asked : Earned(a)' /\ Sound(a)' /\ Fresh(a)'
    BY <1>1, Known, Still, Dispatched
<1> QED BY <1>1, <1>2, <1>3, Known, Still, Working

(* A write to a row that a current version names meets the gate. *)
LEMMA Writing ==
    ASSUME Inv, NEW r \in Rows, NEW to \in Contents \cup {Absent}, WriteFreely(r, to)
    PROVE  Inv'
<1>1. /\ rows[r] = Absent \/ ~gate["row"].enabled
      /\ rows' = [rows EXCEPT ![r] = to]
      /\ disturbed' = disturbed \cup About("row", {r})
      /\ UNCHANGED <<gate, revision, previews, delivery, approvals, people>>
    BY DEF WriteFreely, Disturb
<1>2. World'
    BY <1>1, Known DEF World, Asked, About
<1>3. \A q \in Rows \ {r} : rows'[q] = rows[q]
    BY <1>1, Known DEF World
<1>4. ASSUME NEW a \in Asked PROVE Fresh(a)'
    <2>1. Fresh(a) /\ \A q : Used(q)' = Used(q)
        BY <1>1, Known, Still
    <2>2. ASSUME approvals[a].kind = "row" PROVE FreshRow(a)'
        <3>1. FreshRow(a)
            BY <2>1, <2>2 DEF Fresh
        <3>2. CASE approvals[a].target = r
            BY <1>1, <2>1, <3>1, <3>2 DEF FreshRow
        <3>3. CASE approvals[a].target # r
            <4>1. a \in disturbed' => a \in disturbed
                BY <1>1, <3>3 DEF About
            <4>2. approvals[a].target \in Rows => rows'[approvals[a].target] = rows[approvals[a].target]
                BY <1>3, <3>3
            <4> QED BY <1>1, <2>1, <3>1, <4>1, <4>2 DEF FreshRow
        <3> QED BY <3>2, <3>3
    <2>3. approvals[a].kind # "row" /\ a \in disturbed' => a \in disturbed
        BY <1>1 DEF About
    <2> QED BY <1>1, <2>1, <2>2, <2>3 DEF Fresh, FreshMigration, FreshMessage
<1>5. \A a \in Asked : Earned(a)' /\ Sound(a)'
    BY <1>1, Known, Still
<1> QED BY <1>1, <1>2, <1>4, <1>5, Known, Still, Working

LEMMA Expiring == ASSUME Inv, NEW a \in Asked, Expire(a) PROVE Inv'
<1> DEFINE late == [approvals[a] EXCEPT !.expired = TRUE]
<1>1. /\ approvals' = [approvals EXCEPT ![a] = late]
      /\ UNCHANGED <<gate, revision, rows, previews, delivery, people, disturbed>>
    BY DEF Expire
<1>2. approvals[a] \in Approval /\ approvals \in Seq(Approval)
    BY Known
<1>3. /\ late \in Approval /\ late.kind = approvals[a].kind /\ late.target = approvals[a].target
      /\ late.version = approvals[a].version /\ late.epoch = approvals[a].epoch
      /\ late.by = approvals[a].by /\ late.user = approvals[a].user
      /\ late.decision = approvals[a].decision /\ late.decider = approvals[a].decider
      /\ late.selfAllowed = approvals[a].selfAllowed
    BY <1>2 DEF Approval
<1> HIDE DEF late
<1>4. /\ approvals' \in Seq(Approval) /\ Asked' = Asked /\ Len(approvals') = Len(approvals)
      /\ approvals'[a] = late /\ \A b \in Asked \ {a} : approvals'[b] = approvals[b]
    BY <1>1, <1>2, <1>3 DEF Asked
<1>5. \A r : Used(r)' = Used(r)
    BY <1>2, <1>3, <1>4, UsedSame
<1>6. World'
    BY <1>1, <1>4, Known DEF World
<1>7. \A b \in Asked : Alike(b) /\ Earned(b)' /\ Sound(b)'
    BY <1>3, <1>4, Known DEF Alike, Earned, Sound, Consumed
<1>8. \A b \in Asked : Fresh(b)'
    BY <1>1, <1>5, <1>7, Known, KeepingFresh
<1> QED BY <1>1, <1>4, <1>6, <1>7, <1>8, Working

LEMMA Deciding ==
    ASSUME Inv, NEW a \in Asked, NEW who \in Approvers, NEW verdict \in {"approve", "reject"},
           Decide(who, a, verdict)
    PROVE  Inv'
<1> DEFINE decided == [approvals[a] EXCEPT !.decision = verdict, !.decider = who, !.selfAllowed = allowSelf]
<1>1. /\ approvals' = [approvals EXCEPT ![a] = decided]
      /\ approvals[a].decision = "none"
      /\ who = approvals[a].by => allowSelf
      /\ UNCHANGED <<gate, revision, rows, previews, people>>
    BY DEF Decide, DecisionPolicy
<1>2. \/ Redispatch /\ Disturb(About("message", {delivery.id}))
      \/ UNCHANGED <<delivery, disturbed>>
    BY DEF Decide
<1>3. approvals[a] \in Approval /\ approvals \in Seq(Approval) /\ allowSelf \in BOOLEAN
      /\ Earned(a)
    BY Known DEF Inv, Typed, TypeOK
<1>4. /\ decided \in Approval /\ decided.kind = approvals[a].kind /\ decided.target = approvals[a].target
      /\ decided.version = approvals[a].version /\ decided.epoch = approvals[a].epoch
      /\ decided.by = approvals[a].by /\ decided.user = approvals[a].user
      /\ decided.decider = who /\ decided.selfAllowed = allowSelf
    BY <1>3 DEF Approval
<1>5. approvals[a].user = Absent
    BY <1>1, <1>3 DEF Earned
<1> HIDE DEF decided
<1>6. /\ approvals' \in Seq(Approval) /\ Asked' = Asked /\ Len(approvals') = Len(approvals)
      /\ approvals'[a] = decided /\ \A b \in Asked \ {a} : approvals'[b] = approvals[b]
    BY <1>1, <1>3, <1>4 DEF Asked
<1>7. \A r : Used(r)' = Used(r)
    BY <1>3, <1>4, <1>6, UsedSame
<1>8. World'
    <2>1. CASE UNCHANGED <<delivery, disturbed>>
        BY <1>1, <1>6, <2>1, Known DEF World
    <2>2. CASE Redispatch /\ Disturb(About("message", {delivery.id}))
        BY <1>1, <1>6, <2>2, Known, Redispatching DEF World, Disturb, About
    <2> QED BY <1>2, <2>1, <2>2
<1>9. \A b \in Asked : Alike(b) /\ Earned(b)' /\ Sound(b)'
    <2>1. Alike(a) /\ Earned(a)' /\ Sound(a)'
        BY <1>1, <1>4, <1>5, <1>6 DEF Alike, Earned, Sound, Consumed
    <2>2. \A b \in Asked \ {a} : Alike(b) /\ Earned(b)' /\ Sound(b)'
        BY <1>6, Known DEF Alike, Earned, Sound, Consumed
    <2> QED BY <2>1, <2>2
<1>10. \A b \in Asked : Fresh(b)'
    <2>1. CASE UNCHANGED <<delivery, disturbed>>
        BY <1>1, <1>7, <1>9, <2>1, Known, KeepingFresh
    <2>2. CASE Redispatch /\ Disturb(About("message", {delivery.id}))
        BY <1>1, <1>7, <1>9, <2>2, Dispatched
    <2> QED BY <1>2, <2>1, <2>2
<1> QED BY <1>1, <1>6, <1>8, <1>9, <1>10, Working

(* Using an approval is a mark on the versions of its row. *)
LEMMA Using ==
    ASSUME Inv, NEW a \in Asked, NEW p \in Principals, ~Consumed(a), Consume(p, a),
           approvals[a].by = p, approvals[a].decision = "approve"
    PROVE  \A b \in Asked : Alike(b) /\ Earned(b)' /\ Sound(b)'
<1>1. approvals \in Seq(Approval) /\ approvals[a] \in Approval
    BY Known
<1>2. /\ \A b \in Asked \ {a} : approvals'[b] = approvals[b]
      /\ approvals'[a] = [approvals[a] EXCEPT !.user = p]
    BY <1>1, Consuming
<1>3. Alike(a) /\ Earned(a)' /\ Sound(a)'
    <2>1. Sound(a)
        BY Known
    <2>2. /\ approvals'[a].kind = approvals[a].kind /\ approvals'[a].target = approvals[a].target
          /\ approvals'[a].version = approvals[a].version /\ approvals'[a].epoch = approvals[a].epoch
          /\ approvals'[a].by = p /\ approvals'[a].user = p /\ approvals'[a].decision = "approve"
          /\ approvals'[a].decider = approvals[a].decider
          /\ approvals'[a].selfAllowed = approvals[a].selfAllowed
        BY <1>1, <1>2 DEF Approval
    <2> QED BY <2>1, <2>2 DEF Alike, Earned, Sound, Consumed
<1>4. \A b \in Asked \ {a} : Alike(b) /\ Earned(b)' /\ Sound(b)'
    BY <1>2, Known DEF Alike, Earned, Sound, Consumed
<1> QED BY <1>3, <1>4

LEMMA WritingApproved ==
    ASSUME Inv, NEW p \in Principals, NEW r \in Rows, NEW to \in Contents \cup {Absent},
           NEW a \in Asked, WriteApproved(p, r, to, a)
    PROVE  Inv'
<1>1. /\ CheckRowApproval(p, r, to, a) /\ Consume(p, a)
      /\ rows' = [rows EXCEPT ![r] = to]
      /\ disturbed' = disturbed \cup About("row", {r})
      /\ UNCHANGED <<gate, revision, previews, delivery, people>>
    BY DEF WriteApproved, Disturb
<1>2. /\ approvals[a].kind = "row" /\ approvals[a].target = r /\ ~Consumed(a)
      /\ approvals[a].by = p /\ approvals[a].decision = "approve"
    BY <1>1 DEF CheckRowApproval
<1>3. /\ approvals' \in Seq(Approval) /\ Asked' = Asked /\ Len(approvals') = Len(approvals)
      /\ Cardinality(Used(r)') = Cardinality(Used(r)) + 1
      /\ \A q : q # r => Used(q)' = Used(q)
    <2>1. approvals \in Seq(Approval) /\ approvals[a] \in Approval
        BY Known
    <2>2. /\ approvals' \in Seq(Approval) /\ Asked' = Asked /\ Len(approvals') = Len(approvals)
          /\ approvals'[a] = [approvals[a] EXCEPT !.user = p]
          /\ Cardinality(Used(approvals[a].target)') = Cardinality(Used(approvals[a].target)) + 1
          /\ \A q : q # approvals[a].target => Used(q)' = Used(q)
        BY <1>1, <1>2, <2>1, Consuming
    <2>3. approvals'[a].target = r
        BY <1>2, <2>1, <2>2 DEF Approval
    <2> QED BY <1>2, <2>2, <2>3
<1>4. \A b \in Asked : Alike(b) /\ Earned(b)' /\ Sound(b)'
    BY <1>1, <1>2, Using
<1>5. World'
    BY <1>1, <1>3, Known DEF World, About
<1>6. \A q \in Rows \ {r} : rows'[q] = rows[q]
    BY <1>1, Known DEF World
<1>7. ASSUME NEW b \in Asked PROVE Fresh(b)'
    <2>1. Fresh(b) /\ Alike(b)
        BY <1>4, Known
    <2>2. ASSUME approvals[b].kind = "row" PROVE FreshRow(b)'
        <3>1. FreshRow(b)
            BY <2>1, <2>2 DEF Fresh
        <3>2. CASE approvals[b].target = r
            <4>1. Cardinality(Used(r)) \in Nat
                BY Known
            <4> QED BY <1>1, <1>3, <2>1, <3>1, <3>2, <4>1 DEF FreshRow, RowVersions, Alike
        <3>3. CASE approvals[b].target # r
            <4>1. b \in disturbed' => b \in disturbed
                BY <1>1, <3>3 DEF About
            <4>2. /\ approvals[b].target \in Rows => rows'[approvals[b].target] = rows[approvals[b].target]
                  /\ Used(approvals[b].target)' = Used(approvals[b].target)
                BY <1>3, <1>6, <2>1, <3>3 DEF Alike
            <4> QED BY <1>1, <2>1, <3>1, <4>1, <4>2 DEF FreshRow, Alike
        <3> QED BY <3>2, <3>3
    <2>3. approvals[b].kind # "row" /\ b \in disturbed' => b \in disturbed
        BY <1>1 DEF About
    <2> QED BY <1>1, <2>1, <2>2, <2>3 DEF Fresh, FreshMigration, FreshMessage, Alike
<1> QED BY <1>1, <1>3, <1>4, <1>5, <1>7, Working

LEMMA Applying ==
    ASSUME Inv, NEW p \in Principals, NEW sql \in Migrations, NEW a \in Asked \cup {Absent},
           ApplyMigration(p, sql, a)
    PROVE  Inv'
<1>1. /\ revision < MaxRevision /\ revision' = revision + 1
      /\ rows' = IF sql \in Touching THEN [r \in Rows |-> Absent] ELSE rows
      /\ disturbed' = disturbed \cup About("migration", Migrations) \cup About("row", Rows)
      /\ UNCHANGED <<gate, previews, delivery, people>>
    BY DEF ApplyMigration, Disturb
<1>2. /\ approvals' \in Seq(Approval) /\ Asked' = Asked /\ Len(approvals') = Len(approvals)
      /\ \A r : Used(r)' = Used(r)
      /\ \A b \in Asked : Alike(b) /\ Earned(b)' /\ Sound(b)'
    <2>1. CASE a = Absent
        <3>1. UNCHANGED approvals
            BY <2>1 DEF ApplyMigration
        <3> QED BY <3>1, Known, Still
    <2>2. CASE a # Absent
        <3>1. /\ a \in Asked /\ approvals[a].kind = "migration" /\ ~Consumed(a) /\ Consume(p, a)
              /\ approvals[a].by = p /\ approvals[a].decision = "approve"
            BY <2>2 DEF ApplyMigration, MigrationConsumptionPolicy
        <3>2. approvals \in Seq(Approval)
            BY Known
        <3>3. /\ approvals' \in Seq(Approval) /\ Asked' = Asked /\ Len(approvals') = Len(approvals)
              /\ \A r : Used(r)' = Used(r)
            BY <3>1, <3>2, Consuming
        <3> QED BY <3>1, <3>3, Using
    <2> QED BY <2>1, <2>2
<1>3. revision \in Nat /\ MaxRevision \in Nat /\ revision + 1 \in 0..MaxRevision
    BY <1>1, Known, ApprovalsAssumption DEF World
<1>4. World'
    <2>1. rows' \in [Rows -> Contents \cup {Absent}]
        BY <1>1, Known DEF World
    <2> QED BY <1>1, <1>2, <1>3, <2>1, Known DEF World, About
<1>5. ASSUME NEW b \in Asked PROVE Fresh(b)'
    <2>1. Fresh(b) /\ Alike(b)
        BY <1>2, Known
    <2>2. approvals[b].kind = "row" => FreshRow(b)'
        BY <1>1, <1>2, <1>3, <2>1 DEF Fresh, FreshRow, RowVersions, Alike
    <2>3. approvals[b].kind = "migration" => FreshMigration(b)'
        BY <1>1, <1>3, <2>1 DEF Fresh, FreshMigration, Alike
    <2>4. approvals[b].kind = "message" => FreshMessage(b)'
        BY <1>1, <2>1 DEF Fresh, FreshMessage, Alike, About
    <2> QED BY <2>1, <2>2, <2>3, <2>4 DEF Fresh, Alike
<1> QED BY <1>1, <1>2, <1>4, <1>5, Working

-----------------------------------------------------------------------------
(* Every step keeps the invariant                                          *)

LEMMA Stepping == Inv /\ [Next]_vars => Inv'
<1> SUFFICES ASSUME Inv, [Next]_vars PROVE Inv'
    OBVIOUS
<1>1. CASE UNCHANGED vars
    <2>1. approvals' = approvals /\ UNCHANGED <<people, disturbed, delivery, gate, revision, rows, previews>>
        BY <1>1 DEF vars, people
    <2>2. World'
        BY <2>1, Known DEF World, Asked
    <2>3. \A a \in Asked : Earned(a)' /\ Sound(a)' /\ Fresh(a)'
        BY <2>1, Known, Still, KeepingFresh
    <2> QED BY <2>1, <2>2, <2>3, Known, Still, Working
<1>2. ASSUME NEW u \in Users,
             \/ \E kind \in Kinds : SetGate(u, kind)
             \/ SetSettings(u)
             \/ \E p \in Principals, enabled \in BOOLEAN : SetDelegation(u, p, enabled)
             \/ Leave(u)
             \/ Enroll(u)
             \/ Release(u)
      PROVE  Inv'
    BY <1>2, Flipping, Settings, Delegating, Leaving, Enrolling, Releasing
<1>3. ASSUME NEW p \in Principals,
             \/ \E r \in Rows, to \in Contents \cup {Absent} : RequestRow(p, r, to)
             \/ \E sql \in Migrations : Preview(p, sql) \/ RequestMigration(p, sql)
             \/ RequestMessage(p)
             \/ \E sql \in Migrations, a \in Asked \cup {Absent} : ApplyMigration(p, sql, a)
             \/ \E r \in Rows, to \in Contents \cup {Absent}, a \in Asked : WriteApproved(p, r, to, a)
      PROVE  Inv'
    BY <1>3, RequestingRow, Previewing, RequestingMigration, RequestingMessage, Applying, WritingApproved
<1>4. ASSUME NEW a \in Asked,
             \/ Expire(a)
             \/ \E who \in Approvers, verdict \in {"approve", "reject"} : Decide(who, a, verdict)
      PROVE  Inv'
    BY <1>4, Expiring, Deciding
<1>5. ASSUME NEW r \in Rows, NEW to \in Contents \cup {Absent}, WriteFreely(r, to) PROVE Inv'
    BY <1>5, Writing
<1>6. CASE Hold
    BY <1>6, Holding
<1> QED BY <1>1, <1>2, <1>3, <1>4, <1>5, <1>6 DEF Next

LEMMA Always == Spec => []Inv
BY Beginning, Stepping, PTL DEF Spec

-----------------------------------------------------------------------------
(* What a step may do                                                      *)

Stays(a) ==
    /\ approvals'[a].decision = approvals[a].decision
    /\ approvals'[a].user = approvals[a].user

LEMMA Asking ==
    ASSUME Inv, NEW p, NEW kind, NEW target, NEW version, NEW action,
           Record(p, kind, target, version, action), NEW a \in Asked
    PROVE  Stays(a)
BY Known DEF Record, Stays, Asked

(* Only five operations decide an approval, use one, write a row or migrate. *)
LEMMA Doing ==
    ASSUME Inv, Next
    PROVE  \/ (\A a \in Asked : Stays(a)) /\ UNCHANGED <<rows, revision>>
           \/ \E r \in Rows, to \in Contents \cup {Absent} : WriteFreely(r, to)
           \/ \E p \in Principals, r \in Rows, to \in Contents \cup {Absent}, a \in Asked :
                 WriteApproved(p, r, to, a)
           \/ \E p \in Principals, sql \in Migrations, a \in Asked \cup {Absent} :
                 ApplyMigration(p, sql, a)
           \/ \E a \in Asked, who \in Approvers, verdict \in {"approve", "reject"} :
                 Decide(who, a, verdict)
<1>1. ASSUME UNCHANGED <<approvals, rows, revision>>
      PROVE  (\A a \in Asked : Stays(a)) /\ UNCHANGED <<rows, revision>>
    BY <1>1 DEF Stays
<1>2. ASSUME NEW u \in Users,
             \/ \E kind \in Kinds : SetGate(u, kind)
             \/ SetSettings(u)
             \/ \E p \in Principals, enabled \in BOOLEAN : SetDelegation(u, p, enabled)
             \/ Leave(u)
             \/ Enroll(u)
             \/ Release(u)
      PROVE  UNCHANGED <<approvals, rows, revision>>
    BY <1>2 DEF SetGate, SetSettings, SetDelegation, Leave, Enroll, Release
<1>3. ASSUME NEW p \in Principals, NEW sql \in Migrations, Preview(p, sql)
      PROVE  UNCHANGED <<approvals, rows, revision>>
    BY <1>3 DEF Preview
<1>4. Hold => UNCHANGED <<approvals, rows, revision>>
    BY DEF Hold
<1>5. ASSUME NEW p \in Principals,
             \/ \E r \in Rows, to \in Contents \cup {Absent} : RequestRow(p, r, to)
             \/ \E sql \in Migrations : RequestMigration(p, sql)
             \/ RequestMessage(p)
      PROVE  (\A a \in Asked : Stays(a)) /\ UNCHANGED <<rows, revision>>
    <2>1. UNCHANGED <<rows, revision>>
        BY <1>5 DEF RequestRow, RequestMigration, RequestMessage
    <2>2. \E kind, target, version, action : Record(p, kind, target, version, action)
        BY <1>5 DEF RequestRow, RequestMigration, RequestMessage
    <2> QED BY <2>1, <2>2, Asking
<1>6. ASSUME NEW a \in Asked, Expire(a)
      PROVE  (\A b \in Asked : Stays(b)) /\ UNCHANGED <<rows, revision>>
    <2>1. approvals \in Seq(Approval) /\ approvals[a] \in Approval
        BY Known
    <2>2. approvals' = [approvals EXCEPT ![a] = [approvals[a] EXCEPT !.expired = TRUE]]
        BY <1>6 DEF Expire
    <2>3. \A b \in Asked : Stays(b)
        BY <2>1, <2>2 DEF Stays, Asked, Approval
    <2> QED BY <1>6, <2>3 DEF Expire
<1> QED BY <1>1, <1>2, <1>3, <1>4, <1>5, <1>6 DEF Next

(* A version that is current is proof that nothing happened since.         *)
LEMMA Current ==
    ASSUME Inv, NEW a \in Asked,
           \/ Unchanged(a)
           \/ \E p \in Principals, r \in Rows, to \in Contents \cup {Absent} : CheckRowApproval(p, r, to, a)
           \/ \E p \in Principals, sql \in Migrations : MigrationConsumptionPolicy(p, sql, a)
    PROVE  a \notin disturbed
<1>1. Fresh(a)
    BY Known
<1>2. ASSUME approvals[a].kind = "row", RowVersion(approvals[a].target) = approvals[a].version
      PROVE  a \notin disturbed
    <2>1. FreshRow(a)
        BY <1>1, <1>2 DEF Fresh
    <2>2. RowVersion(approvals[a].target) =
            [revision |-> revision, epoch |-> gate["row"].epoch, row |-> rows[approvals[a].target],
             consumed |-> Cardinality(Used(approvals[a].target))]
        BY DEF RowVersion, Used
    <2> QED BY <1>2, <2>1, <2>2 DEF FreshRow
<1>3. ASSUME approvals[a].kind = "migration", approvals[a].version = revision,
             gate["migration"] = [enabled |-> TRUE, epoch |-> approvals[a].epoch]
      PROVE  a \notin disturbed
    BY <1>1, <1>3 DEF Fresh, FreshMigration
<1>4. ASSUME approvals[a].kind = "message", delivery = [id |-> approvals[a].target, state |-> "held"]
      PROVE  a \notin disturbed
    BY <1>1, <1>4 DEF Fresh, FreshMessage
<1> QED BY <1>2, <1>3, <1>4 DEF Unchanged, CheckRowApproval, MigrationConsumptionPolicy

LEMMA NoneStale ==
    ASSUME Inv, [Next]_vars, NEW a \in Asked, DecidedNow(a) \/ UsedNow(a)
    PROVE  a \notin disturbed
<1>1. ~Stays(a)
    BY DEF DecidedNow, Decided, UsedNow, Consumed, Stays
<1>2. approvals' # approvals
    BY <1>1 DEF Stays
<1>3. approvals \in Seq(Approval) /\ approvals[a] \in Approval
    BY Known
<1>4. ASSUME NEW r \in Rows, NEW to \in Contents \cup {Absent}, WriteFreely(r, to)
      PROVE  FALSE
    BY <1>2, <1>4 DEF WriteFreely
<1>5. ASSUME NEW p \in Principals, NEW b \in Asked, Consume(p, b), a # b
      PROVE  FALSE
    BY <1>1, <1>3, <1>5 DEF Consume, Stays, Asked
<1>6. ASSUME NEW p \in Principals, NEW r \in Rows, NEW to \in Contents \cup {Absent},
             NEW b \in Asked, WriteApproved(p, r, to, b)
      PROVE  a \notin disturbed
    <2>1. a = b /\ CheckRowApproval(p, r, to, b)
        BY <1>5, <1>6 DEF WriteApproved
    <2> QED BY <2>1, Current
<1>7. ASSUME NEW p \in Principals, NEW sql \in Migrations, NEW b \in Asked \cup {Absent},
             ApplyMigration(p, sql, b)
      PROVE  a \notin disturbed
    <2>1. b # Absent
        BY <1>2, <1>7 DEF ApplyMigration
    <2>2. a = b /\ MigrationConsumptionPolicy(p, sql, b)
        BY <1>5, <1>7, <2>1 DEF ApplyMigration
    <2> QED BY <2>2, Current
<1>8. ASSUME NEW b \in Asked, NEW who \in Approvers, NEW verdict \in {"approve", "reject"},
             Decide(who, b, verdict)
      PROVE  a \notin disturbed
    <2>1. a = b
        BY <1>1, <1>3, <1>8 DEF Decide, Stays, Asked
    <2>2. Unchanged(a)
        BY <1>8, <2>1 DEF Decide, DecisionPolicy
    <2> QED BY <2>2, Current
<1> QED BY <1>1, <1>2, <1>4, <1>6, <1>7, <1>8, Doing DEF vars

LEMMA RowsGated ==
    ASSUME Inv, [Next]_vars, NEW r \in Rows, gate["row"].enabled, rows[r] # Absent, rows'[r] # rows[r]
    PROVE  \E a \in Asked : UsedNow(a) /\ approvals[a].kind = "row"
                            /\ approvals[a].target = r /\ approvals[a].action = rows'[r]
<1>1. rows' # rows /\ rows \in [Rows -> Contents \cup {Absent}]
    BY Known DEF World
<1>2. ASSUME NEW q \in Rows, NEW to \in Contents \cup {Absent}, WriteFreely(q, to)
      PROVE  FALSE
    BY <1>1, <1>2 DEF WriteFreely
<1>3. ASSUME NEW p \in Principals, NEW q \in Rows, NEW to \in Contents \cup {Absent},
             NEW a \in Asked, WriteApproved(p, q, to, a)
      PROVE  UsedNow(a) /\ approvals[a].kind = "row" /\ approvals[a].target = r
             /\ approvals[a].action = rows'[r]
    <2>1. /\ CheckRowApproval(p, q, to, a) /\ Consume(p, a) /\ rows' = [rows EXCEPT ![q] = to]
        BY <1>3 DEF WriteApproved
    <2>2. q = r /\ rows'[r] = to
        BY <1>1, <2>1
    <2>3. ~Consumed(a) /\ approvals[a].kind = "row" /\ approvals[a].target = q /\ approvals[a].action = to
        BY <2>1 DEF CheckRowApproval
    <2>4. Consumed(a)'
        BY <2>1, <2>3, Known, Consuming
    <2> QED BY <2>2, <2>3, <2>4 DEF UsedNow
<1>4. ASSUME NEW p \in Principals, NEW sql \in Migrations, NEW b \in Asked \cup {Absent},
             ApplyMigration(p, sql, b)
      PROVE  FALSE
    BY <1>1, <1>4 DEF ApplyMigration, GateConflict
<1>5. ASSUME NEW b \in Asked, NEW who \in Approvers, NEW verdict \in {"approve", "reject"},
             Decide(who, b, verdict)
      PROVE  FALSE
    BY <1>1, <1>5 DEF Decide
<1> QED BY <1>1, <1>2, <1>3, <1>4, <1>5, Doing DEF vars

LEMMA SchemaGated ==
    ASSUME Inv, [Next]_vars, gate["migration"].enabled, revision' # revision
    PROVE  \E a \in Asked : UsedNow(a) /\ approvals[a].kind = "migration"
<1>1. PICK p \in Principals, sql \in Migrations, a \in Asked \cup {Absent} : ApplyMigration(p, sql, a)
    BY Doing DEF vars, WriteFreely, WriteApproved, Decide
<1>2. /\ a \in Asked /\ Consume(p, a) /\ ~Consumed(a) /\ approvals[a].kind = "migration"
    BY <1>1 DEF ApplyMigration, MigrationConsumptionPolicy
<1>3. Consumed(a)'
    BY <1>2, Known, Consuming
<1> QED BY <1>2, <1>3 DEF UsedNow

LEMMA GrantLives ==
    ASSUME Inv, [Next]_vars, NEW a \in Asked, DecidedNow(a)
    PROVE  approvals'[a].decider \in Users \cup trusted
<1>1. ~Decided(a) /\ Decided(a)'
    BY DEF DecidedNow
<1>2. ~Stays(a) /\ approvals' # approvals
    BY <1>1 DEF Stays, Decided
<1>3. approvals \in Seq(Approval) /\ approvals[a] \in Approval
    BY Known
<1>4. ASSUME NEW p \in Principals, NEW b \in Asked, Consume(p, b)
      PROVE  FALSE
    <2>1. approvals' = [approvals EXCEPT ![b] = [approvals[b] EXCEPT !.user = p]]
        BY <1>4 DEF Consume
    <2>2. approvals'[a].decision = approvals[a].decision
        BY <1>3, <2>1 DEF Asked, Approval
    <2> QED BY <1>1, <2>2 DEF Decided
<1>5. PICK b \in Asked, who \in Approvers, verdict \in {"approve", "reject"} : Decide(who, b, verdict)
    <2>1. \A r \in Rows, to \in Contents \cup {Absent} : ~WriteFreely(r, to)
        BY <1>2 DEF WriteFreely
    <2>2. \A p \in Principals, r \in Rows, to \in Contents \cup {Absent}, b \in Asked : ~WriteApproved(p, r, to, b)
        BY <1>4 DEF WriteApproved
    <2>3. \A p \in Principals, sql \in Migrations, b \in Asked \cup {Absent} : ~ApplyMigration(p, sql, b)
        BY <1>2, <1>4 DEF ApplyMigration
    <2> QED BY <1>2, <2>1, <2>2, <2>3, Doing DEF vars
<1>6. a = b
    BY <1>2, <1>3, <1>5 DEF Decide, Stays, Asked
<1>7. approvals'[a].decider = who /\ MayDecide(who)
    BY <1>3, <1>5, <1>6 DEF Decide, Asked, Approval
<1>8. who \notin Users => who \in trusted
    BY <1>7 DEF MayDecide, Approvers, Inv, Trusting
<1> QED BY <1>7, <1>8

-----------------------------------------------------------------------------
(* Theorems                                                                *)

\* Every state of Approvals has the types it declares, and an approval that
\* was used had been approved.
THEOREM TypeCorrect == Spec => []TypeOK
<1>1. Inv => TypeOK
    BY DEF Inv, Typed
<1> QED BY <1>1, Always, PTL

\* What got through a gate took two, unless self-approval was allowed when it
\* was decided (decisionPolicy, and the requester checks of checkRowApproval
\* and migrationConsumptionPolicy).
THEOREM TakesTwo == Spec => []TwoActors
<1>1. Inv => TwoActors
    BY DEF Inv, Sound, TwoActors
<1> QED BY <1>1, Always, PTL

\* A delegated Principal decides only while its grantor has been a member
\* without a break (decide joins a delegation with the membership's id).
THEOREM GrantsDie == Spec => GrantDies
<1>1. Inv /\ [Next]_vars => [\A a \in Asked : DecidedNow(a) =>
                                approvals'[a].decider \in Users \cup trusted]_vars
    BY GrantLives
<1> QED BY <1>1, Always, PTL DEF Spec, GrantDies

\* No approval is decided or used after its target or its gate changed, and
\* nothing behind a gate that is on changes without one (checkRowApproval,
\* migrationConsumptionPolicy and the row versions of lock_approval_row).
THEOREM GatesHold == Spec => Gated
<1>1. Inv /\ [Next]_vars => [\A a \in Asked : DecidedNow(a) \/ UsedNow(a) => a \notin disturbed]_vars
    BY NoneStale
<1>2. Inv /\ [Next]_vars =>
        [/\ \A r \in Rows : gate["row"].enabled /\ rows[r] # Absent /\ rows'[r] # rows[r] =>
                \E a \in Asked : UsedNow(a) /\ approvals[a].kind = "row"
                                 /\ approvals[a].target = r /\ approvals[a].action = rows'[r]
         /\ gate["migration"].enabled /\ revision' # revision =>
                \E a \in Asked : UsedNow(a) /\ approvals[a].kind = "migration"]_vars
    BY RowsGated, SchemaGated
<1> QED BY <1>1, <1>2, Always, PTL DEF Spec, Gated, NeverStale, NothingUngated
=============================================================================
