------------------------------ MODULE MCApprovals ------------------------------
\* Instance of Approvals for TLC.  Every bound at its full size at once is out of
\* reach, so Focus cuts the behaviours where they mix three subjects.
EXTENDS Approvals

CONSTANTS p1, x

\* Only p1 acts, and nobody is delegated.
Alone ==
    /\ delegations = [p \in Principals |-> Absent]
    /\ \A v \in previews : v.by = p1
    /\ \A a \in Asked : /\ approvals[a].by = p1
                        /\ approvals[a].user \in {p1, Absent}
                        /\ approvals[a].decider \in Users \cup {p1, Absent}
PlainRows ==
    /\ gate["row"].epoch <= 1 /\ \A r \in Rows : rows[r] \in {x, Absent}
    /\ \A a \in Asked : approvals[a].kind = "row" => approvals[a].action \in {x, Absent}
NoSchema == gate["migration"].epoch = 0 /\ revision = 0 /\ previews = {}
NoHolds == delivery = [id |-> 0, state |-> "leased"]
Settled == enrolled = [u \in Users |-> 1]

\* A row that is changed and changed back while its gate is flipped; a Message
\* held again and again; migrations and both gates; two agents and a User who
\* leaves and enrolls again.
Focus ==
    \/ Alone /\ NoSchema /\ NoHolds /\ Settled
    \/ Alone /\ NoSchema /\ gate["row"].epoch = 0 /\ PlainRows /\ Settled
    \/ Alone /\ PlainRows /\ NoHolds /\ Settled /\ About("row", Rows) = {}
    \/ Alone /\ PlainRows /\ NoHolds /\ Settled /\ gate["migration"].epoch = 0
    \/ PlainRows /\ NoSchema /\ NoHolds

MCNext == Next /\ Focus'
MCSpec == Init /\ [][MCNext]_vars
=============================================================================
