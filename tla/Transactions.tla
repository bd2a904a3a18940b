---------------------------- MODULE Transactions ----------------------------
(***************************************************************************)
(* Metered and keyed writes of the Principals of one Workspace: the atomic *)
(* transaction, which runs statements, sends, acks and holds together under*)
(* an idempotency key (tx/execute-transaction.ts), the statement and the   *)
(* send on their own (sql/execute-sql.ts, queue/send-message.ts), and the  *)
(* quotas they draw on (platform/quotas.ts).                               *)
(*                                                                         *)
(* Each request is one database transaction that holds the cursor lock of  *)
(* the Workspace from its binding to its COMMIT (module RunContext), so    *)
(* there is one transaction at a time, with a draft of the database; the   *)
(* clock, leases and other requests go on meanwhile.  The rejection that   *)
(* follows a failure is RunContext's.  sql_statement_bytes, which like     *)
(* transaction_operations is known beforehand, is left out, and so are the *)
(* payload of a Message (a key sent again with another one is refused),    *)
(* approvals (module Approvals) and restores, which take a receipt back    *)
(* together with what it stands for.                                       *)
(***************************************************************************)
EXTENDS Integers, Sequences, FiniteSets

CONSTANTS
  Principals,
  Clients,      \* requests that may be under way at once
  Keys, NoKey,  \* idempotency keys; statements and sends alone have none
  Bodies,       \* what may be asked for
  Plan,         \* of each body, the operations; see Operations
  Keyed,        \* the bodies that are atomic transactions
  Objects,      \* rows, Messages and Deliveries
  Limits,       \* quota settings: functions from Resources to numbers
  Nobody,       \* no client
  MaxMinute,    \* bound
  MaxAccepted   \* bound: committed requests

Resources == {"transaction_operations", "sql_rows", "queue_sends"}
Verbs == {"sql", "send", "ack", "hold"}
(* expect: the counts of rows that the request puts up with *)
Operations == [verb : Verbs, on : Objects, expect : SUBSET {0, 1}]

ASSUME TransactionsAssumption ==
  /\ Plan \in [Bodies -> Seq(Operations)] /\ Keyed \subseteq Bodies
  /\ \A b \in Bodies \ Keyed : Len(Plan[b]) = 1 /\ Plan[b][1].verb \in {"sql", "send"}
  /\ Limits \subseteq [Resources -> Nat] /\ Limits # {} /\ NoKey \notin Keys /\ Nobody \notin Clients
  /\ MaxMinute \in Nat /\ MaxAccepted \in Nat

VARIABLES
  minute,    \* of the database's clock
  expired,   \* Deliveries whose lease has run out
  db,        \* the committed database
  tx,        \* the transaction that holds the cursor lock
  asked,     \* what each client has asked for and was not told yet
  accepted,  \* ghost: the requests that committed, in order
  told,      \* ghost: the successes that clients were told of
  spent      \* ghost: what the accepted requests of each Principal used in each minute

vars == <<minute, expired, db, tx, asked, accepted, told, spent>>
ghosts == <<accepted, told, spent>>

-----------------------------------------------------------------------------
(* done: the effects, <<verb, object>>; receipts: <<Principal, key, body,  *)
(* answer>>, where the answer is the position of the committed request;    *)
(* usage: of each Principal and resource, a window and what was used in it.*)
Empty == [done |-> {}, receipts |-> {}, limits |-> CHOOSE l \in Limits : TRUE,
          usage |-> [p \in Principals |-> [r \in Resources |-> [window |-> 0, used |-> 0]]]]
Nothing == [r \in Resources |-> 0]
NoTx == [of |-> Nobody]
Silent == [step |-> "idle"]

Ask(c, p, b, k) ==
  /\ asked[c] = Silent /\ Len(accepted) < MaxAccepted
  /\ (b \in Keyed) = (k # NoKey)
  /\ asked' = [asked EXCEPT ![c] = [step |-> "asked", by |-> p, body |-> b, key |-> k, at |-> minute]]
  /\ UNCHANGED <<minute, expired, db, tx, ghosts>>

-----------------------------------------------------------------------------
(* platform/quotas.ts *)

(* Mutant: the window is that of the request's arrival. *)
WindowAsked(c) == asked[c].at
(* The clock is read behind the lock. *)
Window(c) == minute
Used(p, r, window) == IF db.usage[p][r].window = window THEN db.usage[p][r].used ELSE 0

(* fitsQuota, and a cost of zero is not looked at *)
Fits(t, r) == t.costs[r] = 0 \/ t.costs[r] <= t.limits[r] - Used(asked[t.of].by, r, t.window)

Upserted(row, window, cost) ==
  [window |-> window, used |-> cost + IF row.window = window THEN row.used ELSE 0]
Charged(usage, t) ==
  LET p == asked[t.of].by
  IN  [usage EXCEPT ![p] = [r \in Resources |->
         IF t.costs[r] = 0 THEN @[r] ELSE Upserted(@[r], t.window, t.costs[r])]]

-----------------------------------------------------------------------------
(* tx/execute-transaction.ts *)

Matches(receipt, c) == receipt[3] = asked[c].body
Receipts(c) == {r \in db.receipts : r[1] = asked[c].by /\ r[2] = asked[c].key}

(* Mutant: what was done stays when the transaction ends without a COMMIT. *)
RollbackHalf(c) == db' = IF tx.of = c THEN [db EXCEPT !.done = tx.draft.done] ELSE db
Rollback(c) == UNCHANGED db
Refuse(c) ==
  /\ asked' = [asked EXCEPT ![c] = Silent]
  /\ tx' = IF tx.of = c THEN NoTx ELSE tx
  /\ Rollback(c)
  /\ UNCHANGED <<minute, expired, ghosts>>

Opened(c) ==
  [of |-> c, draft |-> db, next |-> 1, window |-> Window(c), limits |-> db.limits,
   costs |-> [Nothing EXCEPT !["transaction_operations"] =
                IF asked[c].body \in Keyed THEN Len(Plan[asked[c].body]) ELSE 0]]

Waits(c) == tx = NoTx /\ asked[c] # Silent

(* A key that is known answers with its first result, or not at all. *)
Replay(c, answered) ==
  /\ Waits(c) /\ asked[c].key # NoKey
  /\ \E r \in Receipts(c) :
       /\ Matches(r, c) /\ answered
       /\ told' = told \cup {<<asked[c].by, asked[c].key, asked[c].body, r[4]>>}
  /\ asked' = [asked EXCEPT ![c] = Silent]
  /\ UNCHANGED <<minute, expired, db, tx, accepted, spent>>
Conflict(c) == Waits(c) /\ (\E r \in Receipts(c) : ~Matches(r, c)) /\ Refuse(c)

Open(c) ==
  /\ Waits(c) /\ Receipts(c) = {}
  /\ IF Fits(Opened(c), "transaction_operations")
     THEN tx' = Opened(c) /\ UNCHANGED <<minute, expired, db, asked, ghosts>>
     ELSE Refuse(c)

Runs(c) == tx.of = c /\ tx.next <= Len(Plan[asked[c].body])
Operation(c) == Plan[asked[c].body][tx.next]

(* What an operation of each verb needs, and how many rows or Messages it  *)
(* makes: a statement or a send that finds its object there makes none.    *)
Fenced(op) == op.on \notin expired /\ \A verb \in {"ack", "hold"} : <<verb, op.on>> \notin tx.draft.done
Count(op) == IF <<op.verb, op.on>> \in tx.draft.done THEN 0 ELSE 1
Allowed(op) ==
  CASE op.verb \in {"ack", "hold"} -> Fenced(op)
    [] op.verb = "sql" -> Count(op) \in op.expect
    [] OTHER -> TRUE
Cost(op) ==
  CASE op.verb = "sql" -> [Nothing EXCEPT !["sql_rows"] = Count(op)]
    [] op.verb = "send" -> [Nothing EXCEPT !["queue_sends"] = Count(op)]
    [] OTHER -> Nothing

Advanced(op) ==
  [tx EXCEPT !.next = @ + 1, !.draft.done = @ \cup {<<op.verb, op.on>>},
             !.costs = [r \in Resources |-> @[r] + Cost(op)[r]]]
Operate(c) ==
  /\ Runs(c)
  /\ LET op == Operation(c)
     IN  IF Allowed(op) /\ \A r \in Resources : Cost(op)[r] > 0 => Fits(Advanced(op), r)
         THEN tx' = Advanced(op) /\ UNCHANGED <<minute, expired, db, asked, ghosts>>
         ELSE Refuse(c)

(* Mutant: the receipt is written after the transaction, and is not. *)
ReceiptLost(c) == {}
Receipt(c) == IF asked[c].key = NoKey THEN {}
              ELSE {<<asked[c].by, asked[c].key, asked[c].body, Len(accepted) + 1>>}

Spends(c) == [r \in Resources |-> spent[asked[c].by][tx.window][r] + tx.costs[r]]

(* quota.commit, the event, the receipt, COMMIT and its answer; without    *)
(* the answer the client is told that the transaction is unavailable.      *)
Commit(c, answered) ==
  /\ tx.of = c /\ ~Runs(c) /\ Len(accepted) < MaxAccepted
  /\ db' = [tx.draft EXCEPT !.receipts = @ \cup Receipt(c), !.usage = Charged(@, tx)]
  /\ accepted' = Append(accepted, [by |-> asked[c].by, key |-> asked[c].key, body |-> asked[c].body,
                                   costs |-> tx.costs, limits |-> tx.limits, spent |-> Spends(c)])
  /\ spent' = [spent EXCEPT ![asked[c].by][tx.window] = Spends(c)]
  /\ told' = IF answered /\ asked[c].key # NoKey
             THEN told \cup {<<asked[c].by, asked[c].key, asked[c].body, Len(accepted) + 1>>} ELSE told
  /\ asked' = [asked EXCEPT ![c] = Silent]
  /\ tx' = NoTx
  /\ UNCHANGED <<minute, expired>>

(* A timeout, of the wait for the lock too, a lost connection, a server    *)
(* that dies                                                               *)
Fail(c) == asked[c] # Silent /\ Refuse(c)

-----------------------------------------------------------------------------
SetQuotas(limits) ==
  /\ tx = NoTx /\ limits # db.limits
  /\ db' = [db EXCEPT !.limits = limits]
  /\ UNCHANGED <<minute, expired, tx, asked, ghosts>>

Tick ==
  /\ minute < MaxMinute /\ minute' = minute + 1
  /\ UNCHANGED <<expired, db, tx, asked, ghosts>>

Expire(d) ==
  /\ d \notin expired /\ expired' = expired \cup {d}
  /\ UNCHANGED <<minute, db, tx, asked, ghosts>>

Effects(b) == {<<Plan[b][i].verb, Plan[b][i].on>> : i \in DOMAIN Plan[b]}
Leased == {e[2] : e \in {f \in UNION {Effects(b) : b \in Bodies} : f[1] \in {"ack", "hold"}}}

Init ==
  /\ minute = 0 /\ expired = {} /\ db = Empty /\ tx = NoTx
  /\ asked = [c \in Clients |-> Silent] /\ accepted = <<>> /\ told = {}
  /\ spent = [p \in Principals |-> [m \in 0 .. MaxMinute |-> Nothing]]

Next ==
  \/ \E c \in Clients :
       \/ \E p \in Principals, b \in Bodies, k \in Keys \cup {NoKey} : Ask(c, p, b, k)
       \/ Conflict(c) \/ Open(c) \/ Operate(c) \/ Fail(c)
       \/ \E answered \in BOOLEAN : Replay(c, answered) \/ Commit(c, answered)
  \/ \E limits \in Limits : SetQuotas(limits)
  \/ Tick
  \/ \E d \in Leased : Expire(d)
Spec == Init /\ [][Next]_vars

-----------------------------------------------------------------------------
(* Properties *)

Positions == 1 .. MaxAccepted
Draft == [done : SUBSET (Verbs \X Objects),
          receipts : SUBSET (Principals \X Keys \X Keyed \X Positions), limits : Limits,
          usage : [Principals -> [Resources -> [window : 0 .. MaxMinute, used : Nat]]]]

TypeOK ==
  /\ minute \in 0 .. MaxMinute /\ expired \subseteq Leased /\ db \in Draft
  /\ tx.of \in Clients \cup {Nobody}
  /\ tx # NoTx => /\ tx.draft \in Draft /\ tx.window \in 0 .. minute /\ tx.limits = db.limits
                  /\ tx.costs \in [Resources -> Nat] /\ asked[tx.of] # Silent
                  /\ tx.next \in 1 .. Len(Plan[asked[tx.of].body]) + 1
  /\ \A c \in Clients : asked[c] # Silent =>
       asked[c] \in [step : {"asked"}, by : Principals, body : Bodies,
                     key : Keys \cup {NoKey}, at : 0 .. minute]
  /\ Len(accepted) <= MaxAccepted
  /\ spent \in [Principals -> [0 .. MaxMinute -> [Resources -> Nat]]]
  /\ told \subseteq Principals \X Keys \X Keyed \X Positions

(* A transaction is carried out once for each key of a Principal, however  *)
(* often and under however many connections it is repeated, and however    *)
(* its first answer got lost; and whoever is told of a success is told the *)
(* result of the transaction carried out for that very request.            *)
OnceEach ==
  /\ \A i, j \in DOMAIN accepted :
       accepted[i].key # NoKey /\ accepted[i].key = accepted[j].key
       /\ accepted[i].by = accepted[j].by => i = j
  /\ \A a \in told :
       /\ a[4] \in DOMAIN accepted
       /\ <<a[1], a[2], a[3]>> = <<accepted[a[4]].by, accepted[a[4]].key, accepted[a[4]].body>>

(* What is in the database is what the accepted requests do, whole: an     *)
(* assertion, a stale receipt or a quota that fails late undoes what the   *)
(* same transaction did before (execute-transaction.ts:1).                 *)
AllOrNothing == db.done = UNION {Effects(accepted[i].body) : i \in DOMAIN accepted}

(* What the accepted requests of a Principal used in one minute is within  *)
(* the limit that stood when the last of them was accepted.                *)
WithinLimit ==
  \A i \in DOMAIN accepted, r \in Resources :
    accepted[i].costs[r] > 0 => accepted[i].spent[r] <= accepted[i].limits[r]

(* What is charged is what was done, and neither goes beyond the request.  *)
Accounted == AllOrNothing /\ WithinLimit
=============================================================================
