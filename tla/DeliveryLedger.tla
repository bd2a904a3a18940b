--------------------------- MODULE DeliveryLedger ---------------------------
(***************************************************************************)
(* The Delivery ledger of one queue of one Workspace: the PL/pgSQL verbs   *)
(* of schema "queue" over the tables queue.messages, queue.deliveries,     *)
(* queue.effects and control.reconciliations, and over the two PGMQ tables *)
(* q_<queue> (dispatch) and a_<queue> (archive).                           *)
(*                                                                         *)
(* Every verb is one transaction that holds the Workspace's audit.cursor   *)
(* row from bind_context to COMMIT (see RunContext), so a verb is one      *)
(* action; a verb that raises changes nothing and is a disabled action.    *)
(*                                                                         *)
(* Time.  The code compares stored timestamps with clock_timestamp().  A   *)
(* timestamp t is modelled by t - now: positive while it lies ahead.  Tick *)
(* lets every timer elapse; a timer stops at Floor, below which no verb    *)
(* tells two values apart (the only arithmetic on a past timestamp adds    *)
(* RetryDelay).  Never stands for SQL NULL.                                *)
(***************************************************************************)
EXTENDS Integers, Sequences, FiniteSets

CONSTANTS
  Messages,      \* idempotency keys, one per logical message
  Legacy,        \* the messages stored before queue.deliveries existed, by msg_id
  Payloads,      \* payload hashes a sender may present
  Runs,          \* the consumers and producers: (principal, run) pairs
  Principals,
  PrincipalOf,   \* [Runs -> Principals]
  Revocable,     \* the principals a User revokes in this instance
  EffectKeys,    \* queue.effect_key(workspace, action, destination)
  LeaseTime,     \* '30 seconds'
  RetryDelay,    \* '5 seconds'
  Retentions,    \* the values of control.retention_settings
  MaxAttempts,   \* deliveries.max_attempts
  Batch,         \* LIMIT 32 of claim's sweeps and scan
  PurgeBudget,   \* the budget of one purge
  MaxChains,     \* bound: dispatch chains of one message
  MaxRestores,   \* bound: restores of the database
  NoRun, NoKey, NoPayload

ASSUME TimeAssumption ==
  /\ LeaseTime \in Nat \ {0}
  /\ RetryDelay \in Nat \ {0}
  /\ Retentions \subseteq Nat \ {0}
ASSUME BoundAssumption ==
  /\ MaxAttempts \in Nat \ {0}
  /\ Batch \in Nat \ {0}
  /\ PurgeBudget \in Nat \ {0}
  /\ MaxChains \in Nat \ {0}
  /\ MaxRestores \in Nat
ASSUME ActorAssumption ==
  /\ PrincipalOf \in [Runs -> Principals]
  /\ Revocable \subseteq Principals
  /\ Legacy \in Seq(Messages)
  /\ \A i, j \in DOMAIN Legacy : Legacy[i] = Legacy[j] => i = j
  /\ NoRun \notin Runs
  /\ NoKey \notin EffectKeys
  /\ NoPayload \notin Payloads

VARIABLES
  messages,      \* queue.messages: original PGMQ id, payload hash, expiry
  deliveries,    \* queue.deliveries: the rows of each message, oldest first
  copies,        \* pgmq.q_ and pgmq.a_ by msg_id
  effects,       \* queue.effects
  reconciled,    \* control.reconciliations: outcomes recorded per row
  status,        \* control.principals.status
  gate,          \* control.restore_gate.active
  restores       \* how often the database was restored

vars == <<messages, deliveries, copies, effects, reconciled, status, gate, restores>>

-----------------------------------------------------------------------------
(* Timers *)

Floor == -RetryDelay
Never == Floor - 1
Elapsed(t, bottom) == IF t > bottom THEN t - 1 ELSE t
Due(t) == t <= 0

-----------------------------------------------------------------------------
(* Rows *)

States == {"scheduled", "ready", "leased", "begun", "held", "ambiguous",
           "effect-paused", "succeeded", "dead-lettered", "cancelled"}
Live == {"leased", "begun"}
Dispatchable == {"ready", "scheduled", "leased", "begun"}
Uncertain == {"ambiguous", "effect-paused"}
Outcomes == {"applied", "not_applied", "unknown"}

(* A receipt is named by the row it was issued for and the claim of that   *)
(* row that issued it; 0 is NULL.  "reported" keeps the receipt under which *)
(* a consumer's ack, nack or hold ended the row.                           *)
Row == [pid: Nat, chain: Nat, attempt: 1 .. MaxAttempts, current: BOOLEAN,
        state: States, receipt: Nat, claims: Nat, reported: Nat,
        consumer: Runs \cup {NoRun}, lease: Never .. LeaseTime,
        next: Never .. RetryDelay, completed: BOOLEAN, effect: BOOLEAN]

NewRow(p, c, a) ==
  [pid |-> p, chain |-> c, attempt |-> a, current |-> TRUE, state |-> "ready",
   receipt |-> 0, claims |-> 0, reported |-> 0, consumer |-> NoRun,
   lease |-> Never, next |-> Never, completed |-> FALSE, effect |-> FALSE]

(* A row that leaves Live gives up its receipt.  The columns consumer and  *)
(* lease_expires_at are read only in Live states, so they are forgotten.   *)
Closed(row, s) ==
  [row EXCEPT !.state = s, !.receipt = 0, !.consumer = NoRun, !.lease = Never,
              !.next = Never, !.completed = TRUE]

(* Mutants of settle: one attempt too many, and effects retried blindly.   *)
SettleLate(row, verb) ==
  LET s == IF verb = "ack" THEN "succeeded"
           ELSE IF row.effect THEN "ambiguous"
           ELSE IF row.attempt > MaxAttempts THEN "dead-lettered" ELSE "scheduled"
  IN  [Closed(row, s) EXCEPT !.next = IF s = "scheduled" THEN RetryDelay ELSE Never]
SettleBlind(row, verb) ==
  LET s == IF verb = "ack" THEN "succeeded"
           ELSE IF row.attempt >= MaxAttempts THEN "dead-lettered" ELSE "scheduled"
  IN  [Closed(row, s) EXCEPT !.next = IF s = "scheduled" THEN RetryDelay ELSE Never]

(* queue.settle: what ack, nack and expiry make of a Live row. *)
Settle(row, verb) ==
  LET s == IF verb = "ack" THEN "succeeded"
           ELSE IF row.effect THEN "ambiguous"
           ELSE IF row.attempt >= MaxAttempts THEN "dead-lettered"
           ELSE "scheduled"
      from == IF verb = "expire" THEN row.lease ELSE 0
  IN  [Closed(row, s) EXCEPT
         !.next = IF s = "scheduled" THEN from + RetryDelay ELSE Never]

(* The row of a message whose payload expired before it was claimed. *)
DeadLetter(row) == Closed(row, "dead-lettered")

Superseded(row) == [row EXCEPT !.current = FALSE, !.next = Never]

Leased(row, r) ==
  [row EXCEPT !.state = "leased", !.receipt = row.claims + 1, !.claims = @ + 1,
              !.consumer = r, !.lease = LeaseTime, !.next = Never]

-----------------------------------------------------------------------------
(* PGMQ *)

Copy == [message: Messages, table: {"q", "a", "gone"}, vt: Int, scrubbed: BOOLEAN]

NewCopy(m) == [message |-> m, table |-> "q", vt |-> 0, scrubbed |-> FALSE]
Archived(c) == [c EXCEPT !.table = "a", !.vt = Never]

(* pgmq.archive and pgmq.set_vt find no row outside q_: queue_unavailable. *)
InQ(p) == p \in DOMAIN copies /\ copies[p].table = "q"
Archive(p) == InQ(p) /\ copies' = [copies EXCEPT ![p] = Archived(@)]
SetVt(p, t) == InQ(p) /\ copies' = [copies EXCEPT ![p].vt = t]
(* Mutant: a nacked delivery is archived like a finished one. *)
PlaceArchived(p, row) == Archive(p)
Place(p, row) ==
  \/ row.state = "scheduled" /\ SetVt(p, row.next)
  \/ row.state # "scheduled" /\ Archive(p)

-----------------------------------------------------------------------------
(* State functions *)

Sent(m) == messages[m].pid # 0
Expired(m) == Due(messages[m].ttl)
HasRow(m) == deliveries[m] # <<>>
HasCurrent(m) == \E k \in DOMAIN deliveries[m] : deliveries[m][k].current
Current(m) == CHOOSE k \in DOMAIN deliveries[m] : deliveries[m][k].current
CurrentRow(m) == deliveries[m][Current(m)]
LiveEffect(m) == effects[m].key # NoKey /\ ~effects[m].reset

(* queue.payload: the ORIGINAL copy of an unexpired message. *)
Readable(m) ==
  /\ ~Expired(m)
  /\ copies[messages[m].pid].table \in {"q", "a"}
  /\ ~copies[messages[m].pid].scrubbed

(* bind_context: a principal's verb needs an open gate and an active status. *)
Context(r) == ~gate /\ status[PrincipalOf[r]] = "active"

(* Mutant: any receipt of the right consumer will do. *)
FencedLoosely(r, m, k, c) ==
  /\ Context(r)
  /\ k \in DOMAIN deliveries[m]
  /\ LET d == deliveries[m][k] IN
       d.current /\ d.state \in Live /\ d.consumer = r /\ d.lease > 0

(* queue.fenced_delivery *)
Fenced(r, m, k, c) ==
  /\ Context(r)
  /\ k \in DOMAIN deliveries[m]
  /\ LET d == deliveries[m][k] IN
       /\ d.current
       /\ d.state \in Live
       /\ d.receipt = c
       /\ d.consumer = r
       /\ d.lease > 0

Write(m, k, row) == deliveries' = [deliveries EXCEPT ![m][k] = row]

-----------------------------------------------------------------------------
(* Producers *)

(* queue.send_message and queue.ensure_delivery for a key not seen before. *)
(* A retry of a known key is answered from the ledger (see SendRetry); all *)
(* it can change is to ensure a delivery, as Recover of one message does.  *)
Send(r, m, h, ttl) ==
  /\ Context(r)
  /\ ~Sent(m)
  /\ messages' = [messages EXCEPT ![m] = [pid |-> Len(copies) + 1, hash |-> h, ttl |-> ttl]]
  /\ copies' = Append(copies, NewCopy(m))
  /\ deliveries' = [deliveries EXCEPT ![m] = <<NewRow(Len(copies) + 1, 1, 1)>>]
  /\ UNCHANGED <<effects, reconciled, status, gate, restores>>

(* Mutant: recover trusts the list it made before it took the lock. *)
RecoverStale(r, candidates) ==
  /\ Context(r)
  /\ \A m \in candidates : effects[m].key = NoKey
  /\ deliveries' = [m \in Messages |->
       IF m \in candidates /\ Sent(m) THEN <<NewRow(messages[m].pid, 1, 1)>>
       ELSE deliveries[m]]
  /\ UNCHANGED <<messages, copies, effects, reconciled, status, gate, restores>>

(* recover: the candidates were listed outside the lock, so some may have  *)
(* a delivery by now; ensure_delivery skips those, and refuses the whole   *)
(* batch when one has an effect.                                           *)
Recover(r, candidates) ==
  /\ Context(r)
  /\ \A m \in candidates : effects[m].key = NoKey
  /\ deliveries' = [m \in Messages |->
       IF m \in candidates /\ Sent(m) /\ ~HasRow(m) THEN <<NewRow(messages[m].pid, 1, 1)>>
       ELSE deliveries[m]]
  /\ UNCHANGED <<messages, copies, effects, reconciled, status, gate, restores>>

-----------------------------------------------------------------------------
(* Claim *)

(* ORDER BY deadline LIMIT Batch: every batch the order allows. *)
IsBatch(chosen, deadline) ==
  /\ chosen \subseteq DOMAIN deadline
  /\ Cardinality(chosen) <= Batch
  /\ \A m \in chosen, n \in DOMAIN deadline \ chosen : deadline[m] <= deadline[n]
  /\ chosen = DOMAIN deadline \/ Cardinality(chosen) = Batch

LapsedEffects ==
  {m \in Messages : /\ HasCurrent(m)
                    /\ CurrentRow(m).state = "begun"
                    /\ Due(CurrentRow(m).lease)}
ExpiredWork ==
  {m \in Messages : /\ HasCurrent(m)
                    /\ CurrentRow(m).state \in {"ready", "scheduled"}
                    /\ Expired(m)}

(* The row a copy read from q_ belongs to: the current delivery, or the    *)
(* first delivery of a message that has none yet.                          *)
Claimed(m) ==
  IF HasCurrent(m) THEN CurrentRow(m) ELSE NewRow(messages[m].pid, 1, 1)
HasClaimed(m) == HasCurrent(m) \/ (Sent(m) /\ ~HasRow(m))
AfterExpiry(m) ==
  IF Claimed(m).state \in Live THEN Settle(Claimed(m), "expire") ELSE Claimed(m)

(* Mutant: an in-flight row is an error even when its lease is over. *)
StrayLive(p) ==
  LET owners == {m \in Messages : HasClaimed(m) /\ Claimed(m).pid = p} IN
    owners = {} \/ \E m \in owners : Claimed(m).state \notin {"ready", "scheduled"}

(* claim raises queue_unavailable when it reads such a copy. *)
Stray(p) ==
  LET owners == {m \in Messages : HasClaimed(m) /\ Claimed(m).pid = p} IN
    \/ owners = {}
    \/ \E m \in owners : \/ Claimed(m).state \in Live /\ ~Due(Claimed(m).lease)
                         \/ Claimed(m).state \notin Dispatchable

Grantable(m) ==
  /\ AfterExpiry(m).state \in {"ready", "scheduled"}
  /\ ~Expired(m)
  /\ Due(AfterExpiry(m).next)

(* A copy that was read and not granted. *)
Passed(m) ==
  IF AfterExpiry(m).state \in {"ready", "scheduled"} /\ Expired(m)
  THEN DeadLetter(AfterExpiry(m)) ELSE AfterExpiry(m)

Put(m, row) ==
  IF HasCurrent(m) THEN [deliveries[m] EXCEPT ![Current(m)] = row] ELSE <<row>>

(* A retry is a new row of the same chain; a first claim, and the claim of *)
(* a row that a restore rescheduled, lease the row itself.                 *)
Grant(m, r) ==
  LET d == AfterExpiry(m) IN
  IF d.completed
  THEN Append(Put(m, Superseded(d)), Leased(NewRow(d.pid, d.chain, d.attempt + 1), r))
  ELSE Put(m, Leased(d, r))

(* pgmq.read after the sweeps: the Batch oldest visible copies of q_.      *)
Window(swept) ==
  LET visible == {p \in DOMAIN copies : /\ copies[p].table = "q"
                                        /\ Due(copies[p].vt)
                                        /\ \A m \in swept : CurrentRow(m).pid # p}
  IN  {p \in visible : Cardinality({o \in visible : o < p}) < Batch}

Reads(swept, m, p) == m \notin swept /\ HasClaimed(m) /\ Claimed(m).pid = p

(* The scan stops at the first copy it may grant. *)
Wins(swept) ==
  {p \in Window(swept) : \E m \in Messages : Reads(swept, m, p) /\ Grantable(m)}
Granted(swept, p) == p \in Wins(swept) /\ \A o \in Wins(swept) : p <= o
Scanned(swept) == {p \in Window(swept) : \A o \in Wins(swept) : p <= o}

RowsAfterClaim(r, lapsed, stale, m) ==
  LET swept == lapsed \cup stale
      Met(p) == p \in Scanned(swept) /\ Reads(swept, m, p)
  IN  IF m \in lapsed THEN Put(m, Settle(CurrentRow(m), "expire"))
      ELSE IF m \in stale THEN Put(m, DeadLetter(CurrentRow(m)))
      ELSE IF Grantable(m) /\ \E p \in DOMAIN copies : Met(p) /\ Granted(swept, p) THEN Grant(m, r)
      ELSE IF \E p \in DOMAIN copies : Met(p) THEN Put(m, Passed(m))
      ELSE deliveries[m]

CopyAfterClaim(swept, p) ==
  LET owner == CHOOSE m \in Messages : Reads(swept, m, p) IN
  IF \E m \in swept : CurrentRow(m).pid = p THEN Archived(copies[p])
  ELSE IF p \notin Scanned(swept) THEN copies[p]
  ELSE IF Granted(swept, p) THEN [copies[p] EXCEPT !.vt = LeaseTime]
  ELSE IF Passed(owner).state = "scheduled" THEN [copies[p] EXCEPT !.vt = Passed(owner).next]
  ELSE Archived(copies[p])

(* queue.claim: end lapsed effects, dead-letter expired work, then scan the *)
(* dispatch table for one delivery.                                        *)
Claim(r) ==
  /\ Context(r)
  /\ \E lapsed \in SUBSET LapsedEffects, stale \in SUBSET ExpiredWork :
       LET swept == lapsed \cup stale IN
       /\ IsBatch(lapsed, [m \in LapsedEffects |-> CurrentRow(m).lease])
       /\ IsBatch(stale, [m \in ExpiredWork |-> messages[m].ttl])
       /\ \A m \in swept : InQ(CurrentRow(m).pid)
       /\ \A p \in Scanned(swept) : ~Stray(p)
       /\ deliveries' = [m \in Messages |-> RowsAfterClaim(r, lapsed, stale, m)]
       /\ copies' = [p \in DOMAIN copies |-> CopyAfterClaim(swept, p)]
  /\ UNCHANGED <<messages, effects, reconciled, status, gate, restores>>

-----------------------------------------------------------------------------
(* Consumer verbs under a receipt c *)

(* Mutant: renew forgets pgmq.set_vt. *)
RenewLedgerOnly(r, m, k, c) ==
  /\ Fenced(r, m, k, c)
  /\ Write(m, k, [deliveries[m][k] EXCEPT !.lease = LeaseTime])
  /\ UNCHANGED <<messages, copies, effects, reconciled, status, gate, restores>>

Renew(r, m, k, c) ==
  /\ Fenced(r, m, k, c)
  /\ Write(m, k, [deliveries[m][k] EXCEPT !.lease = LeaseTime])
  /\ SetVt(deliveries[m][k].pid, LeaseTime)
  /\ UNCHANGED <<messages, effects, reconciled, status, gate, restores>>

Report(r, m, k, c, verb) ==
  LET row == Settle(deliveries[m][k], verb) IN
  /\ Fenced(r, m, k, c)
  /\ Write(m, k, [row EXCEPT !.reported = c])
  /\ Place(row.pid, row)
  /\ UNCHANGED <<messages, effects, reconciled, status, gate, restores>>

Ack(r, m, k, c) == Report(r, m, k, c, "ack")
Nack(r, m, k, c) == Report(r, m, k, c, "nack")

Hold(r, m, k, c) ==
  /\ Fenced(r, m, k, c)
  /\ ~deliveries[m][k].effect
  /\ Write(m, k, [Closed(deliveries[m][k], "held") EXCEPT !.reported = c])
  /\ Archive(deliveries[m][k].pid)
  /\ UNCHANGED <<messages, effects, reconciled, status, gate, restores>>

(* A repeated call for a begun row with the same key changes nothing. *)
BeginEffect(r, m, k, c, key) ==
  /\ Fenced(r, m, k, c)
  /\ \/ effects[m].key = NoKey
     \/ /\ effects[m].key = key
        /\ effects[m].reset
        /\ deliveries[m][k].state = "leased"
  /\ effects' = [effects EXCEPT ![m] = [key |-> key, reset |-> FALSE]]
  /\ Write(m, k, [deliveries[m][k] EXCEPT !.state = "begun", !.effect = TRUE])
  /\ UNCHANGED <<messages, copies, reconciled, status, gate, restores>>

-----------------------------------------------------------------------------
(* User verbs: they work on the current row, and while the gate is shut *)

IsCurrent(m, k) == k \in DOMAIN deliveries[m] /\ deliveries[m][k].current

(* queue.redispatch: a fresh copy and a fresh chain. *)
Redispatch(m, k, old) ==
  /\ Readable(m)
  /\ old.chain < MaxChains
  /\ copies' = Append(copies, NewCopy(m))
  /\ deliveries' = [deliveries EXCEPT ![m] =
       Append([@ EXCEPT ![k] = old], NewRow(Len(copies) + 1, old.chain + 1, 1))]

(* Mutant: any current delivery may be replayed or released. *)
RedispatchableAny(m, k, expected) == IsCurrent(m, k) /\ ~LiveEffect(m)

Redispatchable(m, k, expected) ==
  /\ IsCurrent(m, k)
  /\ deliveries[m][k].state = expected
  /\ ~deliveries[m][k].effect
  /\ ~LiveEffect(m)

Replay(m, k) ==
  /\ Redispatchable(m, k, "dead-lettered")
  /\ Redispatch(m, k, Superseded(deliveries[m][k]))
  /\ UNCHANGED <<messages, effects, reconciled, status, gate, restores>>

Release(m, k) ==
  /\ Redispatchable(m, k, "held")
  /\ Redispatch(m, k, Superseded(deliveries[m][k]))
  /\ UNCHANGED <<messages, effects, reconciled, status, gate, restores>>

Cancel(m, k, force) ==
  /\ IsCurrent(m, k)
  /\ ~LiveEffect(m)
  /\ deliveries[m][k].state \in {"ready", "scheduled", "leased"}
  /\ deliveries[m][k].state = "leased" => force
  /\ Write(m, k, Closed(deliveries[m][k], "cancelled"))
  /\ Archive(deliveries[m][k].pid)
  /\ UNCHANGED <<messages, effects, reconciled, status, gate, restores>>

(* queue.reconcile; recording an outcome twice changes nothing. *)
Reconcilable(m, k, outcome) ==
  /\ IsCurrent(m, k)
  /\ \A o \in Outcomes : <<k, o>> \in reconciled[m] => o = "unknown" /\ outcome # "unknown"
  /\ deliveries[m][k].state \in Uncertain
  /\ deliveries[m][k].effect
  /\ deliveries[m][k].receipt = 0
  /\ deliveries[m][k].next = Never
  /\ LiveEffect(m)

(* Mutants: "unknown" retries; "not applied" leaves the row uncertain. *)
ReconcileUnknownRetries(m, k) ==
  /\ Reconcilable(m, k, "unknown")
  /\ Redispatch(m, k, [Superseded(deliveries[m][k]) EXCEPT !.state = "cancelled"])
  /\ effects' = [effects EXCEPT ![m].reset = TRUE]
  /\ reconciled' = [reconciled EXCEPT ![m] = @ \cup {<<k, "unknown">>}]
  /\ UNCHANGED <<messages, status, gate, restores>>

ReconcileUnknown(m, k) ==
  /\ Reconcilable(m, k, "unknown")
  /\ reconciled' = [reconciled EXCEPT ![m] = @ \cup {<<k, "unknown">>}]
  /\ UNCHANGED <<messages, deliveries, copies, effects, status, gate, restores>>

ReconcileApplied(m, k) ==
  /\ Reconcilable(m, k, "applied")
  /\ Write(m, k, [deliveries[m][k] EXCEPT !.state = "succeeded"])
  /\ reconciled' = [reconciled EXCEPT ![m] = @ \cup {<<k, "applied">>}]
  /\ UNCHANGED <<messages, copies, effects, status, gate, restores>>

ReconcileNotApplied(m, k) ==
  /\ Reconcilable(m, k, "not_applied")
  /\ Redispatch(m, k, [Superseded(deliveries[m][k]) EXCEPT !.state = "cancelled"])
  /\ effects' = [effects EXCEPT ![m].reset = TRUE]
  /\ reconciled' = [reconciled EXCEPT ![m] = @ \cup {<<k, "not_applied">>}]
  /\ UNCHANGED <<messages, status, gate, restores>>

(* revokePrincipal and queue.pause_effects in one transaction. *)
Paused(p) ==
  {m \in Messages : /\ HasCurrent(m)
                    /\ CurrentRow(m).state = "begun"
                    /\ PrincipalOf[CurrentRow(m).consumer] = p}

Revoke(p) ==
  /\ status[p] = "active"
  /\ status' = [status EXCEPT ![p] = "revoked"]
  /\ \A m \in Paused(p) : InQ(CurrentRow(m).pid)
  /\ deliveries' = [m \in Messages |->
       IF m \in Paused(p) THEN Put(m, Closed(CurrentRow(m), "effect-paused"))
       ELSE deliveries[m]]
  /\ copies' = [q \in DOMAIN copies |->
       IF \E m \in Paused(p) : CurrentRow(m).pid = q THEN Archived(copies[q])
       ELSE copies[q]]
  /\ UNCHANGED <<messages, effects, reconciled, gate, restores>>

-----------------------------------------------------------------------------
(* Retention *)

(* queue.purge_payloads: scrub the dispatch copies of expired messages,    *)
(* then delete their archived copies, by msg_id, within one budget.  The   *)
(* mutant ExpiredCopiesAll forgets to look at the expiry.                  *)
ExpiredCopiesAll(table) ==
  {p \in DOMAIN copies : copies[p].table = table /\ (table = "q" => ~copies[p].scrubbed)}
ExpiredCopies(table) ==
  {p \in DOMAIN copies : /\ copies[p].table = table
                         /\ Expired(copies[p].message)
                         /\ table = "q" => ~copies[p].scrubbed}
Rank(p) ==
  LET q == ExpiredCopies("q")
      a == ExpiredCopies("a")
  IN  IF p \in q THEN Cardinality({o \in q : o < p})
      ELSE Cardinality(q) + Cardinality({o \in a : o < p})

Purge ==
  /\ ExpiredCopies("q") \cup ExpiredCopies("a") # {}
  /\ copies' = [p \in DOMAIN copies |->
       IF p \in ExpiredCopies("q") /\ Rank(p) < PurgeBudget
       THEN [copies[p] EXCEPT !.scrubbed = TRUE]
       ELSE IF p \in ExpiredCopies("a") /\ Rank(p) < PurgeBudget
       THEN [copies[p] EXCEPT !.table = "gone"]
       ELSE copies[p]]
  /\ UNCHANGED <<messages, deliveries, effects, reconciled, status, gate, restores>>

-----------------------------------------------------------------------------
(* Restore: the ledger of a backup is a ledger this specification reaches, *)
(* so a restore keeps the state and shuts the gate (see RestoreGate).      *)

Restore ==
  /\ restores < MaxRestores
  /\ restores' = restores + 1
  /\ gate' = TRUE
  /\ UNCHANGED <<messages, deliveries, copies, effects, reconciled, status>>

InFlight == {m \in Messages : HasCurrent(m) /\ CurrentRow(m).state \in Live}

(* The cross-check that makes restore_batch raise restore_conflict. *)
Consistent(m) ==
  IF CurrentRow(m).state = "begun" THEN LiveEffect(m)
  ELSE ~CurrentRow(m).effect /\ ~LiveEffect(m)

Restored(row) ==
  IF row.state = "begun" THEN Closed(row, "ambiguous")
  ELSE [Closed(row, "scheduled") EXCEPT !.next = RetryDelay, !.completed = FALSE]

RestoreBatch ==
  /\ gate
  /\ InFlight # {}
  /\ \E batch \in SUBSET InFlight :
       /\ Cardinality(batch) <= Batch
       /\ batch = InFlight \/ Cardinality(batch) = Batch
       /\ \A m \in batch : Consistent(m) /\ InQ(CurrentRow(m).pid)
       /\ deliveries' = [m \in Messages |->
            IF m \in batch THEN Put(m, Restored(CurrentRow(m))) ELSE deliveries[m]]
       /\ copies' = [p \in DOMAIN copies |->
            IF \E m \in batch : CurrentRow(m).pid = p /\ CurrentRow(m).state = "leased"
            THEN [copies[p] EXCEPT !.vt = RetryDelay]
            ELSE IF \E m \in batch : CurrentRow(m).pid = p THEN Archived(copies[p])
            ELSE copies[p]]
  /\ UNCHANGED <<messages, effects, reconciled, status, gate, restores>>

(* Mutant: finish does not look for work left in flight. *)
OpenGateEarly ==
  /\ gate
  /\ gate' = FALSE
  /\ UNCHANGED <<messages, deliveries, copies, effects, reconciled, status, restores>>

(* audit.restore_progress(finish) *)
OpenGate ==
  /\ gate
  /\ InFlight = {}
  /\ gate' = FALSE
  /\ UNCHANGED <<messages, deliveries, copies, effects, reconciled, status, restores>>

-----------------------------------------------------------------------------
Tick ==
  /\ messages' = [m \in Messages |-> [messages[m] EXCEPT !.ttl = Elapsed(@, 0)]]
  /\ deliveries' = [m \in Messages |-> [k \in DOMAIN deliveries[m] |->
       [deliveries[m][k] EXCEPT !.lease = Elapsed(@, Floor), !.next = Elapsed(@, Floor)]]]
  /\ copies' = [p \in DOMAIN copies |-> [copies[p] EXCEPT !.vt = Elapsed(@, Floor)]]
  /\ UNCHANGED <<effects, reconciled, status, gate, restores>>

Unsent == [pid |-> 0, hash |-> NoPayload, ttl |-> 0]

Init ==
  /\ copies = [p \in DOMAIN Legacy |-> NewCopy(Legacy[p])]
  /\ \E hash \in [DOMAIN Legacy -> Payloads], ttl \in [DOMAIN Legacy -> Retentions] :
       messages = [m \in Messages |->
         IF \E p \in DOMAIN Legacy : Legacy[p] = m
         THEN LET p == CHOOSE p \in DOMAIN Legacy : Legacy[p] = m IN
              [pid |-> p, hash |-> hash[p], ttl |-> ttl[p]]
         ELSE Unsent]
  /\ deliveries = [m \in Messages |-> <<>>]
  /\ effects = [m \in Messages |-> [key |-> NoKey, reset |-> FALSE]]
  /\ reconciled = [m \in Messages |-> {}]
  /\ status = [p \in Principals |-> "active"]
  /\ gate = FALSE
  /\ restores = 0

RowIds(m) == DOMAIN deliveries[m]
Receipts(m, k) == 1 .. deliveries[m][k].claims

ConsumerStep ==
  \E r \in Runs, m \in Messages : \E k \in RowIds(m) : \E c \in Receipts(m, k) :
    \/ Renew(r, m, k, c)
    \/ Ack(r, m, k, c)
    \/ Nack(r, m, k, c)
    \/ Hold(r, m, k, c)
    \/ \E key \in EffectKeys : BeginEffect(r, m, k, c, key)

UserStep ==
  \E m \in Messages : \E k \in RowIds(m) :
    \/ Replay(m, k)
    \/ Release(m, k)
    \/ \E force \in BOOLEAN : Cancel(m, k, force)
    \/ ReconcileUnknown(m, k)
    \/ ReconcileApplied(m, k)
    \/ ReconcileNotApplied(m, k)

Next ==
  \/ \E r \in Runs, m \in Messages, h \in Payloads, ttl \in Retentions : Send(r, m, h, ttl)
  \/ \E r \in Runs, found \in SUBSET DOMAIN Legacy : Recover(r, {Legacy[p] : p \in found})
  \/ \E r \in Runs : Claim(r)
  \/ ConsumerStep
  \/ UserStep
  \/ \E p \in Revocable : Revoke(p)
  \/ Purge
  \/ Restore
  \/ RestoreBatch
  \/ OpenGate
  \/ Tick

(* Consumers poll, time passes, and a User carries a restore through.      *)
(* Nobody is obliged to renew, ack, nack, send or recover by hand.         *)
Fairness ==
  /\ WF_vars(Tick)
  /\ \A r \in Runs : WF_vars(Claim(r))
  /\ WF_vars(RestoreBatch)
  /\ WF_vars(OpenGate)

Spec == Init /\ [][Next]_vars
FairSpec == Spec /\ Fairness

-----------------------------------------------------------------------------
(* Invariants *)

(* Every table holds rows of its schema. *)
TypeOK ==
  /\ messages \in [Messages -> [pid: Nat, hash: Payloads \cup {NoPayload}, ttl: Nat]]
  /\ deliveries \in [Messages -> Seq(Row)]
  /\ copies \in Seq(Copy)
  /\ effects \in [Messages -> [key: EffectKeys \cup {NoKey}, reset: BOOLEAN]]
  /\ reconciled \in [Messages -> SUBSET (Nat \X Outcomes)]
  /\ status \in [Principals -> {"active", "revoked"}]
  /\ gate \in BOOLEAN
  /\ restores \in Nat

(* The newest delivery of a message, and no other, is its current one: the *)
(* partial unique index delivery_current is never what stops a verb.       *)
OneCurrent ==
  \A m \in Messages : \A k \in DOMAIN deliveries[m] :
    deliveries[m][k].current <=> k = Len(deliveries[m])

(* The ledger and the dispatch table agree: a current delivery that may be *)
(* claimed or is in flight has its copy in q_, visible exactly when the    *)
(* ledger says so, and q_ holds nothing else but the copies of messages    *)
(* without any delivery.  Otherwise a message is lost, or claim, renew,    *)
(* settle or cancel raise queue_unavailable.                               *)
DispatchMatchesLedger ==
  /\ \A m \in Messages : HasCurrent(m) /\ CurrentRow(m).state \in Dispatchable =>
       LET d == CurrentRow(m)
           c == copies[d.pid]
       IN  /\ c.table = "q" /\ c.message = m
           /\ d.state \in Live => c.vt = d.lease
           /\ d.state = "scheduled" => c.vt = d.next
           /\ d.state = "ready" => Due(c.vt)
  /\ \A p \in DOMAIN copies : copies[p].table = "q" =>
       LET m == copies[p].message IN
       IF HasRow(m)
       THEN HasCurrent(m) /\ CurrentRow(m).pid = p /\ CurrentRow(m).state \in Dispatchable
       ELSE messages[m].pid = p /\ Due(copies[p].vt)

(* A delivery accepts its newest receipt or none: a receipt that was lost  *)
(* to expiry, revocation, a restore or a forced cancellation never ends    *)
(* the work of a later claim.                                              *)
ReceiptFence ==
  \A m \in Messages : \A k \in DOMAIN deliveries[m] :
    LET d == deliveries[m][k] IN
      /\ d.receipt # 0 <=> d.state \in Live
      /\ d.receipt # 0 => d.receipt = d.claims /\ d.current /\ d.consumer # NoRun
      /\ d.reported # 0 => d.reported = d.claims /\ d.receipt = 0

(* The effects row of a message is live exactly while its current delivery *)
(* is the one that began it, and that delivery is begun, uncertain or done: *)
(* it never returns to dispatch.                                           *)
EffectOwned ==
  \A m \in Messages :
    /\ LiveEffect(m) <=> HasCurrent(m) /\ CurrentRow(m).effect
    /\ HasCurrent(m) /\ CurrentRow(m).effect =>
         CurrentRow(m).state \in {"begun", "succeeded"} \cup Uncertain
    /\ HasCurrent(m) /\ CurrentRow(m).state \in {"begun"} \cup Uncertain =>
         CurrentRow(m).effect

(* Two deliveries of a message begin its effect only when the earlier one  *)
(* was reconciled as not applied (ADR-0012).                               *)
EffectBegunOnce ==
  \A m \in Messages : \A k, j \in DOMAIN deliveries[m] :
    k < j /\ deliveries[m][k].effect /\ deliveries[m][j].effect =>
      <<k, "not_applied">> \in reconciled[m]

(* The payload of an unexpired message stays readable through archiving,   *)
(* purging and redispatch: payload_read_failed is never raised.            *)
PayloadKept == \A m \in Messages : Sent(m) /\ ~Expired(m) => Readable(m)

-----------------------------------------------------------------------------
(* Action properties *)

(* A restored ledger opens with no receipt of the time before the backup   *)
(* accepted: whoever held work across the restore must claim it again.     *)
RestoreEndsLeases ==
  [][gate /\ ~gate' => \A m \in Messages : \A k \in DOMAIN deliveries[m] :
       deliveries[m][k].receipt = 0 /\ deliveries[m][k].state \notin Live]_vars

-----------------------------------------------------------------------------
(* Liveness *)

(* A consumer that stops renewing loses its claim: an in-flight delivery   *)
(* ends, as a new attempt or as a recorded uncertainty.                    *)
Renews(m) == \E r \in Runs, k \in RowIds(m) : \E c \in Receipts(m, k) : Renew(r, m, k, c)
InFlightRow(m) == HasCurrent(m) /\ CurrentRow(m).state \in Live
DeadClaimsEnd ==
  \A m \in Messages :
    <>[][~Renews(m)]_vars => []<>~InFlightRow(m)

(* Work that may be claimed does not starve. *)
WorkIsServed ==
  \A m \in Messages :
    HasCurrent(m) /\ CurrentRow(m).state \in {"ready", "scheduled"} ~>
      HasCurrent(m) /\ CurrentRow(m).state \notin {"ready", "scheduled"}
=============================================================================
