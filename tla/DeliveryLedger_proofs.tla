------------------------ MODULE DeliveryLedger_proofs ------------------------
(***************************************************************************)
(* The ledger's safety for every set of messages, runs and principals and  *)
(* every value of the timing and batch constants.                          *)
(*                                                                         *)
(* The inductive invariant speaks of one message at a time: LedgerOf       *)
(* relates its rows, its effects row and its reconciliations.  Every verb  *)
(* either replaces the newest row (ReplaceNewest), appends a successor to  *)
(* it (AppendSuccessor) or writes a first row (FirstRow), so each verb's   *)
(* case comes down to one of these three lemmas.                           *)
(*                                                                         *)
(* The last part is about the screens of the dashboard, which              *)
(* MCLedgerBatch puts beside the ledger: Timeline, Inbox, PrincipalScreen, *)
(* for any log, any Approvals and Principals and any number of calls.      *)
(***************************************************************************)
EXTENDS MCLedgerBatch, FiniteSetTheorems, SequenceTheorems, TLAPS

(* What holds of a row whatever the other tables say. *)
RowOK(d) ==
  /\ d.completed /\ d.state \in {"ready", "scheduled"} => d.attempt < MaxAttempts
  /\ d.receipt # 0 <=> d.state \in Live
  /\ d.receipt # 0 => d.receipt = d.claims /\ d.current /\ d.consumer # NoRun
  /\ d.reported # 0 => d.reported = d.claims /\ d.receipt = 0 /\ d.completed
  /\ d.effect => d.state \in {"begun", "succeeded", "cancelled"} \cup Uncertain
  /\ d.state \in {"begun"} \cup Uncertain => d.effect
  /\ d.current /\ d.effect => d.state # "cancelled"

(* What holds of the rows of one message, of whether its effect is live,   *)
(* and of its reconciliations.                                             *)
LedgerOf(rows, live, rec) ==
  /\ rows \in Seq(Row)
  /\ \A k \in 1 .. Len(rows) : RowOK(rows[k])
  /\ \A k \in 1 .. Len(rows) : rows[k].current <=> k = Len(rows)
  /\ live <=> (Len(rows) > 0 /\ rows[Len(rows)].effect)
  /\ \A k \in 1 .. Len(rows) : k < Len(rows) /\ rows[k].effect => <<k, "not_applied">> \in rec

IInv ==
  /\ TypeOK
  /\ \A m \in Messages : LedgerOf(deliveries[m], LiveEffect(m), reconciled[m])
  /\ \A m \in Messages : HasRow(m) => Sent(m)

-----------------------------------------------------------------------------
(* The rows a verb computes are rows. *)

LEMMA NewRowOK ==
  ASSUME NEW p \in Nat, NEW c \in Nat, NEW a \in 1 .. MaxAttempts
  PROVE  /\ NewRow(p, c, a) \in Row /\ RowOK(NewRow(p, c, a))
         /\ NewRow(p, c, a).current /\ ~NewRow(p, c, a).effect
         /\ ~NewRow(p, c, a).completed
BY TimeAssumption, BoundAssumption
   DEF NewRow, Row, RowOK, States, Live, Uncertain, Never, Floor

LEMMA ClosedOK ==
  ASSUME NEW d \in Row, RowOK(d), NEW s \in States \ Live,
         s \in {"ready", "scheduled"} => d.attempt < MaxAttempts,
         s \in Uncertain => d.effect,
         d.effect => s \in {"succeeded"} \cup Uncertain
  PROVE  /\ Closed(d, s) \in Row /\ RowOK(Closed(d, s))
         /\ Closed(d, s).current = d.current /\ Closed(d, s).effect = d.effect
         /\ Closed(d, s).state = s /\ Closed(d, s).receipt = 0
         /\ Closed(d, s).completed /\ Closed(d, s).attempt = d.attempt
         /\ Closed(d, s).claims = d.claims
<1>1. Never \in Never .. LeaseTime /\ Never \in Never .. RetryDelay
  BY TimeAssumption DEF Never, Floor
<1>2. Closed(d, s) \in Row
  BY <1>1 DEF Closed, Row
<1>3. /\ Closed(d, s).state = s /\ Closed(d, s).receipt = 0
      /\ Closed(d, s).completed = TRUE /\ Closed(d, s).attempt = d.attempt
      /\ Closed(d, s).current = d.current /\ Closed(d, s).effect = d.effect
      /\ Closed(d, s).claims = d.claims /\ Closed(d, s).reported = d.reported
  BY DEF Closed, Row
<1>4. RowOK(Closed(d, s))
  BY <1>3 DEF RowOK, States, Live, Uncertain, Row
<1> QED BY <1>2, <1>3, <1>4

LEMMA SettleOK ==
  ASSUME NEW d \in Row, RowOK(d), d.state \in Live, NEW verb \in {"ack", "nack", "expire"},
         verb = "expire" => Due(d.lease)
  PROVE  /\ Settle(d, verb) \in Row /\ RowOK(Settle(d, verb))
         /\ Settle(d, verb).current = d.current /\ Settle(d, verb).effect = d.effect
         /\ Settle(d, verb).receipt = 0 /\ Settle(d, verb).completed
         /\ Settle(d, verb).claims = d.claims /\ Settle(d, verb).state \notin Live
         /\ Settle(d, verb).state # "ready"
<1> DEFINE s == IF verb = "ack" THEN "succeeded"
                ELSE IF d.effect THEN "ambiguous"
                ELSE IF d.attempt >= MaxAttempts THEN "dead-lettered"
                ELSE "scheduled"
           next == IF s = "scheduled"
                   THEN (IF verb = "expire" THEN d.lease ELSE 0) + RetryDelay ELSE Never
           c == Closed(d, s)
<1>1. /\ s \in States \ Live
      /\ s \in {"ready", "scheduled"} => d.attempt < MaxAttempts
      /\ s \in Uncertain => d.effect
      /\ d.effect => s \in {"succeeded"} \cup Uncertain
      /\ s # "ready"
  BY BoundAssumption DEF States, Live, Uncertain, Row
<1>2. /\ c \in Row /\ RowOK(c) /\ c.current = d.current /\ c.effect = d.effect
      /\ c.receipt = 0 /\ c.completed /\ c.claims = d.claims /\ c.state = s
  <2> HIDE DEF s
  <2> QED BY <1>1, ClosedOK
<1>3. next \in Never .. RetryDelay
  <2>1. d.lease \in Never .. LeaseTime
    BY DEF Row
  <2> QED BY <2>1, TimeAssumption DEF Never, Floor, Due
<1>4. Settle(d, verb) = [c EXCEPT !.next = next]
  BY DEF Settle
<1> HIDE DEF c, next, s
<1>5. [c EXCEPT !.next = next] \in Row /\ RowOK([c EXCEPT !.next = next])
  BY <1>2, <1>3 DEF Row, RowOK
<1>6. /\ [c EXCEPT !.next = next].current = d.current
      /\ [c EXCEPT !.next = next].effect = d.effect
      /\ [c EXCEPT !.next = next].receipt = 0 /\ [c EXCEPT !.next = next].completed
      /\ [c EXCEPT !.next = next].claims = d.claims
      /\ [c EXCEPT !.next = next].state = s
  BY <1>2 DEF Row
<1> QED BY <1>1, <1>4, <1>5, <1>6

LEMMA SupersededOK ==
  ASSUME NEW d \in Row, RowOK(d), d.state \notin Live
  PROVE  /\ Superseded(d) \in Row /\ RowOK(Superseded(d))
         /\ ~Superseded(d).current /\ Superseded(d).effect = d.effect
         /\ Superseded(d).state = d.state
<1>1. Never \in Never .. RetryDelay
  BY TimeAssumption DEF Never, Floor
<1>2. Superseded(d) \in Row
  BY <1>1 DEF Superseded, Row
<1>3. /\ Superseded(d).current = FALSE /\ Superseded(d).state = d.state
      /\ Superseded(d).effect = d.effect /\ Superseded(d).receipt = d.receipt
      /\ Superseded(d).claims = d.claims /\ Superseded(d).reported = d.reported
      /\ Superseded(d).completed = d.completed /\ Superseded(d).attempt = d.attempt
  BY DEF Superseded, Row
<1> QED BY <1>2, <1>3 DEF RowOK

LEMMA LeasedOK ==
  ASSUME NEW d \in Row, RowOK(d), d.state \in {"ready", "scheduled"}, ~d.completed,
         d.current, NEW r \in Runs
  PROVE  /\ Leased(d, r) \in Row /\ RowOK(Leased(d, r))
         /\ Leased(d, r).current /\ Leased(d, r).effect = d.effect
<1>1. LeaseTime \in Never .. LeaseTime /\ Never \in Never .. RetryDelay
  BY TimeAssumption DEF Never, Floor
<1>2. d.claims \in Nat /\ d.reported \in Nat
  BY DEF Row
<1>3. Leased(d, r) \in Row
  <2> DEFINE c == d.claims + 1
  <2>1. c \in Nat /\ "leased" \in States /\ r \in Runs \cup {NoRun}
    BY <1>2 DEF States
  <2>2. Leased(d, r) = [d EXCEPT !.state = "leased", !.receipt = c, !.claims = c,
                                 !.consumer = r, !.lease = LeaseTime, !.next = Never]
    BY DEF Leased, Row
  <2> HIDE DEF c
  <2> QED BY <1>1, <2>1, <2>2 DEF Row
<1>4. /\ Leased(d, r).state = "leased" /\ Leased(d, r).receipt = d.claims + 1
      /\ Leased(d, r).claims = d.claims + 1 /\ Leased(d, r).consumer = r
      /\ Leased(d, r).current = d.current /\ Leased(d, r).effect = d.effect
      /\ Leased(d, r).reported = d.reported /\ Leased(d, r).completed = d.completed
  BY DEF Leased, Row
<1>5. RowOK(Leased(d, r))
  BY <1>2, <1>4, ActorAssumption DEF RowOK, Live, Uncertain
<1> QED BY <1>3, <1>4, <1>5

LEMMA RestoredOK ==
  ASSUME NEW d \in Row, RowOK(d), d.state \in Live, d.state = "leased" => ~d.effect
  PROVE  /\ Restored(d) \in Row /\ RowOK(Restored(d))
         /\ Restored(d).current = d.current /\ Restored(d).effect = d.effect
<1>1. CASE d.state = "begun"
  <2>1. "ambiguous" \in States \ Live /\ "ambiguous" \in Uncertain /\ d.effect
    BY <1>1 DEF States, Live, Uncertain, RowOK
  <2> QED BY <1>1, <2>1, ClosedOK DEF Restored
<1>2. CASE d.state # "begun"
  <2> DEFINE e == [d EXCEPT !.completed = FALSE, !.state = "leased"]
             n == [Closed(d, "scheduled") EXCEPT !.next = RetryDelay, !.completed = FALSE]
  <2>1. RetryDelay \in Never .. RetryDelay /\ Never \in Never .. LeaseTime
        /\ "scheduled" \in States /\ ~d.effect /\ d.reported \in Nat /\ d.reported = 0
        /\ Never \in Never .. RetryDelay
    BY <1>2, TimeAssumption DEF Never, Floor, States, Live, RowOK, Row
  <2>2. Closed(d, "scheduled") \in Row
    BY <2>1 DEF Closed, Row
  <2>3. n \in Row
    BY <2>1, <2>2 DEF Row
  <2>4. /\ n.state = "scheduled" /\ n.receipt = 0 /\ n.completed = FALSE
        /\ n.effect = d.effect /\ n.current = d.current /\ n.reported = d.reported
    BY DEF Closed, Row
  <2>5. RowOK(n)
    BY <2>1, <2>4 DEF RowOK, Live, Uncertain
  <2> QED BY <1>2, <2>3, <2>4, <2>5 DEF Restored
<1> QED BY <1>1, <1>2

-----------------------------------------------------------------------------
(* The three ways a verb changes the rows of one message. *)

LEMMA ReplaceNewest ==
  ASSUME NEW rows, NEW live \in BOOLEAN, NEW rec, LedgerOf(rows, live, rec),
         NEW k \in 1 .. Len(rows), k = Len(rows),
         NEW d \in Row, RowOK(d), d.current, NEW on \in BOOLEAN, on <=> d.effect
  PROVE  LedgerOf([rows EXCEPT ![k] = d], on, rec)
<1> DEFINE new == [rows EXCEPT ![k] = d]
<1>1. rows \in Seq(Row) /\ Len(rows) \in Nat
  BY DEF LedgerOf
<1>2. new \in Seq(Row) /\ Len(new) = Len(rows)
  BY <1>1
<1>3. \A i \in 1 .. Len(rows) : new[i] = IF i = k THEN d ELSE rows[i]
  BY <1>1
<1> HIDE DEF new
<1> QED BY <1>1, <1>2, <1>3 DEF LedgerOf

LEMMA AppendSuccessor ==
  ASSUME NEW rows, NEW live \in BOOLEAN, NEW rec, LedgerOf(rows, live, rec),
         NEW k \in 1 .. Len(rows), k = Len(rows),
         NEW old \in Row, RowOK(old), ~old.current, old.effect <=> rows[k].effect,
         NEW d \in Row, RowOK(d), d.current, ~d.effect,
         NEW also, rec \subseteq also, old.effect => <<k, "not_applied">> \in also
  PROVE  LedgerOf(Append([rows EXCEPT ![k] = old], d), FALSE, also)
<1> DEFINE mid == [rows EXCEPT ![k] = old]
           new == Append(mid, d)
<1>1. rows \in Seq(Row) /\ Len(rows) \in Nat
  BY DEF LedgerOf
<1>2. mid \in Seq(Row) /\ Len(mid) = Len(rows)
  BY <1>1
<1>3. \A i \in 1 .. Len(rows) : mid[i] = IF i = k THEN old ELSE rows[i]
  BY <1>1
<1> HIDE DEF mid
<1>4. /\ new \in Seq(Row) /\ Len(new) = k + 1 /\ new[k + 1] = d
      /\ \A i \in 1 .. k : new[i] = mid[i]
  BY <1>1, <1>2
<1> HIDE DEF new
<1>5. \A i \in 1 .. Len(new) : i \in 1 .. k \/ i = k + 1
  BY <1>1, <1>4
<1>6. \A i \in 1 .. Len(new) : RowOK(new[i]) /\ (new[i].current <=> i = Len(new))
  BY <1>1, <1>3, <1>4, <1>5 DEF LedgerOf
<1>7. \A i \in 1 .. Len(new) : i < Len(new) /\ new[i].effect => <<i, "not_applied">> \in also
  <2> SUFFICES ASSUME NEW i \in 1 .. Len(new), i < Len(new), new[i].effect
                PROVE  <<i, "not_applied">> \in also
    OBVIOUS
  <2>1. i \in 1 .. k /\ mid[i].effect
    BY <1>1, <1>4, <1>5
  <2>2. CASE i = k
    BY <1>3, <2>1, <2>2
  <2>3. CASE i # k
    BY <1>1, <1>3, <2>1, <2>3 DEF LedgerOf
  <2> QED BY <2>2, <2>3
<1>8. Len(new) > 0 /\ ~new[Len(new)].effect
  BY <1>1, <1>4
<1>9. LedgerOf(new, FALSE, also)
  BY <1>4, <1>6, <1>7, <1>8 DEF LedgerOf
<1> QED BY <1>9 DEF new, mid

LEMMA FirstRow ==
  ASSUME NEW rec, NEW d \in Row, RowOK(d), d.current, ~d.effect
  PROVE  LedgerOf(<<d>>, FALSE, rec)
BY DEF LedgerOf

-----------------------------------------------------------------------------
(* What the invariant says of the current row of a message. *)

LEMMA CurrentIsNewest ==
  ASSUME IInv, NEW m \in Messages
  PROVE  /\ DOMAIN deliveries[m] = 1 .. Len(deliveries[m])
         /\ Len(deliveries[m]) \in Nat
         /\ HasCurrent(m) <=> HasRow(m)
         /\ HasCurrent(m) => /\ Current(m) \in 1 .. Len(deliveries[m])
                             /\ Current(m) = Len(deliveries[m])
                             /\ CurrentRow(m) \in Row
                             /\ RowOK(CurrentRow(m))
                             /\ CurrentRow(m).current
         /\ \A k \in DOMAIN deliveries[m] : deliveries[m][k].current =>
              /\ HasCurrent(m) /\ k = Current(m) /\ k = Len(deliveries[m])
              /\ deliveries[m][k] \in Row /\ RowOK(deliveries[m][k])
         /\ LiveEffect(m) <=> HasCurrent(m) /\ CurrentRow(m).effect
         /\ ~HasRow(m) => ~LiveEffect(m)
<1> DEFINE rows == deliveries[m]
<1>1. LedgerOf(rows, LiveEffect(m), reconciled[m])
  BY DEF IInv
<1>2. rows \in Seq(Row) /\ Len(rows) \in Nat /\ DOMAIN rows = 1 .. Len(rows)
  BY <1>1 DEF LedgerOf
<1>3. \A k \in 1 .. Len(rows) : rows[k] \in Row /\ RowOK(rows[k])
                              /\ (rows[k].current <=> k = Len(rows))
  BY <1>1, <1>2 DEF LedgerOf
<1>4. rows = <<>> <=> Len(rows) = 0
  BY <1>2
<1> HIDE DEF rows
<1>5. HasCurrent(m) <=> HasRow(m)
  BY <1>2, <1>3, <1>4 DEF HasCurrent, HasRow, rows
<1>6. ASSUME HasCurrent(m)
      PROVE  Current(m) \in 1 .. Len(rows) /\ Current(m) = Len(rows)
  <2>1. \E k \in 1 .. Len(rows) : rows[k].current
    BY <1>2, <1>6 DEF HasCurrent, rows
  <2>2. Current(m) \in 1 .. Len(rows) /\ rows[Current(m)].current
    BY <1>2, <2>1 DEF Current, rows
  <2> QED BY <1>3, <2>2
<1>7. LiveEffect(m) <=> HasCurrent(m) /\ CurrentRow(m).effect
  BY <1>1, <1>2, <1>4, <1>5, <1>6 DEF LedgerOf, HasRow, CurrentRow, rows
<1>8. \A k \in 1 .. Len(rows) : rows[k].current => HasCurrent(m)
  BY <1>2 DEF HasCurrent, rows
<1> QED BY <1>2, <1>3, <1>5, <1>6, <1>7, <1>8 DEF CurrentRow, rows

LEMMA PutOK ==
  ASSUME IInv, NEW m \in Messages, HasCurrent(m),
         NEW d \in Row, RowOK(d), d.current, d.effect = CurrentRow(m).effect
  PROVE  LedgerOf(Put(m, d), LiveEffect(m), reconciled[m])
<1>1. LedgerOf(deliveries[m], LiveEffect(m), reconciled[m])
  BY DEF IInv
<1>2. LiveEffect(m) \in BOOLEAN
  BY DEF LiveEffect
<1> QED BY <1>1, <1>2, CurrentIsNewest, ReplaceNewest DEF Put

(* The part of IInv' that a verb has to establish. *)
LEMMA Assemble ==
  ASSUME messages' \in [Messages -> [pid: Nat, hash: Payloads \cup {NoPayload}, ttl: Nat]],
         copies' \in Seq(Copy),
         effects' \in [Messages -> [key: EffectKeys \cup {NoKey}, reset: BOOLEAN]],
         reconciled' \in [Messages -> SUBSET (Nat \X Outcomes)],
         status' \in [Principals -> {"active", "revoked"}],
         gate' \in BOOLEAN, restores' \in Nat,
         deliveries' = [m \in Messages |-> deliveries'[m]],
         \A m \in Messages : LedgerOf(deliveries'[m], LiveEffect(m)', reconciled'[m]),
         \A m \in Messages : HasRow(m)' => Sent(m)'
  PROVE  IInv'
<1>1. deliveries' \in [Messages -> Seq(Row)]
  BY DEF LedgerOf
<1> QED BY <1>1 DEF IInv, TypeOK

LEMMA InitOK == Init => IInv
<1> SUFFICES ASSUME Init PROVE IInv
  OBVIOUS
<1>1. messages \in [Messages -> [pid: Nat, hash: Payloads \cup {NoPayload}, ttl: Nat]]
  <2>1. PICK hash \in [DOMAIN Legacy -> Payloads], ttl \in [DOMAIN Legacy -> Retentions] :
          messages = [m \in Messages |->
            IF \E p \in DOMAIN Legacy : Legacy[p] = m
            THEN LET p == CHOOSE p \in DOMAIN Legacy : Legacy[p] = m IN
                 [pid |-> p, hash |-> hash[p], ttl |-> ttl[p]]
            ELSE Unsent]
    BY DEF Init
  <2>2. DOMAIN Legacy \subseteq Nat /\ Retentions \subseteq Nat
    BY ActorAssumption, TimeAssumption
  <2>3. ASSUME NEW m \in Messages, \E p \in DOMAIN Legacy : Legacy[p] = m
        PROVE  (CHOOSE p \in DOMAIN Legacy : Legacy[p] = m) \in DOMAIN Legacy
    BY <2>3
  <2> QED BY <2>1, <2>2, <2>3 DEF Unsent
<1>2. copies \in Seq(Copy)
  <2>1. \A p \in DOMAIN Legacy : NewCopy(Legacy[p]) \in Copy
    BY ActorAssumption DEF NewCopy, Copy
  <2>2. DOMAIN Legacy = 1 .. Len(Legacy) /\ Len(Legacy) \in Nat
    BY ActorAssumption
  <2>3. copies \in [1 .. Len(Legacy) -> Copy]
    BY <2>1, <2>2 DEF Init
  <2> QED BY <2>2, <2>3, SeqDef
<1>3. \A m \in Messages : LedgerOf(deliveries[m], LiveEffect(m), reconciled[m])
  BY DEF Init, LedgerOf, LiveEffect
<1>4. deliveries \in [Messages -> Seq(Row)] /\ \A m \in Messages : ~HasRow(m)
  BY DEF Init, HasRow
<1> QED BY <1>1, <1>2, <1>3, <1>4 DEF Init, IInv, TypeOK

-----------------------------------------------------------------------------
(* PGMQ keeps its type. *)

LEMMA CopiesOK ==
  ASSUME copies \in Seq(Copy), NEW m \in Messages
  PROVE  /\ Len(copies) \in Nat
         /\ Append(copies, NewCopy(m)) \in Seq(Copy)
         /\ \A p : Archive(p) => copies' \in Seq(Copy)
         /\ \A p, t : t \in Int /\ SetVt(p, t) => copies' \in Seq(Copy)
<1>1. NewCopy(m) \in Copy
  BY DEF NewCopy, Copy
<1>2. DOMAIN copies = 1 .. Len(copies)
  OBVIOUS
<1>3. ASSUME NEW p, p \in DOMAIN copies
      PROVE  copies[p] \in Copy
  BY <1>3
<1>4. ASSUME NEW p, Archive(p) PROVE copies' \in Seq(Copy)
  <2>1. Never \in Int
    BY TimeAssumption DEF Never, Floor
  <2>2. \A c \in Copy : Archived(c) \in Copy
    BY <2>1 DEF Archived, Copy
  <2>3. CASE p \in DOMAIN copies
    <3> DEFINE c == Archived(copies[p])
    <3>1. c \in Copy
      BY <1>3, <2>2, <2>3
    <3>2. copies' = [copies EXCEPT ![p] = c]
      BY <1>4 DEF Archive
    <3> HIDE DEF c
    <3>3. [copies EXCEPT ![p] = c] \in Seq(Copy)
      BY <1>2, <2>3, <3>1, ExceptSeq
    <3> QED BY <3>2, <3>3
  <2> QED BY <1>4, <2>3 DEF Archive, InQ
<1>5. ASSUME NEW p, NEW t, t \in Int, SetVt(p, t) PROVE copies' \in Seq(Copy)
  <2>1. \A c \in Copy : [c EXCEPT !.vt = t] \in Copy
    BY <1>5 DEF Copy
  <2>2. CASE p \in DOMAIN copies
    <3> DEFINE c == [copies[p] EXCEPT !.vt = t]
    <3>1. c \in Copy
      BY <1>3, <2>1, <2>2
    <3>2. copies' = [copies EXCEPT ![p] = c]
      BY <1>5 DEF SetVt
    <3> HIDE DEF c
    <3>3. [copies EXCEPT ![p] = c] \in Seq(Copy)
      BY <1>2, <2>2, <3>1, ExceptSeq
    <3> QED BY <3>2, <3>3
  <2> QED BY <1>5, <2>2 DEF SetVt, InQ
<1> QED BY <1>1, <1>4, <1>5

(* A verb that writes one row, the current one, and leaves the other       *)
(* tables' facts about other messages alone.                               *)
LEMMA WriteOK ==
  ASSUME IInv, NEW m \in Messages, NEW k \in DOMAIN deliveries[m], deliveries[m][k].current,
         NEW d \in Row, RowOK(d), d.current, Write(m, k, d),
         \A n \in Messages : n # m => (LiveEffect(n)' <=> LiveEffect(n)),
         LiveEffect(m)' <=> d.effect,
         UNCHANGED <<messages, reconciled>>
  PROVE  /\ deliveries' = [n \in Messages |-> deliveries'[n]]
         /\ \A n \in Messages : LedgerOf(deliveries'[n], LiveEffect(n)', reconciled'[n])
         /\ \A n \in Messages : HasRow(n)' => Sent(n)'
<1>1. deliveries \in [Messages -> Seq(Row)]
  BY DEF IInv, TypeOK
<1>2. deliveries' = [n \in Messages |-> deliveries'[n]]
  BY <1>1 DEF Write
<1>3. \A n \in Messages : n # m => deliveries'[n] = deliveries[n]
  BY <1>1 DEF Write
<1>4. deliveries'[m] = [deliveries[m] EXCEPT ![k] = d]
  BY <1>1 DEF Write
<1>5. LedgerOf(deliveries[m], LiveEffect(m), reconciled[m]) /\ LiveEffect(m) \in BOOLEAN
      /\ LiveEffect(m)' \in BOOLEAN
  BY DEF IInv, LiveEffect
<1>6. k \in 1 .. Len(deliveries[m]) /\ k = Len(deliveries[m])
  BY CurrentIsNewest
<1>7. LedgerOf(deliveries'[m], LiveEffect(m)', reconciled[m])
  BY <1>4, <1>5, <1>6, ReplaceNewest
<1>8. \A n \in Messages : n # m => LedgerOf(deliveries'[n], LiveEffect(n)', reconciled[n])
  <2> SUFFICES ASSUME NEW n \in Messages, n # m
               PROVE  LedgerOf(deliveries'[n], LiveEffect(n)', reconciled[n])
    OBVIOUS
  <2>1. LedgerOf(deliveries[n], LiveEffect(n), reconciled[n])
    BY DEF IInv
  <2>2. LiveEffect(n)' = LiveEffect(n)
    BY DEF LiveEffect
  <2> QED BY <1>3, <2>1, <2>2
<1>9. \A n \in Messages : HasRow(n)' => Sent(n)'
  <2>1. HasRow(m)
    BY DEF HasRow
  <2> QED BY <1>3, <2>1 DEF IInv, HasRow, Sent
<1> QED BY <1>2, <1>7, <1>8, <1>9

LEMMA SendStep ==
  ASSUME IInv, NEW r \in Runs, NEW m \in Messages, NEW h \in Payloads, NEW ttl \in Retentions,
         Send(r, m, h, ttl)
  PROVE  IInv'
<1>1. TypeOK
  BY DEF IInv
<1>2. Len(copies) + 1 \in Nat /\ copies' \in Seq(Copy)
  BY <1>1, CopiesOK DEF TypeOK, Send
<1>3. messages' \in [Messages -> [pid: Nat, hash: Payloads \cup {NoPayload}, ttl: Nat]]
  BY <1>1, <1>2, TimeAssumption DEF TypeOK, Send
<1>4. deliveries' = [n \in Messages |-> deliveries'[n]]
  BY <1>1 DEF TypeOK, Send
<1>5. \A n \in Messages : LiveEffect(n)' <=> LiveEffect(n)
  BY DEF Send, LiveEffect
<1>6. 1 \in 1 .. MaxAttempts /\ 1 \in Nat
  BY BoundAssumption
<1>7. LedgerOf(deliveries'[m], LiveEffect(m)', reconciled'[m])
  <2> DEFINE d == NewRow(Len(copies) + 1, 1, 1)
  <2>1. d \in Row /\ RowOK(d) /\ d.current /\ ~d.effect
    BY <1>2, <1>6, NewRowOK
  <2>2. deliveries'[m] = <<d>>
    BY <1>1 DEF TypeOK, Send
  <2>3. LiveEffect(m)' = FALSE
    BY <1>5, CurrentIsNewest DEF LiveEffect, Send, IInv
  <2> HIDE DEF d
  <2> QED BY <2>1, <2>2, <2>3, FirstRow
<1>8. \A n \in Messages : n # m => deliveries'[n] = deliveries[n] /\ reconciled'[n] = reconciled[n]
  BY <1>1 DEF TypeOK, Send
<1>9. \A n \in Messages : LedgerOf(deliveries'[n], LiveEffect(n)', reconciled'[n])
  <2> SUFFICES ASSUME NEW n \in Messages, n # m
               PROVE  LedgerOf(deliveries'[n], LiveEffect(n)', reconciled'[n])
    BY <1>7
  <2>1. LiveEffect(n)' = LiveEffect(n)
    BY <1>5 DEF LiveEffect
  <2> QED BY <1>8, <2>1 DEF IInv
<1>10. \A n \in Messages : HasRow(n)' => Sent(n)'
  <2>1. Sent(m)'
    BY <1>1, <1>2 DEF TypeOK, Send, Sent
  <2>2. \A n \in Messages : n # m => messages'[n] = messages[n]
    BY <1>1 DEF TypeOK, Send
  <2> QED BY <1>8, <2>1, <2>2 DEF IInv, HasRow, Sent
<1> QED BY <1>1, <1>2, <1>3, <1>4, <1>9, <1>10, Assemble DEF TypeOK, Send

LEMMA RecoverStep ==
  ASSUME IInv, NEW r \in Runs, NEW candidates, Recover(r, candidates)
  PROVE  IInv'
<1>1. TypeOK
  BY DEF IInv
<1>2. deliveries' = [n \in Messages |-> deliveries'[n]]
  BY DEF Recover
<1>3. ASSUME NEW n \in Messages
      PROVE  /\ LedgerOf(deliveries'[n], LiveEffect(n)', reconciled'[n])
             /\ HasRow(n)' => Sent(n)'
  <2>1. LiveEffect(n)' = LiveEffect(n) /\ reconciled' = reconciled /\ messages' = messages
    BY DEF Recover, LiveEffect
  <2>2. CASE n \in candidates /\ Sent(n) /\ ~HasRow(n)
    <3> DEFINE d == NewRow(messages[n].pid, 1, 1)
    <3>1. d \in Row /\ RowOK(d) /\ d.current /\ ~d.effect
      BY <1>1, BoundAssumption, NewRowOK DEF TypeOK
    <3>2. deliveries'[n] = <<d>> /\ LiveEffect(n)' = FALSE
      BY <2>1, <2>2, CurrentIsNewest DEF Recover, LiveEffect
    <3> HIDE DEF d
    <3> QED BY <2>1, <2>2, <3>1, <3>2, FirstRow DEF Sent
  <2>3. CASE ~(n \in candidates /\ Sent(n) /\ ~HasRow(n))
    <3>1. deliveries'[n] = deliveries[n]
      BY <2>3 DEF Recover
    <3> QED BY <2>1, <3>1 DEF IInv, HasRow, Sent
  <2> QED BY <2>2, <2>3
<1> QED BY <1>1, <1>2, <1>3, Assemble DEF TypeOK, Recover

-----------------------------------------------------------------------------
(* Consumer verbs *)

LEMMA FencedRow ==
  ASSUME IInv, NEW r \in Runs, NEW m \in Messages, NEW k, NEW c, Fenced(r, m, k, c)
  PROVE  /\ k \in DOMAIN deliveries[m] /\ deliveries[m][k].current
         /\ deliveries[m][k] \in Row /\ RowOK(deliveries[m][k])
         /\ deliveries[m][k].state \in Live /\ deliveries[m][k].receipt = c
         /\ LiveEffect(m) <=> deliveries[m][k].effect
BY CurrentIsNewest DEF Fenced, CurrentRow

LEMMA RenewStep ==
  ASSUME IInv, NEW r \in Runs, NEW m \in Messages, NEW k, NEW c, Renew(r, m, k, c)
  PROVE  IInv'
<1> DEFINE d == deliveries[m][k]
           n == [d EXCEPT !.lease = LeaseTime]
<1>1. TypeOK
  BY DEF IInv
<1>2. /\ k \in DOMAIN deliveries[m] /\ d.current /\ d \in Row /\ RowOK(d)
      /\ LiveEffect(m) <=> d.effect
  BY FencedRow DEF Renew
<1>3. n \in Row /\ RowOK(n) /\ n.current /\ n.effect = d.effect
  <2>1. LeaseTime \in Never .. LeaseTime
    BY TimeAssumption DEF Never, Floor
  <2>2. n \in Row
    BY <1>2, <2>1 DEF Row
  <2> QED BY <1>2, <2>2 DEF Row, RowOK
<1>4. copies' \in Seq(Copy)
  BY <1>1, CopiesOK, TimeAssumption DEF TypeOK, Renew
<1>5. \A i \in Messages : LiveEffect(i)' <=> LiveEffect(i)
  BY DEF Renew, LiveEffect
<1>6. Write(m, k, n) /\ UNCHANGED <<messages, reconciled>>
  BY DEF Renew
<1> HIDE DEF d, n
<1>7. /\ deliveries' = [i \in Messages |-> deliveries'[i]]
      /\ \A i \in Messages : LedgerOf(deliveries'[i], LiveEffect(i)', reconciled'[i])
      /\ \A i \in Messages : HasRow(i)' => Sent(i)'
  BY <1>2, <1>3, <1>5, <1>6, WriteOK DEF d
<1> QED BY <1>1, <1>4, <1>7, Assemble DEF TypeOK, Renew

LEMMA ReportStep ==
  ASSUME IInv, NEW r \in Runs, NEW m \in Messages, NEW k, NEW c,
         NEW verb \in {"ack", "nack"}, Report(r, m, k, c, verb)
  PROVE  IInv'
<1> DEFINE d == deliveries[m][k]
           s == Settle(d, verb)
           n == [s EXCEPT !.reported = c]
<1>1. TypeOK
  BY DEF IInv
<1>2. /\ k \in DOMAIN deliveries[m] /\ d.current /\ d \in Row /\ RowOK(d)
      /\ d.state \in Live /\ d.receipt = c
      /\ LiveEffect(m) <=> d.effect
  BY FencedRow DEF Report
<1>3. /\ s \in Row /\ RowOK(s) /\ s.current = d.current /\ s.effect = d.effect
      /\ s.receipt = 0 /\ s.completed /\ s.claims = d.claims /\ s.state \notin Live
  <2> HIDE DEF d
  <2> QED BY <1>2, SettleOK
<1>4. c \in Nat /\ c # 0 /\ c = s.claims
  BY <1>2, <1>3 DEF RowOK, Row
<1>5. n \in Row /\ RowOK(n) /\ n.current /\ n.effect = d.effect
  <2> HIDE DEF s, d
  <2>1. n \in Row
    BY <1>3, <1>4 DEF Row
  <2> QED BY <1>2, <1>3, <1>4, <2>1 DEF Row, RowOK
<1>6. copies' \in Seq(Copy)
  <2>1. s.next \in Int
    BY <1>3, TimeAssumption DEF Row, Never, Floor
  <2>2. Place(s.pid, s)
    BY DEF Report
  <2> HIDE DEF s
  <2> QED BY <1>1, <2>1, <2>2, CopiesOK DEF TypeOK, Place
<1>7. \A i \in Messages : LiveEffect(i)' <=> LiveEffect(i)
  BY DEF Report, LiveEffect
<1>8. Write(m, k, n) /\ UNCHANGED <<messages, reconciled>>
  BY DEF Report
<1> HIDE DEF d, n, s
<1>9. /\ deliveries' = [i \in Messages |-> deliveries'[i]]
      /\ \A i \in Messages : LedgerOf(deliveries'[i], LiveEffect(i)', reconciled'[i])
      /\ \A i \in Messages : HasRow(i)' => Sent(i)'
  BY <1>2, <1>5, <1>7, <1>8, WriteOK DEF d
<1> QED BY <1>1, <1>6, <1>9, Assemble DEF TypeOK, Report

LEMMA HoldStep ==
  ASSUME IInv, NEW r \in Runs, NEW m \in Messages, NEW k, NEW c, Hold(r, m, k, c)
  PROVE  IInv'
<1> DEFINE d == deliveries[m][k]
           s == Closed(d, "held")
           n == [s EXCEPT !.reported = c]
<1>1. TypeOK
  BY DEF IInv
<1>2. /\ k \in DOMAIN deliveries[m] /\ d.current /\ d \in Row /\ RowOK(d)
      /\ d.state \in Live /\ d.receipt = c /\ ~d.effect
      /\ LiveEffect(m) <=> d.effect
  BY FencedRow DEF Hold
<1>3. /\ s \in Row /\ RowOK(s) /\ s.current = d.current /\ s.effect = d.effect
      /\ s.receipt = 0 /\ s.completed /\ s.claims = d.claims /\ s.state \notin Live
  <2>1. "held" \in States \ Live /\ "held" \notin Uncertain
    BY DEF States, Live, Uncertain
  <2> HIDE DEF d
  <2> QED BY <1>2, <2>1, ClosedOK
<1>4. c \in Nat /\ c # 0 /\ c = s.claims
  BY <1>2, <1>3 DEF RowOK, Row
<1>5. n \in Row /\ RowOK(n) /\ n.current /\ n.effect = d.effect
  <2> HIDE DEF s, d
  <2>1. n \in Row
    BY <1>3, <1>4 DEF Row
  <2> QED BY <1>2, <1>3, <1>4, <2>1 DEF Row, RowOK
<1>6. copies' \in Seq(Copy)
  BY <1>1, CopiesOK DEF TypeOK, Hold
<1>7. \A i \in Messages : LiveEffect(i)' <=> LiveEffect(i)
  BY DEF Hold, LiveEffect
<1>8. Write(m, k, n) /\ UNCHANGED <<messages, reconciled>>
  BY DEF Hold
<1> HIDE DEF d, n, s
<1>9. /\ deliveries' = [i \in Messages |-> deliveries'[i]]
      /\ \A i \in Messages : LedgerOf(deliveries'[i], LiveEffect(i)', reconciled'[i])
      /\ \A i \in Messages : HasRow(i)' => Sent(i)'
  BY <1>2, <1>5, <1>7, <1>8, WriteOK DEF d
<1> QED BY <1>1, <1>6, <1>9, Assemble DEF TypeOK, Hold

LEMMA BeginEffectStep ==
  ASSUME IInv, NEW r \in Runs, NEW m \in Messages, NEW k, NEW c, NEW key \in EffectKeys,
         BeginEffect(r, m, k, c, key)
  PROVE  IInv'
<1> DEFINE d == deliveries[m][k]
           n == [d EXCEPT !.state = "begun", !.effect = TRUE]
<1>1. TypeOK
  BY DEF IInv
<1>2. /\ k \in DOMAIN deliveries[m] /\ d.current /\ d \in Row /\ RowOK(d)
      /\ d.state \in Live
  BY FencedRow DEF BeginEffect
<1>3. n \in Row /\ RowOK(n) /\ n.current /\ n.effect
  <2>1. n \in Row
    BY <1>2 DEF Row, States
  <2> QED BY <1>2, <2>1 DEF Row, RowOK, Live
<1>4. effects' \in [Messages -> [key: EffectKeys \cup {NoKey}, reset: BOOLEAN]]
  BY <1>1 DEF TypeOK, BeginEffect
<1>5. LiveEffect(m)' /\ \A i \in Messages : i # m => (LiveEffect(i)' <=> LiveEffect(i))
  BY <1>1, ActorAssumption DEF TypeOK, BeginEffect, LiveEffect
<1>6. Write(m, k, n) /\ UNCHANGED <<messages, reconciled>>
  BY DEF BeginEffect
<1> HIDE DEF d, n
<1>7. /\ deliveries' = [i \in Messages |-> deliveries'[i]]
      /\ \A i \in Messages : LedgerOf(deliveries'[i], LiveEffect(i)', reconciled'[i])
      /\ \A i \in Messages : HasRow(i)' => Sent(i)'
  BY <1>2, <1>3, <1>5, <1>6, WriteOK DEF d
<1> QED BY <1>1, <1>4, <1>7, Assemble DEF TypeOK, BeginEffect

-----------------------------------------------------------------------------
(* User verbs *)

LEMMA CancelStep ==
  ASSUME IInv, NEW m \in Messages, NEW k, NEW force \in BOOLEAN, Cancel(m, k, force)
  PROVE  IInv'
<1> DEFINE d == deliveries[m][k]
           n == Closed(d, "cancelled")
<1>1. TypeOK
  BY DEF IInv
<1>2. /\ k \in DOMAIN deliveries[m] /\ d.current /\ d \in Row /\ RowOK(d)
      /\ LiveEffect(m) <=> d.effect
      /\ ~d.effect
  BY CurrentIsNewest DEF Cancel, IsCurrent, CurrentRow
<1>3. n \in Row /\ RowOK(n) /\ n.current /\ n.effect = d.effect
  <2>1. "cancelled" \in States \ Live /\ "cancelled" \notin Uncertain
    BY DEF States, Live, Uncertain
  <2> HIDE DEF d
  <2> QED BY <1>2, <2>1, ClosedOK
<1>4. copies' \in Seq(Copy)
  BY <1>1, CopiesOK DEF TypeOK, Cancel
<1>5. \A i \in Messages : LiveEffect(i)' <=> LiveEffect(i)
  BY DEF Cancel, LiveEffect
<1>6. Write(m, k, n) /\ UNCHANGED <<messages, reconciled>>
  BY DEF Cancel
<1> HIDE DEF d, n
<1>7. /\ deliveries' = [i \in Messages |-> deliveries'[i]]
      /\ \A i \in Messages : LedgerOf(deliveries'[i], LiveEffect(i)', reconciled'[i])
      /\ \A i \in Messages : HasRow(i)' => Sent(i)'
  BY <1>2, <1>3, <1>5, <1>6, WriteOK DEF d
<1> QED BY <1>1, <1>4, <1>7, Assemble DEF TypeOK, Cancel

LEMMA RedispatchOK ==
  ASSUME IInv, NEW m \in Messages, NEW k \in DOMAIN deliveries[m], deliveries[m][k].current,
         NEW old \in Row, RowOK(old), ~old.current, old.effect = deliveries[m][k].effect,
         Redispatch(m, k, old),
         UNCHANGED messages,
         \A n \in Messages : n # m => /\ LiveEffect(n)' <=> LiveEffect(n)
                                      /\ reconciled'[n] = reconciled[n],
         ~LiveEffect(m)',
         reconciled[m] \subseteq reconciled'[m],
         old.effect => <<k, "not_applied">> \in reconciled'[m]
  PROVE  /\ copies' \in Seq(Copy)
         /\ deliveries' = [n \in Messages |-> deliveries'[n]]
         /\ \A n \in Messages : LedgerOf(deliveries'[n], LiveEffect(n)', reconciled'[n])
         /\ \A n \in Messages : HasRow(n)' => Sent(n)'
<1> DEFINE d == NewRow(Len(copies) + 1, old.chain + 1, 1)
<1>1. deliveries \in [Messages -> Seq(Row)] /\ copies \in Seq(Copy)
  BY DEF IInv, TypeOK
<1>2. copies' \in Seq(Copy) /\ Len(copies) + 1 \in Nat
  BY <1>1, CopiesOK DEF Redispatch
<1>3. old.chain + 1 \in Nat /\ 1 \in 1 .. MaxAttempts
  BY BoundAssumption DEF Row
<1>4. d \in Row /\ RowOK(d) /\ d.current /\ ~d.effect
  BY <1>2, <1>3, NewRowOK
<1>5. /\ deliveries' = [n \in Messages |-> deliveries'[n]]
      /\ \A n \in Messages : n # m => deliveries'[n] = deliveries[n]
      /\ deliveries'[m] = Append([deliveries[m] EXCEPT ![k] = old], d)
  BY <1>1 DEF Redispatch
<1> HIDE DEF d
<1>6. LedgerOf(deliveries[m], LiveEffect(m), reconciled[m]) /\ LiveEffect(m) \in BOOLEAN
  BY DEF IInv, LiveEffect
<1>7. k \in 1 .. Len(deliveries[m]) /\ k = Len(deliveries[m]) /\ HasRow(m)
  BY CurrentIsNewest
<1>8. LedgerOf(deliveries'[m], FALSE, reconciled'[m])
  <2> DEFINE rows == deliveries[m]
             rec == reconciled[m]
             also == reconciled'[m]
             live == LiveEffect(m)
  <2>1. LedgerOf(rows, live, rec) /\ live \in BOOLEAN
    BY <1>6
  <2>2. k \in 1 .. Len(rows) /\ k = Len(rows)
    BY <1>7
  <2>3. old.effect <=> rows[k].effect
    OBVIOUS
  <2>4. rec \subseteq also /\ (old.effect => <<k, "not_applied">> \in also)
    OBVIOUS
  <2>5. deliveries'[m] = Append([rows EXCEPT ![k] = old], d)
    BY <1>5
  <2> HIDE DEF rows, rec, also, live
  <2>6. LedgerOf(Append([rows EXCEPT ![k] = old], d), FALSE, also)
    BY <1>4, <2>1, <2>2, <2>3, <2>4, AppendSuccessor
  <2> QED BY <2>5, <2>6 DEF also
<1>9. LiveEffect(m)' = FALSE
  BY DEF LiveEffect
<1>10. \A n \in Messages : n # m => LedgerOf(deliveries'[n], LiveEffect(n)', reconciled'[n])
  <2> SUFFICES ASSUME NEW n \in Messages, n # m
               PROVE  LedgerOf(deliveries'[n], LiveEffect(n)', reconciled'[n])
    OBVIOUS
  <2>1. LiveEffect(n)' = LiveEffect(n)
    BY DEF LiveEffect
  <2> QED BY <1>5, <2>1 DEF IInv
<1>11. \A n \in Messages : HasRow(n)' => Sent(n)'
  BY <1>5, <1>7 DEF IInv, HasRow, Sent
<1> QED BY <1>2, <1>5, <1>8, <1>9, <1>10, <1>11

LEMMA ReplayReleaseStep ==
  ASSUME IInv, NEW m \in Messages, NEW k, Replay(m, k) \/ Release(m, k)
  PROVE  IInv'
<1> DEFINE d == deliveries[m][k]
           old == Superseded(d)
<1>1. TypeOK
  BY DEF IInv
<1>2. /\ k \in DOMAIN deliveries[m] /\ d.current /\ d \in Row /\ RowOK(d)
      /\ d.state \notin Live /\ ~d.effect /\ ~LiveEffect(m)
  BY CurrentIsNewest DEF Replay, Release, Redispatchable, IsCurrent, Live
<1>3. old \in Row /\ RowOK(old) /\ ~old.current /\ old.effect = d.effect
  <2> HIDE DEF d
  <2> QED BY <1>2, SupersededOK
<1>4. /\ Redispatch(m, k, old)
      /\ UNCHANGED <<messages, effects, reconciled, status, gate, restores>>
  BY DEF Replay, Release
<1>5. \A n \in Messages : LiveEffect(n)' <=> LiveEffect(n)
  BY <1>4 DEF LiveEffect
<1> HIDE DEF d, old
<1>6. /\ copies' \in Seq(Copy)
      /\ deliveries' = [n \in Messages |-> deliveries'[n]]
      /\ \A n \in Messages : LedgerOf(deliveries'[n], LiveEffect(n)', reconciled'[n])
      /\ \A n \in Messages : HasRow(n)' => Sent(n)'
  BY <1>2, <1>3, <1>4, <1>5, RedispatchOK DEF d
<1> QED BY <1>1, <1>4, <1>6, Assemble DEF TypeOK

LEMMA ReconcileStep ==
  ASSUME IInv, NEW m \in Messages, NEW k,
         \/ ReconcileUnknown(m, k)
         \/ ReconcileApplied(m, k)
         \/ ReconcileNotApplied(m, k)
  PROVE  IInv'
<1> DEFINE d == deliveries[m][k]
<1>1. TypeOK
  BY DEF IInv
<1>2. /\ k \in DOMAIN deliveries[m] /\ k \in Nat /\ d.current /\ d \in Row /\ RowOK(d)
      /\ d.state \in Uncertain /\ d.effect /\ LiveEffect(m)
  BY CurrentIsNewest
     DEF ReconcileUnknown, ReconcileApplied, ReconcileNotApplied, Reconcilable, IsCurrent
<1>3. CASE ReconcileUnknown(m, k)
  <2>1. reconciled' \in [Messages -> SUBSET (Nat \X Outcomes)]
    BY <1>1, <1>2, <1>3 DEF TypeOK, ReconcileUnknown, Outcomes
  <2>2. \A n \in Messages : reconciled[n] \subseteq reconciled'[n]
    BY <1>1, <1>3 DEF TypeOK, ReconcileUnknown
  <2>3. deliveries' = deliveries /\ \A n \in Messages : LiveEffect(n)' = LiveEffect(n)
    BY <1>3 DEF ReconcileUnknown, LiveEffect
  <2>4. \A n \in Messages : LedgerOf(deliveries'[n], LiveEffect(n)', reconciled'[n])
    BY <2>2, <2>3 DEF IInv, LedgerOf
  <2>5. \A n \in Messages : HasRow(n)' => Sent(n)'
    BY <1>3 DEF IInv, HasRow, Sent, ReconcileUnknown
  <2>6. deliveries' = [n \in Messages |-> deliveries'[n]]
    BY <1>1, <2>3 DEF TypeOK
  <2> QED BY <1>1, <1>3, <2>1, <2>4, <2>5, <2>6, Assemble DEF TypeOK, ReconcileUnknown
<1>4. CASE ReconcileApplied(m, k)
  <2> DEFINE n == [d EXCEPT !.state = "succeeded"]
  <2>1. n \in Row /\ RowOK(n) /\ n.current /\ n.effect
    BY <1>2 DEF Row, RowOK, States, Live, Uncertain
  <2>2. reconciled' \in [Messages -> SUBSET (Nat \X Outcomes)]
    BY <1>1, <1>2, <1>4 DEF TypeOK, ReconcileApplied, Outcomes
  <2>3. \A i \in Messages : reconciled[i] \subseteq reconciled'[i]
    BY <1>1, <1>4 DEF TypeOK, ReconcileApplied
  <2>4. \A i \in Messages : LiveEffect(i)' = LiveEffect(i)
    BY <1>4 DEF ReconcileApplied, LiveEffect
  <2>5. deliveries' = [deliveries EXCEPT ![m][k] = n]
    BY <1>4 DEF ReconcileApplied, Write
  <2> HIDE DEF n
  <2>6. LedgerOf([deliveries[m] EXCEPT ![k] = n], LiveEffect(m), reconciled[m])
    <3>1. LedgerOf(deliveries[m], LiveEffect(m), reconciled[m]) /\ LiveEffect(m) \in BOOLEAN
      BY DEF IInv, LiveEffect
    <3>2. k \in 1 .. Len(deliveries[m]) /\ k = Len(deliveries[m])
      BY <1>2, CurrentIsNewest
    <3> HIDE DEF d
    <3> QED BY <1>2, <2>1, <3>1, <3>2, ReplaceNewest
  <2>7. /\ deliveries' = [i \in Messages |-> deliveries'[i]]
        /\ deliveries'[m] = [deliveries[m] EXCEPT ![k] = n]
        /\ \A i \in Messages : i # m => deliveries'[i] = deliveries[i]
    BY <1>1, <2>5 DEF TypeOK
  <2>8. \A i \in Messages : LedgerOf(deliveries'[i], LiveEffect(i)', reconciled'[i])
    <3>1. LedgerOf(deliveries'[m], LiveEffect(m)', reconciled'[m])
      BY <2>3, <2>4, <2>6, <2>7 DEF LedgerOf
    <3>2. ASSUME NEW i \in Messages, i # m
          PROVE  LedgerOf(deliveries'[i], LiveEffect(i)', reconciled'[i])
      BY <2>3, <2>4, <2>7, <3>2 DEF IInv, LedgerOf
    <3> QED BY <3>1, <3>2
  <2>9. \A i \in Messages : HasRow(i)' => Sent(i)'
    <3>1. HasRow(m)
      BY <1>2 DEF HasRow
    <3> QED BY <1>4, <2>7, <3>1 DEF IInv, HasRow, Sent, ReconcileApplied
  <2> QED BY <1>1, <1>4, <2>2, <2>7, <2>8, <2>9, Assemble DEF TypeOK, ReconcileApplied
<1>5. CASE ReconcileNotApplied(m, k)
  <2> DEFINE s == Superseded(d)
             old == [s EXCEPT !.state = "cancelled"]
  <2>1. s \in Row /\ RowOK(s) /\ ~s.current /\ s.effect = d.effect /\ s.state = d.state
    <3> HIDE DEF d
    <3> QED BY <1>2, SupersededOK DEF Live, Uncertain
  <2>2. old \in Row /\ RowOK(old) /\ ~old.current /\ old.effect
    <3>1. d.effect /\ d.state \in Uncertain
      BY <1>2
    <3> HIDE DEF s, d
    <3> QED BY <2>1, <3>1 DEF Row, RowOK, States, Live, Uncertain
  <2>3. effects' \in [Messages -> [key: EffectKeys \cup {NoKey}, reset: BOOLEAN]]
    BY <1>1, <1>5 DEF TypeOK, ReconcileNotApplied
  <2>4. ~LiveEffect(m)' /\ \A i \in Messages : i # m => (LiveEffect(i)' <=> LiveEffect(i))
    BY <1>1, <1>5 DEF TypeOK, ReconcileNotApplied, LiveEffect
  <2>5. reconciled' \in [Messages -> SUBSET (Nat \X Outcomes)]
    BY <1>1, <1>2, <1>5 DEF TypeOK, ReconcileNotApplied, Outcomes
  <2>6. /\ \A i \in Messages : i # m => reconciled'[i] = reconciled[i]
        /\ reconciled[m] \subseteq reconciled'[m]
        /\ <<k, "not_applied">> \in reconciled'[m]
    BY <1>1, <1>5 DEF TypeOK, ReconcileNotApplied
  <2>7. Redispatch(m, k, old) /\ UNCHANGED messages
    BY <1>5 DEF ReconcileNotApplied
  <2> HIDE DEF s, old, d
  <2>8. /\ copies' \in Seq(Copy)
        /\ deliveries' = [i \in Messages |-> deliveries'[i]]
        /\ \A i \in Messages : LedgerOf(deliveries'[i], LiveEffect(i)', reconciled'[i])
        /\ \A i \in Messages : HasRow(i)' => Sent(i)'
    BY <1>2, <2>2, <2>4, <2>6, <2>7, RedispatchOK DEF d
  <2> QED BY <1>1, <1>5, <2>3, <2>5, <2>8, Assemble DEF TypeOK, ReconcileNotApplied
<1> QED BY <1>3, <1>4, <1>5

-----------------------------------------------------------------------------
(* Verbs that visit several messages *)

(* A function over the domain of copies is again a pair of PGMQ tables. *)
LEMMA MappedCopies ==
  ASSUME copies \in Seq(Copy), NEW f, DOMAIN f = DOMAIN copies,
         f = [p \in DOMAIN copies |-> f[p]],
         \A p \in DOMAIN copies : copies[p] \in Copy => f[p] \in Copy
  PROVE  f \in Seq(Copy)
<1>1. DOMAIN copies = 1 .. Len(copies) /\ Len(copies) \in Nat
  OBVIOUS
<1>2. \A p \in DOMAIN copies : copies[p] \in Copy
  OBVIOUS
<1>3. f \in [1 .. Len(copies) -> Copy]
  BY <1>1, <1>2
<1> QED BY <1>1, <1>3, SeqDef

LEMMA CopyForms ==
  ASSUME NEW c \in Copy
  PROVE  /\ Archived(c) \in Copy
         /\ \A t \in Int : [c EXCEPT !.vt = t] \in Copy
         /\ [c EXCEPT !.scrubbed = TRUE] \in Copy
         /\ [c EXCEPT !.table = "gone"] \in Copy
<1>1. Never \in Int
  BY TimeAssumption DEF Never, Floor
<1>2. Archived(c) \in Copy
  BY <1>1 DEF Archived, Copy
<1> QED BY <1>2 DEF Copy

(* A verb after which each message's rows are as before or have a new      *)
(* version of the current row.                                             *)
LEMMA SweepOK ==
  ASSUME IInv, UNCHANGED <<messages, effects, reconciled>>,
         deliveries' = [m \in Messages |-> deliveries'[m]],
         \A m \in Messages :
           \/ deliveries'[m] = deliveries[m]
           \/ /\ HasCurrent(m)
              /\ \E d \in Row : /\ RowOK(d) /\ d.current /\ d.effect = CurrentRow(m).effect
                                /\ deliveries'[m] = Put(m, d)
  PROVE  /\ \A m \in Messages : LedgerOf(deliveries'[m], LiveEffect(m)', reconciled'[m])
         /\ \A m \in Messages : HasRow(m)' => Sent(m)'
<1>1. \A m \in Messages : LiveEffect(m)' = LiveEffect(m)
  BY DEF LiveEffect
<1>2. \A m \in Messages : LedgerOf(deliveries'[m], LiveEffect(m)', reconciled'[m])
  BY <1>1, PutOK DEF IInv
<1>3. \A m \in Messages : HasRow(m)' => HasRow(m)
  BY CurrentIsNewest DEF HasRow
<1> QED BY <1>2, <1>3 DEF IInv, Sent

LEMMA RevokeStep ==
  ASSUME IInv, NEW p \in Revocable, Revoke(p)
  PROVE  IInv'
<1>1. TypeOK
  BY DEF IInv
<1>2. status' \in [Principals -> {"active", "revoked"}]
  BY <1>1 DEF TypeOK, Revoke
<1>3. copies' \in Seq(Copy)
  BY <1>1, CopyForms, MappedCopies DEF TypeOK, Revoke
<1>4. deliveries' = [m \in Messages |-> deliveries'[m]]
  BY DEF Revoke
<1>5. \A m \in Messages :
        \/ deliveries'[m] = deliveries[m]
        \/ /\ HasCurrent(m)
           /\ \E d \in Row : /\ RowOK(d) /\ d.current /\ d.effect = CurrentRow(m).effect
                             /\ deliveries'[m] = Put(m, d)
  <2> SUFFICES ASSUME NEW m \in Messages, m \in Paused(p)
               PROVE  /\ HasCurrent(m)
                      /\ \E d \in Row : /\ RowOK(d) /\ d.current
                                        /\ d.effect = CurrentRow(m).effect
                                        /\ deliveries'[m] = Put(m, d)
    BY DEF Revoke
  <2> DEFINE c == CurrentRow(m)
             n == Closed(c, "effect-paused")
  <2>1. HasCurrent(m) /\ c.state = "begun"
    BY DEF Paused
  <2>2. c \in Row /\ RowOK(c) /\ c.current /\ c.effect
    BY <2>1, CurrentIsNewest DEF RowOK
  <2>3. n \in Row /\ RowOK(n) /\ n.current /\ n.effect = c.effect
    <3>1. "effect-paused" \in States \ Live /\ "effect-paused" \in Uncertain
      BY DEF States, Live, Uncertain
    <3> HIDE DEF c
    <3> QED BY <2>2, <3>1, ClosedOK
  <2>4. deliveries'[m] = Put(m, n)
    BY DEF Revoke
  <2> HIDE DEF n
  <2> QED BY <2>1, <2>3, <2>4
<1>6. /\ \A m \in Messages : LedgerOf(deliveries'[m], LiveEffect(m)', reconciled'[m])
      /\ \A m \in Messages : HasRow(m)' => Sent(m)'
  BY <1>4, <1>5, SweepOK DEF Revoke
<1> QED BY <1>1, <1>2, <1>3, <1>4, <1>6, Assemble DEF TypeOK, Revoke

LEMMA RestoreBatchStep ==
  ASSUME IInv, RestoreBatch
  PROVE  IInv'
<1>1. TypeOK
  BY DEF IInv
<1>2. PICK batch \in SUBSET InFlight :
        /\ \A m \in batch : Consistent(m)
        /\ deliveries' = [m \in Messages |->
             IF m \in batch THEN Put(m, Restored(CurrentRow(m))) ELSE deliveries[m]]
        /\ copies' = [p \in DOMAIN copies |->
             IF \E m \in batch : CurrentRow(m).pid = p /\ CurrentRow(m).state = "leased"
             THEN [copies[p] EXCEPT !.vt = RetryDelay]
             ELSE IF \E m \in batch : CurrentRow(m).pid = p THEN Archived(copies[p])
             ELSE copies[p]]
  BY DEF RestoreBatch
<1>3. copies' \in Seq(Copy)
  <2>1. RetryDelay \in Int
    BY TimeAssumption
  <2> QED BY <1>1, <1>2, <2>1, CopyForms, MappedCopies DEF TypeOK
<1>4. deliveries' = [m \in Messages |-> deliveries'[m]]
  BY <1>2
<1>5. \A m \in Messages :
        \/ deliveries'[m] = deliveries[m]
        \/ /\ HasCurrent(m)
           /\ \E d \in Row : /\ RowOK(d) /\ d.current /\ d.effect = CurrentRow(m).effect
                             /\ deliveries'[m] = Put(m, d)
  <2> SUFFICES ASSUME NEW m \in Messages, m \in batch
               PROVE  /\ HasCurrent(m)
                      /\ \E d \in Row : /\ RowOK(d) /\ d.current
                                        /\ d.effect = CurrentRow(m).effect
                                        /\ deliveries'[m] = Put(m, d)
    BY <1>2
  <2> DEFINE c == CurrentRow(m)
             n == Restored(c)
  <2>1. HasCurrent(m) /\ c.state \in Live
    BY DEF InFlight
  <2>2. c \in Row /\ RowOK(c) /\ c.current
    BY <2>1, CurrentIsNewest
  <2>3. c.state = "leased" => ~c.effect
    BY <1>2 DEF Consistent
  <2>4. n \in Row /\ RowOK(n) /\ n.current /\ n.effect = c.effect
    <3> HIDE DEF c
    <3> QED BY <2>1, <2>2, <2>3, RestoredOK
  <2>5. deliveries'[m] = Put(m, n)
    BY <1>2
  <2> HIDE DEF n
  <2> QED BY <2>1, <2>4, <2>5
<1>6. /\ \A m \in Messages : LedgerOf(deliveries'[m], LiveEffect(m)', reconciled'[m])
      /\ \A m \in Messages : HasRow(m)' => Sent(m)'
  BY <1>4, <1>5, SweepOK DEF RestoreBatch
<1> QED BY <1>1, <1>3, <1>4, <1>6, Assemble DEF TypeOK, RestoreBatch

LEMMA PurgeStep ==
  ASSUME IInv, Purge
  PROVE  IInv'
<1>1. TypeOK
  BY DEF IInv
<1>2. copies' \in Seq(Copy)
  BY <1>1, CopyForms, MappedCopies DEF TypeOK, Purge
<1>3. deliveries' = [m \in Messages |-> deliveries'[m]]
  BY <1>1 DEF TypeOK, Purge
<1>4. /\ \A m \in Messages : LedgerOf(deliveries'[m], LiveEffect(m)', reconciled'[m])
      /\ \A m \in Messages : HasRow(m)' => Sent(m)'
  BY <1>3, SweepOK DEF Purge
<1> QED BY <1>1, <1>2, <1>3, <1>4, Assemble DEF TypeOK, Purge

LEMMA GateStep ==
  ASSUME IInv, Restore \/ OpenGate \/ UNCHANGED vars
  PROVE  IInv'
<1>1. TypeOK
  BY DEF IInv
<1>2. UNCHANGED <<messages, deliveries, copies, effects, reconciled, status>>
      /\ gate' \in BOOLEAN /\ restores' \in Nat
  <2>1. CASE Restore
    BY <1>1, <2>1 DEF TypeOK, Restore
  <2>2. CASE OpenGate
    BY <1>1, <2>2 DEF TypeOK, OpenGate
  <2>3. CASE UNCHANGED vars
    BY <1>1, <2>3 DEF TypeOK, vars
  <2> QED BY <2>1, <2>2, <2>3
<1>3. deliveries' = [m \in Messages |-> deliveries'[m]]
  BY <1>1, <1>2 DEF TypeOK
<1>4. /\ \A m \in Messages : LedgerOf(deliveries'[m], LiveEffect(m)', reconciled'[m])
      /\ \A m \in Messages : HasRow(m)' => Sent(m)'
  BY <1>2, <1>3, SweepOK
<1> QED BY <1>1, <1>2, <1>3, <1>4, Assemble DEF TypeOK

-----------------------------------------------------------------------------
(* Time *)

Aged(d) == [d EXCEPT !.lease = Elapsed(@, Floor), !.next = Elapsed(@, Floor)]

LEMMA AgedOK ==
  ASSUME NEW d \in Row, RowOK(d)
  PROVE  /\ Aged(d) \in Row /\ RowOK(Aged(d))
         /\ Aged(d).current = d.current /\ Aged(d).effect = d.effect
<1> DEFINE l == Elapsed(d.lease, Floor)
           n == Elapsed(d.next, Floor)
<1>1. l \in Never .. LeaseTime /\ n \in Never .. RetryDelay
  <2>1. d.lease \in Never .. LeaseTime /\ d.next \in Never .. RetryDelay
    BY DEF Row
  <2> QED BY <2>1, TimeAssumption DEF Elapsed, Never, Floor
<1>2. Aged(d) = [d EXCEPT !.lease = l, !.next = n]
  BY DEF Aged, Row
<1> HIDE DEF l, n
<1>3. Aged(d) \in Row
  BY <1>1, <1>2 DEF Row
<1>4. /\ Aged(d).state = d.state /\ Aged(d).receipt = d.receipt
      /\ Aged(d).claims = d.claims /\ Aged(d).reported = d.reported
      /\ Aged(d).completed = d.completed /\ Aged(d).attempt = d.attempt
      /\ Aged(d).current = d.current /\ Aged(d).effect = d.effect
      /\ Aged(d).consumer = d.consumer
  BY <1>2 DEF Row
<1> QED BY <1>3, <1>4 DEF RowOK

LEMMA TickStep ==
  ASSUME IInv, Tick
  PROVE  IInv'
<1>1. TypeOK
  BY DEF IInv
<1>2. messages' \in [Messages -> [pid: Nat, hash: Payloads \cup {NoPayload}, ttl: Nat]]
  <2>1. \A t \in Nat : Elapsed(t, 0) \in Nat
    BY DEF Elapsed
  <2> QED BY <1>1, <2>1 DEF TypeOK, Tick
<1>3. copies' \in Seq(Copy)
  <2>1. \A t \in Int : Elapsed(t, Floor) \in Int
    BY DEF Elapsed
  <2>2. \A c \in Copy : [c EXCEPT !.vt = Elapsed(@, Floor)] \in Copy
    BY <2>1, CopyForms DEF Copy
  <2> QED BY <1>1, <2>2, MappedCopies DEF TypeOK, Tick
<1>4. deliveries' = [m \in Messages |-> deliveries'[m]]
  BY DEF Tick
<1>5. \A m \in Messages : LedgerOf(deliveries'[m], LiveEffect(m)', reconciled'[m])
  <2> SUFFICES ASSUME NEW m \in Messages
               PROVE  LedgerOf(deliveries'[m], LiveEffect(m)', reconciled'[m])
    OBVIOUS
  <2> DEFINE rows == deliveries[m]
             aged == [k \in 1 .. Len(rows) |-> Aged(rows[k])]
  <2>1. LedgerOf(rows, LiveEffect(m), reconciled[m])
    BY DEF IInv
  <2>2. DOMAIN rows = 1 .. Len(rows) /\ Len(rows) \in Nat
    BY CurrentIsNewest
  <2>3. deliveries'[m] = aged
    BY <2>2 DEF Tick, Aged
  <2>4. LiveEffect(m)' = LiveEffect(m) /\ reconciled' = reconciled
    BY DEF Tick, LiveEffect
  <2> HIDE DEF rows
  <2>5. \A k \in 1 .. Len(rows) : /\ aged[k] \in Row /\ RowOK(aged[k])
                                  /\ aged[k].current = rows[k].current
                                  /\ aged[k].effect = rows[k].effect
    <3>1. rows \in Seq(Row) /\ \A k \in 1 .. Len(rows) : RowOK(rows[k])
      BY <2>1 DEF LedgerOf
    <3>2. \A k \in 1 .. Len(rows) : rows[k] \in Row /\ RowOK(rows[k])
      BY <2>2, <3>1
    <3> QED BY <3>2, AgedOK
  <2>6. aged \in [1 .. Len(rows) -> Row]
    BY <2>5
  <2>7. aged \in Seq(Row) /\ Len(aged) = Len(rows)
    BY <2>2, <2>6, SeqDef
  <2> HIDE DEF aged
  <2>8. /\ \A k \in 1 .. Len(rows) : rows[k].current <=> k = Len(rows)
        /\ LiveEffect(m) <=> (Len(rows) > 0 /\ rows[Len(rows)].effect)
        /\ \A k \in 1 .. Len(rows) :
             k < Len(rows) /\ rows[k].effect => <<k, "not_applied">> \in reconciled[m]
    BY <2>1 DEF LedgerOf
  <2>9. Len(rows) > 0 => Len(rows) \in 1 .. Len(rows)
    BY <2>2
  <2>10. LedgerOf(aged, LiveEffect(m), reconciled[m])
    BY <2>2, <2>5, <2>7, <2>8, <2>9 DEF LedgerOf
  <2> QED BY <2>3, <2>4, <2>10
<1>6. \A m \in Messages : HasRow(m)' => Sent(m)'
  <2> SUFFICES ASSUME NEW m \in Messages, deliveries'[m] # <<>>
               PROVE  messages'[m].pid # 0
    BY DEF HasRow, Sent
  <2>1. messages'[m].pid = messages[m].pid
    BY <1>1 DEF TypeOK, Tick
  <2>2. HasRow(m)
    <3>1. \A k \in DOMAIN deliveries'[m] : k \in DOMAIN deliveries[m]
      BY DEF Tick
    <3>2. deliveries'[m] \in Seq(Row)
      BY <1>5 DEF LedgerOf
    <3>3. 1 \in DOMAIN deliveries'[m]
      BY <3>2
    <3>4. 1 \in DOMAIN deliveries[m]
      BY <3>1, <3>3
    <3> QED BY <3>4 DEF HasRow
  <2> QED BY <2>1, <2>2 DEF IInv, Sent
<1> QED BY <1>1, <1>2, <1>3, <1>4, <1>5, <1>6, Assemble DEF TypeOK, Tick

-----------------------------------------------------------------------------
(* Claim *)

LEMMA PutAnyOK ==
  ASSUME IInv, NEW m \in Messages, HasClaimed(m),
         NEW d \in Row, RowOK(d), d.current, d.effect <=> LiveEffect(m)
  PROVE  LedgerOf(Put(m, d), LiveEffect(m), reconciled[m])
<1>1. CASE HasCurrent(m)
  <2>1. d.effect = CurrentRow(m).effect
    BY <1>1, CurrentIsNewest DEF Row
  <2> QED BY <1>1, <2>1, PutOK
<1>2. CASE ~HasCurrent(m)
  <2>1. LiveEffect(m) = FALSE
    BY <1>2, CurrentIsNewest DEF LiveEffect
  <2>2. Put(m, d) = <<d>>
    BY <1>2 DEF Put
  <2> QED BY <2>1, <2>2, FirstRow
<1> QED BY <1>1, <1>2

LEMMA ClaimedOK ==
  ASSUME IInv, NEW m \in Messages, HasClaimed(m)
  PROVE  /\ Claimed(m) \in Row /\ RowOK(Claimed(m)) /\ Claimed(m).current
         /\ Claimed(m).effect <=> LiveEffect(m)
         /\ Sent(m)
         /\ ~HasCurrent(m) => ~Claimed(m).completed /\ Claimed(m).state = "ready"
<1>1. CASE HasCurrent(m)
  BY <1>1, CurrentIsNewest DEF Claimed, IInv
<1>2. CASE ~HasCurrent(m)
  <2>1. messages[m].pid \in Nat /\ 1 \in Nat /\ 1 \in 1 .. MaxAttempts
    BY BoundAssumption DEF IInv, TypeOK
  <2>2. Claimed(m) = NewRow(messages[m].pid, 1, 1)
    BY <1>2 DEF Claimed
  <2>3. ~LiveEffect(m) /\ Sent(m)
    BY <1>2, CurrentIsNewest DEF HasClaimed
  <2>4. Claimed(m).state = "ready"
    BY <2>2 DEF NewRow
  <2> QED BY <2>1, <2>2, <2>3, <2>4, NewRowOK
<1> QED BY <1>1, <1>2

LEMMA AfterExpiryOK ==
  ASSUME IInv, NEW m \in Messages, HasClaimed(m),
         Claimed(m).state \in Live => Due(Claimed(m).lease)
  PROVE  /\ AfterExpiry(m) \in Row /\ RowOK(AfterExpiry(m)) /\ AfterExpiry(m).current
         /\ AfterExpiry(m).effect <=> LiveEffect(m)
         /\ AfterExpiry(m).state \notin Live
         /\ ~HasCurrent(m) => ~AfterExpiry(m).completed
<1>1. CASE Claimed(m).state \in Live
  <2> DEFINE d == Claimed(m)
  <2>1. /\ d \in Row /\ RowOK(d) /\ d.current /\ (d.effect <=> LiveEffect(m))
        /\ HasCurrent(m)
    BY <1>1, ClaimedOK DEF Live
  <2>2. AfterExpiry(m) = Settle(d, "expire")
    BY <1>1 DEF AfterExpiry
  <2> HIDE DEF d
  <2>3. d.state \in Live /\ Due(d.lease)
    BY <1>1 DEF d
  <2> QED BY <2>1, <2>2, <2>3, SettleOK
<1>2. CASE Claimed(m).state \notin Live
  BY <1>2, ClaimedOK DEF AfterExpiry
<1> QED BY <1>1, <1>2

LEMMA PassedOK ==
  ASSUME IInv, NEW m \in Messages, HasClaimed(m),
         Claimed(m).state \in Live => Due(Claimed(m).lease)
  PROVE  /\ Passed(m) \in Row /\ RowOK(Passed(m)) /\ Passed(m).current
         /\ Passed(m).effect <=> LiveEffect(m)
<1> DEFINE d == AfterExpiry(m)
<1>1. d \in Row /\ RowOK(d) /\ d.current /\ (d.effect <=> LiveEffect(m))
  BY AfterExpiryOK
<1>2. CASE d.state \in {"ready", "scheduled"} /\ Expired(m)
  <2>1. Passed(m) = Closed(d, "dead-lettered")
    BY <1>2 DEF Passed, DeadLetter
  <2>2. ~d.effect /\ "dead-lettered" \in States \ Live /\ "dead-lettered" \notin Uncertain
    BY <1>1, <1>2 DEF RowOK, States, Live, Uncertain
  <2> HIDE DEF d
  <2> QED BY <1>1, <2>1, <2>2, ClosedOK
<1>3. CASE ~(d.state \in {"ready", "scheduled"} /\ Expired(m))
  BY <1>1, <1>3 DEF Passed
<1> QED BY <1>2, <1>3

LEMMA GrantOK ==
  ASSUME IInv, NEW m \in Messages, NEW r \in Runs, HasClaimed(m), Grantable(m),
         Claimed(m).state \in Live => Due(Claimed(m).lease)
  PROVE  LedgerOf(Grant(m, r), LiveEffect(m), reconciled[m])
<1> DEFINE d == AfterExpiry(m)
<1>1. /\ d \in Row /\ RowOK(d) /\ d.current /\ (d.effect <=> LiveEffect(m))
      /\ d.state \notin Live /\ (~HasCurrent(m) => ~d.completed)
  BY AfterExpiryOK
<1>2. d.state \in {"ready", "scheduled"}
  BY DEF Grantable
<1>3. ~d.effect /\ LiveEffect(m) = FALSE
  BY <1>1, <1>2 DEF RowOK, Uncertain, LiveEffect
<1>4. CASE d.completed
  <2> DEFINE old == Superseded(d)
             new == NewRow(d.pid, d.chain, d.attempt + 1)
             rows == deliveries[m]
             k == Current(m)
  <2>1. /\ HasCurrent(m) /\ k \in 1 .. Len(rows) /\ k = Len(rows)
        /\ rows[k].effect <=> LiveEffect(m)
    BY <1>1, <1>4, CurrentIsNewest DEF CurrentRow
  <2>2. old \in Row /\ RowOK(old) /\ ~old.current /\ ~old.effect
    BY <1>1, <1>3, SupersededOK
  <2>3. d.attempt + 1 \in 1 .. MaxAttempts /\ d.pid \in Nat /\ d.chain \in Nat
    <3>1. d.attempt < MaxAttempts /\ d.attempt \in 1 .. MaxAttempts
      BY <1>1, <1>2, <1>4 DEF RowOK, Row
    <3> QED BY <1>1, <3>1, BoundAssumption DEF Row
  <2>4. /\ new \in Row /\ RowOK(new) /\ new.current /\ ~new.effect /\ ~new.completed
        /\ new.state = "ready"
    BY <2>3, NewRowOK DEF NewRow
  <2>5. /\ Leased(new, r) \in Row /\ RowOK(Leased(new, r)) /\ Leased(new, r).current
        /\ ~Leased(new, r).effect
    <3> HIDE DEF new
    <3> QED BY <2>4, LeasedOK
  <2>6. LedgerOf(rows, LiveEffect(m), reconciled[m])
    BY DEF IInv
  <2>7. Grant(m, r) = Append([rows EXCEPT ![k] = old], Leased(new, r))
    BY <1>4, <2>1 DEF Grant, Put
  <2> DEFINE leased == Leased(new, r)
  <2>8. /\ leased \in Row /\ RowOK(leased) /\ leased.current /\ ~leased.effect
        /\ Grant(m, r) = Append([rows EXCEPT ![k] = old], leased)
    BY <2>5, <2>7
  <2> DEFINE rec == reconciled[m]
  <2>9. LedgerOf(rows, FALSE, rec) /\ ~rows[k].effect
    BY <1>3, <2>1, <2>6
  <2> HIDE DEF d, old, new, rows, k, leased, rec
  <2>10. LedgerOf(Append([rows EXCEPT ![k] = old], leased), FALSE, rec)
    BY <2>1, <2>2, <2>8, <2>9, AppendSuccessor
  <2> QED BY <1>3, <2>8, <2>10 DEF rec
<1>5. CASE ~d.completed
  <2> DEFINE new == Leased(d, r)
  <2>1. new \in Row /\ RowOK(new) /\ new.current /\ new.effect = d.effect
    <3> HIDE DEF d
    <3> QED BY <1>1, <1>2, <1>5, LeasedOK
  <2>2. Grant(m, r) = Put(m, new)
    BY <1>5 DEF Grant
  <2> HIDE DEF new
  <2> QED BY <1>1, <2>1, <2>2, PutAnyOK
<1> QED BY <1>4, <1>5

(* A copy that is scanned and not stray has an owner whose lease, if any,  *)
(* is over.                                                                *)
LEMMA ScannedOwner ==
  ASSUME IInv, NEW lapsed \in SUBSET LapsedEffects, NEW stale \in SUBSET ExpiredWork,
         NEW p \in Scanned(lapsed \cup stale), ~Stray(p)
  PROVE  /\ \E m \in Messages : Reads(lapsed \cup stale, m, p)
         /\ \A m \in Messages : Reads(lapsed \cup stale, m, p) =>
              /\ HasClaimed(m)
              /\ Claimed(m).state \in Live => Due(Claimed(m).lease)
<1> DEFINE swept == lapsed \cup stale
<1>1. \A m \in swept : m \in Messages /\ HasCurrent(m)
  BY DEF LapsedEffects, ExpiredWork
<1>2. \A m \in swept : CurrentRow(m).pid # p
  BY DEF Scanned, Window
<1>3. PICK m \in Messages : HasClaimed(m) /\ Claimed(m).pid = p
  BY DEF Stray
<1>4. m \notin swept
  BY <1>1, <1>2, <1>3 DEF Claimed
<1>5. Reads(swept, m, p)
  BY <1>3, <1>4 DEF Reads
<1>6. \A n \in Messages : HasClaimed(n) /\ Claimed(n).pid = p =>
        (Claimed(n).state \in Live => Due(Claimed(n).lease))
  BY DEF Stray
<1> QED BY <1>5, <1>6 DEF Reads

LEMMA ClaimStep ==
  ASSUME IInv, NEW r \in Runs, Claim(r)
  PROVE  IInv'
<1>1. TypeOK
  BY DEF IInv
<1>2. PICK lapsed \in SUBSET LapsedEffects, stale \in SUBSET ExpiredWork :
        /\ \A p \in Scanned(lapsed \cup stale) : ~Stray(p)
        /\ deliveries' = [m \in Messages |-> RowsAfterClaim(r, lapsed, stale, m)]
        /\ copies' = [p \in DOMAIN copies |-> CopyAfterClaim(lapsed \cup stale, p)]
  BY DEF Claim
<1> DEFINE swept == lapsed \cup stale
           Met(m) == /\ HasClaimed(m)
                     /\ Claimed(m).state \in Live => Due(Claimed(m).lease)
<1>3. \A p \in Scanned(swept) : /\ \E m \in Messages : Reads(swept, m, p)
                                /\ \A m \in Messages : Reads(swept, m, p) => Met(m)
  BY <1>2, ScannedOwner
<1>4. copies' \in Seq(Copy)
  <2> SUFFICES ASSUME NEW p \in DOMAIN copies, copies[p] \in Copy
               PROVE  CopyAfterClaim(swept, p) \in Copy
    BY <1>1, <1>2, MappedCopies DEF TypeOK
  <2> DEFINE owner == CHOOSE m \in Messages : Reads(swept, m, p)
  <2>1. LeaseTime \in Int
    BY TimeAssumption
  <2>2. CASE p \in Scanned(swept)
    <3>1. owner \in Messages /\ Met(owner)
      BY <1>3, <2>2
    <3>2. Passed(owner).next \in Int
      <4>1. Passed(owner).next \in Never .. RetryDelay
        BY <3>1, PassedOK DEF Row
      <4> QED BY <4>1, TimeAssumption DEF Never, Floor
    <3> HIDE DEF owner
    <3>3. /\ Archived(copies[p]) \in Copy /\ [copies[p] EXCEPT !.vt = LeaseTime] \in Copy
          /\ [copies[p] EXCEPT !.vt = Passed(owner).next] \in Copy
      BY <2>1, <3>2, CopyForms
    <3> QED BY <3>3 DEF CopyAfterClaim, owner
  <2>3. CASE p \notin Scanned(swept)
    BY <2>3, CopyForms DEF CopyAfterClaim
  <2> QED BY <2>2, <2>3
<1>5. deliveries' = [m \in Messages |-> deliveries'[m]]
  BY <1>2
<1>6. \A m \in Messages : LiveEffect(m)' = LiveEffect(m)
  BY DEF Claim, LiveEffect
<1>7. \A m \in Messages : m \in Messages /\ deliveries'[m] = RowsAfterClaim(r, lapsed, stale, m)
  BY <1>2
<1>8. ASSUME NEW m \in Messages
      PROVE  /\ LedgerOf(deliveries'[m], LiveEffect(m), reconciled[m])
             /\ HasRow(m)' => Sent(m)
  <2> DEFINE c == CurrentRow(m)
             After == RowsAfterClaim(r, lapsed, stale, m)
             Seen == \E p \in DOMAIN copies : p \in Scanned(swept) /\ Reads(swept, m, p)
  <2>1. HasCurrent(m) => /\ c \in Row /\ RowOK(c) /\ c.current /\ (c.effect <=> LiveEffect(m))
                         /\ HasClaimed(m) /\ Claimed(m) = c
    BY CurrentIsNewest DEF HasClaimed, Claimed
  <2>2. Seen => Met(m)
    BY <1>3
  <2>3. CASE m \in lapsed
    <3> DEFINE n == Settle(c, "expire")
    <3>1. HasCurrent(m) /\ c.state \in Live /\ Due(c.lease)
      BY <2>3 DEF LapsedEffects, Live
    <3>2. n \in Row /\ RowOK(n) /\ n.current /\ (n.effect <=> LiveEffect(m))
      <4> HIDE DEF c
      <4> QED BY <2>1, <3>1, SettleOK
    <3>3. deliveries'[m] = Put(m, n)
      BY <1>7, <2>3 DEF RowsAfterClaim
    <3> HIDE DEF n, c
    <3> QED BY <2>1, <3>1, <3>2, <3>3, PutAnyOK, ClaimedOK
  <2>4. CASE m \notin lapsed /\ m \in stale
    <3> DEFINE n == Closed(c, "dead-lettered")
    <3>1. HasCurrent(m) /\ c.state \in {"ready", "scheduled"}
      BY <2>4 DEF ExpiredWork
    <3>2. n \in Row /\ RowOK(n) /\ n.current /\ (n.effect <=> LiveEffect(m))
      <4>1. ~c.effect /\ "dead-lettered" \in States \ Live /\ "dead-lettered" \notin Uncertain
        BY <2>1, <3>1 DEF RowOK, States, Live, Uncertain
      <4> HIDE DEF c
      <4> QED BY <2>1, <3>1, <4>1, ClosedOK
    <3>3. deliveries'[m] = Put(m, n)
      BY <1>7, <2>4 DEF RowsAfterClaim, DeadLetter
    <3> HIDE DEF n, c
    <3> QED BY <2>1, <3>1, <3>2, <3>3, PutAnyOK, ClaimedOK
  <2>5. CASE m \notin lapsed /\ m \notin stale /\ deliveries'[m] = Grant(m, r) /\ Grantable(m) /\ Seen
    BY <2>2, <2>5, GrantOK, ClaimedOK
  <2>6. CASE m \notin lapsed /\ m \notin stale /\ deliveries'[m] = Put(m, Passed(m)) /\ Seen
    BY <2>2, <2>6, PassedOK, PutAnyOK, ClaimedOK
  <2>7. CASE deliveries'[m] = deliveries[m]
    BY <2>7 DEF IInv, HasRow
  <2> QED BY <1>7, <2>3, <2>4, <2>5, <2>6, <2>7 DEF RowsAfterClaim
<1>9. /\ \A m \in Messages : LedgerOf(deliveries'[m], LiveEffect(m)', reconciled'[m])
      /\ \A m \in Messages : HasRow(m)' => Sent(m)'
  <2>1. reconciled' = reconciled /\ messages' = messages
    BY DEF Claim
  <2> QED BY <1>6, <1>8, <2>1 DEF Sent
<1> QED BY <1>1, <1>4, <1>5, <1>9, Assemble DEF TypeOK, Claim

-----------------------------------------------------------------------------
(* The invariant *)

LEMMA InductiveStep ==
  ASSUME IInv, [Next]_vars
  PROVE  IInv'
<1>1. CASE UNCHANGED vars
  BY <1>1, GateStep
<1>2. CASE \E r \in Runs, m \in Messages, h \in Payloads, ttl \in Retentions :
             Send(r, m, h, ttl)
  BY <1>2, SendStep
<1>3. CASE \E r \in Runs, found \in SUBSET DOMAIN Legacy :
             Recover(r, {Legacy[p] : p \in found})
  BY <1>3, RecoverStep
<1>4. CASE \E r \in Runs : Claim(r)
  BY <1>4, ClaimStep
<1>5. CASE ConsumerStep
  <2>1. PICK r \in Runs, m \in Messages : \E k \in RowIds(m) : \E c \in Receipts(m, k) :
          \/ Renew(r, m, k, c)
          \/ Ack(r, m, k, c)
          \/ Nack(r, m, k, c)
          \/ Hold(r, m, k, c)
          \/ \E key \in EffectKeys : BeginEffect(r, m, k, c, key)
    BY <1>5 DEF ConsumerStep
  <2> QED
    BY <2>1, RenewStep, ReportStep, HoldStep, BeginEffectStep DEF Ack, Nack
<1>6. CASE UserStep
  <2>1. PICK m \in Messages : \E k \in RowIds(m) :
          \/ Replay(m, k)
          \/ Release(m, k)
          \/ \E force \in BOOLEAN : Cancel(m, k, force)
          \/ ReconcileUnknown(m, k)
          \/ ReconcileApplied(m, k)
          \/ ReconcileNotApplied(m, k)
    BY <1>6 DEF UserStep
  <2> QED BY <2>1, ReplayReleaseStep, CancelStep, ReconcileStep DEF RowIds
<1>7. CASE \E p \in Revocable : Revoke(p)
  BY <1>7, RevokeStep
<1>8. CASE Purge
  BY <1>8, PurgeStep
<1>9. CASE Restore \/ OpenGate
  BY <1>9, GateStep
<1>10. CASE RestoreBatch
  BY <1>10, RestoreBatchStep
<1>11. CASE Tick
  BY <1>11, TickStep
<1> QED
  BY <1>1, <1>2, <1>3, <1>4, <1>5, <1>6, <1>7, <1>8, <1>9, <1>10, <1>11 DEF Next

(* Every reachable ledger satisfies the inductive invariant, for every set *)
(* of messages, runs and principals and every batch, retry and retention   *)
(* setting.                                                                *)
THEOREM LedgerInvariant == Spec => []IInv
<1>1. Init => IInv
  BY InitOK
<1>2. IInv /\ [Next]_vars => IInv'
  BY InductiveStep
<1> QED BY <1>1, <1>2, PTL DEF Spec

(* The tables only ever hold rows of their schema: no verb needs a CHECK   *)
(* constraint to stop it from writing an ill-formed row.                   *)
THEOREM TypeCorrect == Spec => []TypeOK
<1>1. IInv => TypeOK
  BY DEF IInv
<1> QED BY <1>1, LedgerInvariant, PTL

(* The newest delivery of a message is its one current delivery, whatever  *)
(* claims, redispatches and reconciliations went before.                   *)
THEOREM CurrentUnique == Spec => []OneCurrent
<1>1. IInv => OneCurrent
  <2> SUFFICES ASSUME IInv, NEW m \in Messages, NEW k \in DOMAIN deliveries[m]
               PROVE  deliveries[m][k].current <=> k = Len(deliveries[m])
    BY DEF OneCurrent
  <2> QED BY CurrentIsNewest DEF IInv, LedgerOf
<1> QED BY <1>1, LedgerInvariant, PTL

(* A delivery accepts at most the receipt of its latest claim, and none    *)
(* once it left the in-flight states.                                      *)
THEOREM ReceiptsFence == Spec => []ReceiptFence
<1>1. IInv => ReceiptFence
  <2> SUFFICES ASSUME IInv, NEW m \in Messages, NEW k \in DOMAIN deliveries[m]
               PROVE  RowOK(deliveries[m][k])
    BY DEF ReceiptFence, RowOK
  <2> QED BY CurrentIsNewest DEF IInv, LedgerOf
<1> QED BY <1>1, LedgerInvariant, PTL

(* The effects table and the current delivery agree on whether the effect  *)
(* of a message may have happened, and such a delivery is never            *)
(* dispatchable.                                                           *)
THEOREM EffectsOwned == Spec => []EffectOwned
<1>1. IInv => EffectOwned
  <2> SUFFICES ASSUME IInv, NEW m \in Messages
               PROVE  /\ LiveEffect(m) <=> HasCurrent(m) /\ CurrentRow(m).effect
                      /\ HasCurrent(m) => RowOK(CurrentRow(m)) /\ CurrentRow(m).current
    BY DEF EffectOwned, RowOK
  <2> QED BY CurrentIsNewest
<1> QED BY <1>1, LedgerInvariant, PTL

(* Two deliveries of one message both begin its effect only if the earlier *)
(* one was reconciled as not applied.                                      *)
THEOREM EffectsBegunOnce == Spec => []EffectBegunOnce
<1>1. IInv => EffectBegunOnce
  <2> SUFFICES ASSUME IInv, NEW m \in Messages,
                      NEW k \in DOMAIN deliveries[m], NEW j \in DOMAIN deliveries[m],
                      k < j, deliveries[m][k].effect
               PROVE  <<k, "not_applied">> \in reconciled[m]
    BY DEF EffectBegunOnce
  <2>1. k \in 1 .. Len(deliveries[m]) /\ k < Len(deliveries[m])
    BY CurrentIsNewest
  <2> QED BY <2>1 DEF IInv, LedgerOf
<1> QED BY <1>1, LedgerInvariant, PTL

(* A restore gate opens only on a ledger in which no receipt is accepted.  *)
THEOREM RestoresEndLeases == Spec => RestoreEndsLeases
<1> DEFINE NoLease == \A m \in Messages : \A k \in DOMAIN deliveries[m] :
                        deliveries[m][k].receipt = 0 /\ deliveries[m][k].state \notin Live
<1>1. ASSUME IInv, Next, gate, ~gate'
      PROVE  InFlight = {}
  <2>1. ~UNCHANGED gate
    BY <1>1
  <2>2. ConsumerStep => UNCHANGED gate
    BY DEF ConsumerStep, Renew, Ack, Nack, Report, Hold, BeginEffect
  <2>3. UserStep => UNCHANGED gate
    BY DEF UserStep, Replay, Release, Cancel, ReconcileUnknown, ReconcileApplied,
           ReconcileNotApplied
  <2>4. \A r \in Runs : Claim(r) => UNCHANGED gate
    BY DEF Claim
  <2>5. \A p \in Revocable : Revoke(p) => UNCHANGED gate
    BY DEF Revoke
  <2>6. (Purge \/ RestoreBatch \/ Tick) => UNCHANGED gate
    BY DEF Purge, RestoreBatch, Tick
  <2>7. Restore => gate'
    BY DEF Restore
  <2>8. (\E r \in Runs, m \in Messages, h \in Payloads, ttl \in Retentions : Send(r, m, h, ttl))
        => UNCHANGED gate
    BY DEF Send
  <2>9. (\E r \in Runs, found \in SUBSET DOMAIN Legacy :
           Recover(r, {Legacy[p] : p \in found})) => UNCHANGED gate
    BY DEF Recover
  <2>10. OpenGate
    BY <1>1, <2>1, <2>2, <2>3, <2>4, <2>5, <2>6, <2>7, <2>8, <2>9 DEF Next
  <2> QED BY <2>10 DEF OpenGate
<1>2. ASSUME IInv, InFlight = {}
      PROVE  NoLease
  <2> SUFFICES ASSUME NEW m \in Messages, NEW k \in DOMAIN deliveries[m]
               PROVE  deliveries[m][k].receipt = 0 /\ deliveries[m][k].state \notin Live
    OBVIOUS
  <2>1. RowOK(deliveries[m][k])
    BY <1>2, CurrentIsNewest DEF IInv, LedgerOf
  <2>2. CASE deliveries[m][k].current
    <3>1. HasCurrent(m) /\ CurrentRow(m) = deliveries[m][k]
      BY <1>2, <2>2, CurrentIsNewest DEF CurrentRow
    <3>2. deliveries[m][k].state \notin Live
      BY <1>2, <3>1 DEF InFlight
    <3> QED BY <2>1, <3>2 DEF RowOK
  <2>3. CASE ~deliveries[m][k].current
    BY <2>1, <2>3 DEF RowOK
  <2> QED BY <2>2, <2>3
<1>3. IInv /\ [Next]_vars => [gate /\ ~gate' => NoLease]_vars
  BY <1>1, <1>2
<1> QED BY <1>3, LedgerInvariant, PTL DEF Spec, RestoreEndsLeases

-----------------------------------------------------------------------------
(***************************************************************************)
(* The ledger and its dispatch table, for every set of messages, runs and  *)
(* principals: every message that is to be handed out has one copy in q_   *)
(* and q_ holds no other copy (Paired), the payload of an unexpired one is *)
(* there (Kept), and each step of the ledger is one of the promise of      *)
(* QueuePromise for every message.                                         *)
(*                                                                         *)
(* The invariants are operators of the rows, the messages and the copies,  *)
(* so that a step is a relation between two triples of them: Moved says    *)
(* what is to be shown of one, message by message.  What a verb does to    *)
(* the copies of other messages needs no case: a copy that serves a        *)
(* message is that message's (Served).                                     *)
(***************************************************************************)

(* The row that is handed out next: the newest one, or the first one of a  *)
(* message that has none; and whether it is to be handed out.              *)
Upcoming(rows, pid) == IF rows = <<>> THEN NewRow(pid, 1, 1) ELSE rows[Len(rows)]
Pending(rows, pid) == (rows # <<>> \/ pid # 0) /\ Upcoming(rows, pid).state \in Dispatchable

(* A copy is visible when its row says so. *)
Shows(d, vt) ==
  /\ d.state \in Live => vt = d.lease
  /\ d.state = "scheduled" => vt = d.next
  /\ d.state = "ready" => Due(vt)
InQueue(cs, m, p) == p \in DOMAIN cs /\ cs[p].table = "q" /\ cs[p].message = m

Served(rows, pid, cs, m) ==
  Pending(rows, pid) => LET d == Upcoming(rows, pid) IN InQueue(cs, m, d.pid) /\ Shows(d, cs[d.pid].vt)
Wanted(ds, ms, cs, p) ==
  LET m == cs[p].message IN Pending(ds[m], ms[m].pid) /\ Upcoming(ds[m], ms[m].pid).pid = p
Paired(ds, ms, cs) ==
  /\ \A m \in Messages : Served(ds[m], ms[m].pid, cs, m)
  /\ \A p \in DOMAIN cs : cs[p].table = "q" => Wanted(ds, ms, cs, p)

(* The original copy of a message, and its payload while it is not expired *)
Kept(message, cs, m) ==
  message.pid # 0 =>
    /\ message.pid \in DOMAIN cs /\ cs[message.pid].message = m
    /\ ~Due(message.ttl) => cs[message.pid].table \in {"q", "a"} /\ ~cs[message.pid].scrubbed

(* Nobody owns a row that is not in flight, and a ready one waits for      *)
(* nothing.                                                                *)
Free(d) ==
  /\ d.state \notin Live => d.consumer = NoRun
  /\ d.state = "ready" => d.next = Never
Freed(rows) == rows # <<>> => Free(rows[Len(rows)])

DInv ==
  /\ Paired(deliveries, messages, copies)
  /\ \A m \in Messages : Kept(messages[m], copies, m) /\ Freed(deliveries[m])

-----------------------------------------------------------------------------
(* One message: its row that counts, and its copy.                         *)

Up(m) == Upcoming(deliveries[m], messages[m].pid)
Waits(m) == Pending(deliveries[m], messages[m].pid)

LEMMA Rows ==
  ASSUME IInv, NEW m \in Messages
  PROVE  /\ deliveries[m] \in Seq(Row) /\ Len(deliveries[m]) \in Nat
         /\ messages[m].pid \in Nat
         /\ HasCurrent(m) <=> deliveries[m] # <<>>
         /\ HasCurrent(m) => /\ Up(m) = CurrentRow(m) /\ Up(m) = deliveries[m][Len(deliveries[m])]
                             /\ Current(m) = Len(deliveries[m]) /\ Current(m) \in DOMAIN deliveries[m]
         /\ Up(m) \in Row /\ RowOK(Up(m)) /\ Up(m).current
         /\ HasClaimed(m) <=> HasCurrent(m) \/ Sent(m)
         /\ HasClaimed(m) => Claimed(m) = Up(m)
         /\ Waits(m) <=> HasClaimed(m) /\ Up(m).state \in Dispatchable
         /\ LiveEffect(m) <=> Up(m).effect
<1>1. deliveries[m] \in Seq(Row) /\ Len(deliveries[m]) \in Nat /\ messages[m].pid \in Nat
  BY DEF IInv, TypeOK
<1>2. HasCurrent(m) <=> deliveries[m] # <<>>
  BY CurrentIsNewest DEF HasRow
<1>3. HasCurrent(m) => /\ Up(m) = CurrentRow(m) /\ Up(m) = deliveries[m][Len(deliveries[m])]
                       /\ Current(m) = Len(deliveries[m]) /\ Current(m) \in DOMAIN deliveries[m]
                       /\ Up(m) \in Row /\ RowOK(Up(m)) /\ Up(m).current
  BY <1>2, CurrentIsNewest DEF Up, Upcoming, CurrentRow
<1>4. ~HasCurrent(m) => /\ Up(m) = NewRow(messages[m].pid, 1, 1)
                        /\ Up(m) \in Row /\ RowOK(Up(m)) /\ Up(m).current /\ ~Up(m).effect
  BY <1>1, <1>2, NewRowOK, BoundAssumption DEF Up, Upcoming
<1>5. LiveEffect(m) <=> HasCurrent(m) /\ CurrentRow(m).effect
  BY CurrentIsNewest
<1>6. HasClaimed(m) <=> HasCurrent(m) \/ Sent(m)
  BY <1>2 DEF HasClaimed, HasRow
<1>7. HasClaimed(m) => Claimed(m) = Up(m)
  BY <1>3, <1>4 DEF Claimed
<1>8. Waits(m) <=> HasClaimed(m) /\ Up(m).state \in Dispatchable
  BY <1>2, <1>6 DEF Waits, Pending, Up, Sent
<1> QED BY <1>1, <1>2, <1>3, <1>4, <1>5, <1>6, <1>7, <1>8

LEMMA Ours ==
  ASSUME DInv, NEW m \in Messages, Waits(m)
  PROVE  InQueue(copies, m, Up(m).pid) /\ Shows(Up(m), copies[Up(m).pid].vt) /\ InQ(Up(m).pid)
BY DEF DInv, Paired, Served, Waits, Up, InQueue, InQ

(* No two messages share a copy. *)
LEMMA Distinct ==
  ASSUME DInv, NEW m \in Messages, NEW n \in Messages, Waits(m), Waits(n), Up(m).pid = Up(n).pid
  PROVE  m = n
BY Ours DEF InQueue

-----------------------------------------------------------------------------
(* A step, message by message.                                             *)

(* What m was waiting with is where it was, or m is not waiting with it    *)
(* any more and the copy has left q_.                                      *)
Carried(rows, pid, rows2, pid2, cs2, m) ==
  /\ Served(rows2, pid2, cs2, m)
  /\ Pending(rows, pid) /\ InQueue(cs2, m, Upcoming(rows, pid).pid) =>
       Pending(rows2, pid2) /\ Upcoming(rows2, pid2).pid = Upcoming(rows, pid).pid

(* Copies are not taken away, change hands or come back to q_.             *)
Evolved(cs, cs2) ==
  \A p \in DOMAIN cs : /\ p \in DOMAIN cs2 /\ cs2[p].message = cs[p].message
                       /\ cs2[p].table = "q" => cs[p].table = "q"
Stored(cs, cs2) ==
  \A p \in DOMAIN cs : /\ cs2[p].scrubbed = cs[p].scrubbed
                       /\ cs[p].table \in {"q", "a"} => cs2[p].table \in {"q", "a"}

LEMMA Together ==
  ASSUME IInv, DInv, Evolved(copies, copies'),
         \A m \in Messages :
           /\ Carried(deliveries[m], messages[m].pid, deliveries'[m], messages'[m].pid, copies', m)
           /\ Kept(messages'[m], copies', m) /\ Freed(deliveries'[m]),
         \A p \in DOMAIN copies' \ DOMAIN copies :
           copies'[p].table = "q" => Wanted(deliveries', messages', copies', p)
  PROVE  DInv'
<1>1. \A m \in Messages : Served(deliveries'[m], messages'[m].pid, copies', m)
  BY DEF Carried
<1>2. ASSUME NEW p \in DOMAIN copies, copies'[p].table = "q"
      PROVE  Wanted(deliveries', messages', copies', p)
  <2> copies[p] \in Copy
    BY DEF IInv, TypeOK
  <2>1. PICK m \in Messages : m = copies[p].message
    BY DEF Copy
  <2>2. copies[p].table = "q" /\ copies'[p].message = m /\ p \in DOMAIN copies'
    BY <1>2, <2>1 DEF Evolved
  <2>3. Waits(m) /\ Up(m).pid = p
    BY <2>1, <2>2 DEF DInv, Paired, Wanted, Waits, Up
  <2>4. Carried(deliveries[m], messages[m].pid, deliveries'[m], messages'[m].pid, copies', m)
    OBVIOUS
  <2>5. InQueue(copies', m, p)
    BY <1>2, <2>2 DEF InQueue
  <2> QED BY <2>2, <2>3, <2>4, <2>5 DEF Carried, Wanted, Waits, Up
<1>3. \A p \in DOMAIN copies' : copies'[p].table = "q" => Wanted(deliveries', messages', copies', p)
  BY <1>2
<1> QED BY <1>1, <1>3 DEF DInv, Paired

LEMMA Unchanged ==
  ASSUME IInv, DInv, NEW m \in Messages, deliveries'[m] = deliveries[m], messages'[m] = messages[m],
         Waits(m) => Up(m).pid \in DOMAIN copies' /\ copies'[Up(m).pid] = copies[Up(m).pid]
  PROVE  /\ Carried(deliveries[m], messages[m].pid, deliveries'[m], messages'[m].pid, copies', m)
         /\ Freed(deliveries'[m])
<1>1. Waits(m) => InQueue(copies', m, Up(m).pid) /\ Shows(Up(m), copies'[Up(m).pid].vt)
  BY Ours DEF InQueue
<1> QED BY <1>1 DEF Carried, Served, Waits, Up, DInv

(* The newest row is now d. *)
LEMMA Replaced ==
  ASSUME NEW m \in Messages, NEW d, deliveries'[m] # <<>>, deliveries'[m][Len(deliveries'[m])] = d,
         d.state \in Dispatchable => InQueue(copies', m, d.pid) /\ Shows(d, copies'[d.pid].vt),
         Waits(m) /\ InQueue(copies', m, Up(m).pid) => d.state \in Dispatchable /\ d.pid = Up(m).pid,
         Free(d)
  PROVE  /\ Carried(deliveries[m], messages[m].pid, deliveries'[m], messages'[m].pid, copies', m)
         /\ Freed(deliveries'[m])
BY DEF Carried, Served, Pending, Upcoming, Waits, Up, Freed

LEMMA StillKept ==
  ASSUME DInv, NEW m \in Messages, messages'[m] = messages[m],
         Evolved(copies, copies'), Stored(copies, copies')
  PROVE  Kept(messages'[m], copies', m)
BY DEF DInv, Kept, Evolved, Stored

-----------------------------------------------------------------------------
(* Rows: what a verb writes.                                               *)

LEMMA NewFields ==
  ASSUME NEW p, NEW c, NEW a
  PROVE  /\ NewRow(p, c, a).pid = p /\ NewRow(p, c, a).state = "ready"
         /\ NewRow(p, c, a).consumer = NoRun /\ NewRow(p, c, a).effect = FALSE
         /\ Free(NewRow(p, c, a)) /\ \A vt : Shows(NewRow(p, c, a), vt) <=> Due(vt)
BY DEF NewRow, Free, Shows, Live

LEMMA ClosedFields ==
  ASSUME NEW d \in Row, NEW s
  PROVE  /\ Closed(d, s).pid = d.pid /\ Closed(d, s).state = s /\ Closed(d, s).consumer = NoRun
         /\ Closed(d, s).effect = d.effect
         /\ Free(Closed(d, s))
BY DEF Closed, Row, Free

LEMMA SettleFields ==
  ASSUME NEW d \in Row, NEW verb
  PROVE  /\ Settle(d, verb).pid = d.pid /\ Settle(d, verb).consumer = NoRun
         /\ Settle(d, verb).effect = d.effect
         /\ Settle(d, verb).state \in {"succeeded", "ambiguous", "dead-lettered", "scheduled"}
         /\ verb = "ack" <=> Settle(d, verb).state = "succeeded"
         /\ verb # "ack" => (d.effect <=> Settle(d, verb).state = "ambiguous")
         /\ Free(Settle(d, verb))
BY DEF Settle, Closed, Row, Free

LEMMA LeasedFields ==
  ASSUME NEW d \in Row, NEW r
  PROVE  /\ Leased(d, r).pid = d.pid /\ Leased(d, r).state = "leased" /\ Leased(d, r).consumer = r
         /\ Leased(d, r).lease = LeaseTime /\ Leased(d, r).effect = d.effect
         /\ Free(Leased(d, r)) /\ \A vt : Shows(Leased(d, r), vt) <=> vt = LeaseTime
BY DEF Leased, Row, Free, Shows, Live

LEMMA RestoredFields ==
  ASSUME NEW d \in Row
  PROVE  /\ Restored(d).pid = d.pid /\ Restored(d).consumer = NoRun /\ Restored(d).effect = d.effect
         /\ Restored(d).state = IF d.state = "begun" THEN "ambiguous" ELSE "scheduled"
         /\ d.state # "begun" => Restored(d).next = RetryDelay
         /\ Free(Restored(d))
BY DEF Restored, Closed, Row, Free

LEMMA Newest ==
  ASSUME NEW rows \in Seq(Row), NEW k \in DOMAIN rows, k = Len(rows), NEW d, NEW e
  PROVE  /\ [rows EXCEPT ![k] = d] # <<>> /\ Len([rows EXCEPT ![k] = d]) = k
         /\ [rows EXCEPT ![k] = d][k] = d
         /\ Append([rows EXCEPT ![k] = d], e) # <<>>
         /\ Append([rows EXCEPT ![k] = d], e)[Len(Append([rows EXCEPT ![k] = d], e))] = e
OBVIOUS

-----------------------------------------------------------------------------
(* Copies: what PGMQ does to one.                                          *)

LEMMA Archiving ==
  ASSUME IInv, NEW p, Archive(p)
  PROVE  /\ Evolved(copies, copies') /\ Stored(copies, copies') /\ DOMAIN copies' = DOMAIN copies
         /\ \A o \in DOMAIN copies : o # p => copies'[o] = copies[o]
         /\ copies'[p].table = "a" /\ p \in DOMAIN copies
<1>1. \A o \in DOMAIN copies : copies[o] \in Copy
  BY DEF IInv, TypeOK
<1>2. p \in DOMAIN copies /\ DOMAIN copies' = DOMAIN copies
      /\ \A o \in DOMAIN copies : copies'[o] = IF o = p THEN Archived(copies[o]) ELSE copies[o]
  BY DEF Archive, InQ
<1>3. \A c \in Copy : /\ Archived(c).table = "a" /\ Archived(c).message = c.message
                      /\ Archived(c).scrubbed = c.scrubbed
  BY DEF Archived, Copy
<1> QED BY <1>1, <1>2, <1>3 DEF Evolved, Stored

LEMMA Setting ==
  ASSUME IInv, NEW p, NEW t, SetVt(p, t)
  PROVE  /\ Evolved(copies, copies') /\ Stored(copies, copies') /\ DOMAIN copies' = DOMAIN copies
         /\ \A o \in DOMAIN copies : o # p => copies'[o] = copies[o]
         /\ p \in DOMAIN copies /\ copies'[p].table = "q" /\ copies'[p].message = copies[p].message
         /\ copies'[p].vt = t
<1>1. \A o \in DOMAIN copies : copies[o] \in Copy
  BY DEF IInv, TypeOK
<1>2. p \in DOMAIN copies /\ DOMAIN copies' = DOMAIN copies /\ copies[p].table = "q"
      /\ \A o \in DOMAIN copies : copies'[o] = IF o = p THEN [copies[o] EXCEPT !.vt = t] ELSE copies[o]
  BY DEF SetVt, InQ
<1>3. \A c \in Copy : LET b == [c EXCEPT !.vt = t] IN
        b.table = c.table /\ b.message = c.message /\ b.scrubbed = c.scrubbed /\ b.vt = t
  BY DEF Copy
<1> QED BY <1>1, <1>2, <1>3 DEF Evolved, Stored

LEMMA Sending ==
  ASSUME IInv, NEW m \in Messages, copies' = Append(copies, NewCopy(m))
  PROVE  /\ Evolved(copies, copies') /\ Stored(copies, copies')
         /\ \A o \in DOMAIN copies : o \in DOMAIN copies' /\ copies'[o] = copies[o]
         /\ DOMAIN copies' \ DOMAIN copies = {Len(copies) + 1} /\ Len(copies) + 1 \in Nat \ {0}
         /\ copies'[Len(copies) + 1] = NewCopy(m) /\ Len(copies) + 1 \notin DOMAIN copies
         /\ InQueue(copies', m, Len(copies) + 1) /\ copies'[Len(copies) + 1].vt = 0
<1>1. copies \in Seq(Copy) /\ Len(copies) \in Nat /\ DOMAIN copies = 1 .. Len(copies)
  BY DEF IInv, TypeOK
<1>2. DOMAIN copies' = 1 .. Len(copies) + 1
      /\ \A o \in 1 .. Len(copies) : copies'[o] = copies[o]
      /\ copies'[Len(copies) + 1] = NewCopy(m)
  BY <1>1
<1>3. NewCopy(m).table = "q" /\ NewCopy(m).message = m /\ NewCopy(m).vt = 0
  BY DEF NewCopy
<1>4. Len(copies) + 1 \in DOMAIN copies' /\ Len(copies) + 1 \notin DOMAIN copies
      /\ DOMAIN copies' \ DOMAIN copies = {Len(copies) + 1}
      /\ \A o \in DOMAIN copies : o \in DOMAIN copies'
  BY <1>1, <1>2
<1> QED BY <1>1, <1>2, <1>3, <1>4 DEF Evolved, Stored, InQueue

-----------------------------------------------------------------------------
(* A verb about one message writes its newest row and moves its copy.      *)

LEMMA Writing ==
  ASSUME IInv, NEW m \in Messages, NEW k \in DOMAIN deliveries[m], deliveries[m][k].current,
         NEW d, Write(m, k, d)
  PROVE  /\ deliveries'[m] # <<>> /\ deliveries'[m][Len(deliveries'[m])] = d
         /\ \A n \in Messages : n # m => deliveries'[n] = deliveries[n]
         /\ HasCurrent(m) /\ deliveries[m][k] = Up(m) /\ deliveries[m] # <<>>
<1>1. k = Len(deliveries[m]) /\ HasCurrent(m)
  BY CurrentIsNewest
<1>2. deliveries[m] \in Seq(Row) /\ deliveries[m][k] = Up(m) /\ deliveries[m] # <<>>
  BY <1>1, Rows
<1>3. /\ deliveries'[m] = [deliveries[m] EXCEPT ![k] = d]
      /\ \A n \in Messages : n # m => deliveries'[n] = deliveries[n]
  BY DEF Write, IInv, TypeOK
<1>4. /\ [deliveries[m] EXCEPT ![k] = d] # <<>> /\ Len([deliveries[m] EXCEPT ![k] = d]) = k
      /\ [deliveries[m] EXCEPT ![k] = d][k] = d
  BY <1>1, <1>2, Newest
<1> QED BY <1>1, <1>2, <1>3, <1>4

LEMMA OneWritten ==
  ASSUME IInv, DInv, NEW m \in Messages, NEW k \in DOMAIN deliveries[m], deliveries[m][k].current,
         NEW d, Write(m, k, d), Free(d), messages' = messages,
         Evolved(copies, copies'), Stored(copies, copies'), DOMAIN copies' = DOMAIN copies,
         \A p \in DOMAIN copies : ~Waits(m) \/ p # Up(m).pid => copies'[p] = copies[p],
         d.state \in Dispatchable => InQueue(copies', m, d.pid) /\ Shows(d, copies'[d.pid].vt),
         Waits(m) /\ InQueue(copies', m, Up(m).pid) => d.state \in Dispatchable /\ d.pid = Up(m).pid
  PROVE  DInv'
<1>1. /\ deliveries'[m] # <<>> /\ deliveries'[m][Len(deliveries'[m])] = d
      /\ \A n \in Messages : n # m => deliveries'[n] = deliveries[n]
  BY Writing
<1>2. /\ Carried(deliveries[m], messages[m].pid, deliveries'[m], messages'[m].pid, copies', m)
      /\ Freed(deliveries'[m])
  BY <1>1, Replaced
<1>3. ASSUME NEW n \in Messages, n # m
      PROVE  /\ Carried(deliveries[n], messages[n].pid, deliveries'[n], messages'[n].pid, copies', n)
             /\ Freed(deliveries'[n])
  <2>1. Waits(n) => Up(n).pid \in DOMAIN copies' /\ copies'[Up(n).pid] = copies[Up(n).pid]
    BY <1>3, Ours, Distinct DEF InQueue
  <2> QED BY <1>1, <1>3, <2>1, Unchanged
<1>4. \A n \in Messages : Kept(messages'[n], copies', n)
  BY StillKept
<1> QED BY <1>2, <1>3, <1>4, Together

(* A row that ends takes its copy along to the archive. *)
LEMMA Ended ==
  ASSUME IInv, DInv, NEW m \in Messages, NEW k \in DOMAIN deliveries[m], deliveries[m][k].current,
         deliveries[m][k].state \in Dispatchable, Archive(deliveries[m][k].pid),
         NEW d, Write(m, k, d), Free(d), messages' = messages, d.state \notin Dispatchable
  PROVE  DInv'
<1>1. HasCurrent(m) /\ deliveries[m][k] = Up(m)
  BY Writing
<1>2. Waits(m)
  BY <1>1, Rows
<1>3. /\ Evolved(copies, copies') /\ Stored(copies, copies') /\ DOMAIN copies' = DOMAIN copies
      /\ \A o \in DOMAIN copies : o # Up(m).pid => copies'[o] = copies[o]
      /\ copies'[Up(m).pid].table = "a"
  BY <1>1, Archiving
<1>4. ~InQueue(copies', m, Up(m).pid)
  BY <1>3 DEF InQueue
<1> QED BY <1>2, <1>3, <1>4, OneWritten

(* A row that stays shows when its copy does. *)
LEMMA Shown ==
  ASSUME IInv, DInv, NEW m \in Messages, NEW k \in DOMAIN deliveries[m], deliveries[m][k].current,
         deliveries[m][k].state \in Dispatchable, NEW t, SetVt(deliveries[m][k].pid, t),
         NEW d, Write(m, k, d), Free(d), messages' = messages,
         d.state \in Dispatchable, d.pid = deliveries[m][k].pid, Shows(d, t)
  PROVE  DInv'
<1>1. HasCurrent(m) /\ deliveries[m][k] = Up(m)
  BY Writing
<1>2. Waits(m)
  BY <1>1, Rows
<1>3. /\ Evolved(copies, copies') /\ Stored(copies, copies') /\ DOMAIN copies' = DOMAIN copies
      /\ \A o \in DOMAIN copies : o # Up(m).pid => copies'[o] = copies[o]
      /\ Up(m).pid \in DOMAIN copies /\ copies'[Up(m).pid].table = "q" /\ copies'[Up(m).pid].vt = t
      /\ copies'[Up(m).pid].message = copies[Up(m).pid].message
  BY <1>1, Setting
<1>4. InQueue(copies', m, Up(m).pid)
  BY <1>2, <1>3, Ours DEF InQueue
<1> QED BY <1>1, <1>2, <1>3, <1>4, OneWritten

(* A message gets a new copy and a first row, or the first row of a chain. *)
LEMMA Fresh ==
  ASSUME IInv, DInv, NEW m \in Messages, ~Waits(m), copies' = Append(copies, NewCopy(m)),
         deliveries'[m] # <<>>, NEW d, deliveries'[m][Len(deliveries'[m])] = d,
         d.pid = Len(copies) + 1, d.state = "ready", d.next = Never, d.consumer = NoRun,
         \A n \in Messages : n # m => deliveries'[n] = deliveries[n] /\ messages'[n] = messages[n],
         messages'[m] = messages[m] \/ messages'[m].pid = Len(copies) + 1
  PROVE  DInv'
<1>1. /\ Evolved(copies, copies') /\ Stored(copies, copies')
      /\ \A o \in DOMAIN copies : o \in DOMAIN copies' /\ copies'[o] = copies[o]
      /\ DOMAIN copies' \ DOMAIN copies = {d.pid}
      /\ copies'[d.pid] = NewCopy(m)
      /\ InQueue(copies', m, d.pid) /\ copies'[d.pid].vt = 0
  BY Sending
<1>2. Shows(d, 0) /\ Free(d) /\ d.state \in Dispatchable
  BY DEF Shows, Free, Live, Due, Dispatchable
<1>3. /\ Carried(deliveries[m], messages[m].pid, deliveries'[m], messages'[m].pid, copies', m)
      /\ Freed(deliveries'[m])
  BY <1>1, <1>2, Replaced
<1>4. ASSUME NEW n \in Messages, n # m
      PROVE  /\ Carried(deliveries[n], messages[n].pid, deliveries'[n], messages'[n].pid, copies', n)
             /\ Freed(deliveries'[n])
  BY <1>1, <1>4, Unchanged, Ours DEF InQueue
<1>5. ASSUME NEW n \in Messages PROVE Kept(messages'[n], copies', n)
  <2>1. CASE messages'[n] = messages[n]
    BY <1>1, <2>1, StillKept
  <2>2. CASE messages'[n] # messages[n]
    <3>1. n = m /\ messages'[n].pid = d.pid
      BY <2>2
    <3> QED BY <1>1, <3>1 DEF Kept, InQueue, NewCopy
  <2> QED BY <2>1, <2>2
<1>6. Wanted(deliveries', messages', copies', d.pid)
  BY <1>1, <1>2 DEF Wanted, Pending, Upcoming, InQueue
<1> QED BY <1>1, <1>3, <1>4, <1>5, <1>6, Together

LEMMA Still ==
  ASSUME DInv, UNCHANGED <<messages, deliveries, copies>>
  PROVE  DInv'
BY DEF DInv

-----------------------------------------------------------------------------
(* The verbs: ledger and dispatch table keep in step.                      *)

LEMMA SendPairs ==
  ASSUME IInv, DInv, NEW r \in Runs, NEW m \in Messages, NEW h \in Payloads, NEW ttl \in Retentions,
         Send(r, m, h, ttl)
  PROVE  DInv'
<1> DEFINE d == NewRow(Len(copies) + 1, 1, 1)
<1>1. d.pid = Len(copies) + 1 /\ d.state = "ready" /\ d.next = Never /\ d.consumer = NoRun
  BY DEF NewRow
<1>2. ~Waits(m)
  BY Rows, CurrentIsNewest DEF Send, IInv
<1>3. /\ deliveries'[m] = <<d>> /\ messages'[m].pid = Len(copies) + 1
      /\ \A n \in Messages : n # m => deliveries'[n] = deliveries[n] /\ messages'[n] = messages[n]
      /\ copies' = Append(copies, NewCopy(m))
  BY DEF Send, IInv, TypeOK
<1> HIDE DEF d
<1>4. deliveries'[m] # <<>> /\ deliveries'[m][Len(deliveries'[m])] = d
  BY <1>3
<1> QED BY <1>1, <1>2, <1>3, <1>4, Fresh

LEMMA RedispatchPairs ==
  ASSUME IInv, DInv, NEW m \in Messages, NEW k \in DOMAIN deliveries[m], deliveries[m][k].current,
         deliveries[m][k].state \notin Dispatchable, NEW old, Redispatch(m, k, old), messages' = messages
  PROVE  DInv'
<1> DEFINE d == NewRow(Len(copies) + 1, old.chain + 1, 1)
<1>1. d.pid = Len(copies) + 1 /\ d.state = "ready" /\ d.next = Never /\ d.consumer = NoRun
  BY DEF NewRow
<1>2. /\ deliveries'[m] = Append([deliveries[m] EXCEPT ![k] = old], d)
      /\ \A n \in Messages : n # m => deliveries'[n] = deliveries[n]
      /\ copies' = Append(copies, NewCopy(m))
  BY DEF Redispatch, IInv, TypeOK
<1> HIDE DEF d
<1>3. k = Len(deliveries[m]) /\ HasCurrent(m) /\ deliveries[m][k] = Up(m)
  BY CurrentIsNewest, Rows
<1>4. ~Waits(m) /\ deliveries[m] \in Seq(Row)
  BY <1>3, Rows
<1>5. deliveries'[m] # <<>> /\ deliveries'[m][Len(deliveries'[m])] = d
  BY <1>2, <1>3, <1>4, Newest
<1> QED BY <1>1, <1>2, <1>4, <1>5, Fresh

LEMMA RecoverPairs ==
  ASSUME IInv, DInv, NEW r \in Runs, NEW candidates, Recover(r, candidates)
  PROVE  DInv'
<1>1. messages' = messages /\ copies' = copies
  BY DEF Recover
<1>2. ASSUME NEW m \in Messages
      PROVE  /\ Carried(deliveries[m], messages[m].pid, deliveries'[m], messages'[m].pid, copies', m)
             /\ Kept(messages'[m], copies', m) /\ Freed(deliveries'[m])
  <2>1. CASE m \in candidates /\ Sent(m) /\ ~HasRow(m)
    <3> DEFINE d == NewRow(messages[m].pid, 1, 1)
    <3>1. deliveries'[m] = <<d>>
      BY <2>1 DEF Recover
    <3>2. Up(m) = d /\ Free(d)
      BY <2>1, NewFields DEF Up, Upcoming, HasRow
    <3> HIDE DEF d
    <3>3. deliveries'[m] # <<>> /\ deliveries'[m][Len(deliveries'[m])] = d
      BY <3>1
    <3>4. Waits(m) <=> d.state \in Dispatchable
      BY <2>1, <3>2 DEF Waits, Pending, Up, Sent
    <3>5. d.state \in Dispatchable => InQueue(copies', m, d.pid) /\ Shows(d, copies'[d.pid].vt)
      BY <1>1, <3>2, <3>4, Ours
    <3> QED BY <1>1, <3>2, <3>3, <3>4, <3>5, Replaced DEF DInv
  <2>2. CASE ~(m \in candidates /\ Sent(m) /\ ~HasRow(m))
    <3>1. deliveries'[m] = deliveries[m]
      BY <2>2 DEF Recover
    <3>2. Waits(m) => Up(m).pid \in DOMAIN copies'
      BY <1>1, Ours DEF InQueue
    <3> QED BY <1>1, <3>1, <3>2, Unchanged DEF DInv
  <2> QED BY <2>1, <2>2
<1>3. Evolved(copies, copies') /\ DOMAIN copies' = DOMAIN copies
  BY <1>1 DEF Evolved
<1> QED BY <1>2, <1>3, Together

LEMMA RenewPairs ==
  ASSUME IInv, DInv, NEW r \in Runs, NEW m \in Messages, NEW k, NEW c, Renew(r, m, k, c)
  PROVE  DInv'
<1> DEFINE d == [deliveries[m][k] EXCEPT !.lease = LeaseTime]
<1>1. /\ k \in DOMAIN deliveries[m] /\ deliveries[m][k].current /\ deliveries[m][k] \in Row
      /\ deliveries[m][k].state \in Live
  BY FencedRow DEF Renew
<1>2. d.state \in Live /\ d.pid = deliveries[m][k].pid /\ d.lease = LeaseTime
  BY <1>1 DEF Row
<1>3. Write(m, k, d) /\ SetVt(deliveries[m][k].pid, LeaseTime) /\ messages' = messages
  BY DEF Renew
<1> HIDE DEF d
<1>4. /\ Shows(d, LeaseTime) /\ Free(d) /\ d.state \in Dispatchable
      /\ deliveries[m][k].state \in Dispatchable
  BY <1>1, <1>2 DEF Shows, Free, Live, Dispatchable
<1> QED BY <1>1, <1>2, <1>3, <1>4, Shown

LEMMA ReportPairs ==
  ASSUME IInv, DInv, NEW r \in Runs, NEW m \in Messages, NEW k, NEW c,
         NEW verb \in {"ack", "nack"}, Report(r, m, k, c, verb)
  PROVE  DInv'
<1> DEFINE s == Settle(deliveries[m][k], verb)
           d == [s EXCEPT !.reported = c]
<1>1. /\ k \in DOMAIN deliveries[m] /\ deliveries[m][k].current /\ deliveries[m][k] \in Row
      /\ deliveries[m][k].state \in Live /\ RowOK(deliveries[m][k])
  BY FencedRow DEF Report
<1>2. /\ s \in Row /\ s.pid = deliveries[m][k].pid /\ Free(s)
      /\ s.state \in {"succeeded", "ambiguous", "dead-lettered", "scheduled"}
  BY <1>1, SettleOK, SettleFields
<1>3. Write(m, k, d) /\ Place(s.pid, s) /\ messages' = messages
  BY DEF Report
<1> HIDE DEF s
<1>4. d.state = s.state /\ d.pid = s.pid /\ d.next = s.next /\ Free(d)
  BY <1>2 DEF Row, Free
<1> HIDE DEF d
<1>5. deliveries[m][k].state \in Dispatchable
  BY <1>1 DEF Live, Dispatchable
<1>6. CASE s.state = "scheduled"
  <2>1. SetVt(deliveries[m][k].pid, s.next)
    BY <1>2, <1>3, <1>6 DEF Place
  <2>2. d.state \in Dispatchable /\ Shows(d, s.next)
    BY <1>4, <1>6 DEF Dispatchable, Shows, Live
  <2> QED BY <1>1, <1>2, <1>3, <1>4, <1>5, <2>1, <2>2, Shown
<1>7. CASE s.state # "scheduled"
  <2>1. Archive(deliveries[m][k].pid) /\ d.state \notin Dispatchable
    BY <1>2, <1>3, <1>4, <1>7 DEF Place, Dispatchable
  <2> QED BY <1>1, <1>3, <1>4, <1>5, <2>1, Ended
<1> QED BY <1>6, <1>7

LEMMA HoldPairs ==
  ASSUME IInv, DInv, NEW r \in Runs, NEW m \in Messages, NEW k, NEW c, Hold(r, m, k, c)
  PROVE  DInv'
<1> DEFINE s == Closed(deliveries[m][k], "held")
           d == [s EXCEPT !.reported = c]
<1>1. /\ k \in DOMAIN deliveries[m] /\ deliveries[m][k].current /\ deliveries[m][k] \in Row
      /\ deliveries[m][k].state \in Live
  BY FencedRow DEF Hold
<1>2. d.state = "held" /\ d.consumer = NoRun
  BY <1>1 DEF Closed, Row
<1>3. Write(m, k, d) /\ Archive(deliveries[m][k].pid) /\ messages' = messages
  BY DEF Hold
<1> HIDE DEF d
<1>4. Free(d) /\ d.state \notin Dispatchable /\ deliveries[m][k].state \in Dispatchable
  BY <1>1, <1>2 DEF Free, Dispatchable, Live
<1> QED BY <1>1, <1>3, <1>4, Ended

LEMMA CancelPairs ==
  ASSUME IInv, DInv, NEW m \in Messages, NEW k, NEW force, Cancel(m, k, force)
  PROVE  DInv'
<1> DEFINE d == Closed(deliveries[m][k], "cancelled")
<1>1. /\ k \in DOMAIN deliveries[m] /\ deliveries[m][k].current
      /\ deliveries[m][k].state \in Dispatchable
  BY DEF Cancel, IsCurrent, Dispatchable
<1>2. deliveries[m][k] \in Row
  BY <1>1, CurrentIsNewest
<1>3. d.state = "cancelled" /\ Free(d)
  BY <1>2, ClosedFields
<1>4. Write(m, k, d) /\ Archive(deliveries[m][k].pid) /\ messages' = messages
  BY DEF Cancel
<1> HIDE DEF d
<1>5. d.state \notin Dispatchable
  BY <1>3 DEF Dispatchable
<1> QED BY <1>1, <1>3, <1>4, <1>5, Ended

LEMMA BeginPairs ==
  ASSUME IInv, DInv, NEW r \in Runs, NEW m \in Messages, NEW k, NEW c, NEW key \in EffectKeys,
         BeginEffect(r, m, k, c, key)
  PROVE  DInv'
<1> DEFINE d == [deliveries[m][k] EXCEPT !.state = "begun", !.effect = TRUE]
<1>1. /\ k \in DOMAIN deliveries[m] /\ deliveries[m][k].current /\ deliveries[m][k] \in Row
      /\ deliveries[m][k].state \in Live
  BY FencedRow DEF BeginEffect
<1>2. d.state = "begun" /\ d.pid = deliveries[m][k].pid /\ d.lease = deliveries[m][k].lease
  BY <1>1 DEF Row
<1>3. Write(m, k, d) /\ messages' = messages /\ copies' = copies
  BY DEF BeginEffect
<1> HIDE DEF d
<1>4. deliveries[m][k] = Up(m) /\ Waits(m)
  BY <1>1, <1>3, Writing, Rows DEF Live, Dispatchable
<1>5. InQueue(copies', m, d.pid) /\ Shows(d, copies'[d.pid].vt)
  BY <1>1, <1>2, <1>3, <1>4, Ours DEF Shows, Live
<1>6. /\ Free(d) /\ d.state \in Dispatchable /\ Evolved(copies, copies') /\ Stored(copies, copies')
      /\ DOMAIN copies' = DOMAIN copies
  BY <1>2, <1>3 DEF Free, Live, Dispatchable, Evolved, Stored
<1> QED BY <1>1, <1>2, <1>3, <1>4, <1>5, <1>6, OneWritten

LEMMA AppliedPairs ==
  ASSUME IInv, DInv, NEW m \in Messages, NEW k, ReconcileApplied(m, k)
  PROVE  DInv'
<1> DEFINE d == [deliveries[m][k] EXCEPT !.state = "succeeded"]
<1>1. /\ k \in DOMAIN deliveries[m] /\ deliveries[m][k].current
      /\ deliveries[m][k].state \in Uncertain
  BY DEF ReconcileApplied, Reconcilable, IsCurrent
<1>2. Write(m, k, d) /\ messages' = messages /\ copies' = copies
  BY DEF ReconcileApplied
<1>3. deliveries[m][k] = Up(m) /\ HasCurrent(m) /\ Up(m) \in Row
  BY <1>1, <1>2, Writing, Rows
<1>4. Free(deliveries[m][k])
  BY <1>3, Rows DEF DInv, Freed
<1>5. d.state = "succeeded" /\ d.consumer = NoRun
  BY <1>1, <1>3, <1>4 DEF Row, Free, Uncertain, Live
<1> HIDE DEF d
<1>6. ~Waits(m)
  BY <1>1, <1>3, Rows DEF Uncertain, Dispatchable
<1>7. /\ Free(d) /\ d.state \notin Dispatchable /\ Evolved(copies, copies') /\ Stored(copies, copies')
      /\ DOMAIN copies' = DOMAIN copies
  BY <1>2, <1>5 DEF Free, Dispatchable, Evolved, Stored
<1> QED BY <1>1, <1>2, <1>6, <1>7, OneWritten

(* A sweep of a verb over many rows: what becomes of the copies of those   *)
(* that wait is said message by message.                                   *)
LEMMA Swept ==
  ASSUME IInv, DInv, messages' = messages,
         Evolved(copies, copies'), Stored(copies, copies'), DOMAIN copies' = DOMAIN copies,
         \A m \in Messages :
           \/ /\ deliveries'[m] = deliveries[m]
              /\ Waits(m) => copies'[Up(m).pid] = copies[Up(m).pid]
           \/ \E d : /\ deliveries'[m] # <<>> /\ deliveries'[m][Len(deliveries'[m])] = d
                     /\ Waits(m) /\ d.pid = Up(m).pid /\ Free(d)
                     /\ \/ d.state \in Dispatchable /\ copies'[d.pid].table = "q"
                           /\ Shows(d, copies'[d.pid].vt)
                        \/ d.state \notin Dispatchable /\ copies'[d.pid].table # "q"
  PROVE  DInv'
<1>1. ASSUME NEW m \in Messages
      PROVE  /\ Carried(deliveries[m], messages[m].pid, deliveries'[m], messages'[m].pid, copies', m)
             /\ Freed(deliveries'[m])
  <2>1. CASE /\ deliveries'[m] = deliveries[m]
             /\ Waits(m) => copies'[Up(m).pid] = copies[Up(m).pid]
    <3>1. Waits(m) => Up(m).pid \in DOMAIN copies'
      BY Ours DEF InQueue
    <3> QED BY <2>1, <3>1, Unchanged
  <2>2. ASSUME NEW d, deliveries'[m] # <<>>, deliveries'[m][Len(deliveries'[m])] = d,
               Waits(m), d.pid = Up(m).pid, Free(d),
               \/ d.state \in Dispatchable /\ copies'[d.pid].table = "q" /\ Shows(d, copies'[d.pid].vt)
               \/ d.state \notin Dispatchable /\ copies'[d.pid].table # "q"
        PROVE  /\ Carried(deliveries[m], messages[m].pid, deliveries'[m], messages'[m].pid, copies', m)
               /\ Freed(deliveries'[m])
    <3>1. d.pid \in DOMAIN copies' /\ copies'[d.pid].message = m
      BY <2>2, Ours DEF InQueue, Evolved
    <3>2. d.state \in Dispatchable => InQueue(copies', m, d.pid) /\ Shows(d, copies'[d.pid].vt)
      BY <2>2, <3>1 DEF InQueue
    <3>3. InQueue(copies', m, Up(m).pid) => d.state \in Dispatchable
      BY <2>2 DEF InQueue
    <3> QED BY <2>2, <3>2, <3>3, Replaced
  <2> QED BY <2>1, <2>2
<1> QED BY <1>1, StillKept, Together

LEMMA PutNewest ==
  ASSUME IInv, NEW m \in Messages, NEW d
  PROVE  Put(m, d) # <<>> /\ Put(m, d)[Len(Put(m, d))] = d
<1>1. CASE HasCurrent(m)
  <2>1. deliveries[m] \in Seq(Row) /\ Current(m) \in DOMAIN deliveries[m]
        /\ Current(m) = Len(deliveries[m])
    BY <1>1, Rows
  <2> QED BY <1>1, <2>1, Newest DEF Put
<1>2. CASE ~HasCurrent(m)
  BY <1>2 DEF Put
<1> QED BY <1>1, <1>2

LEMMA MappedFields ==
  ASSUME IInv, NEW p \in DOMAIN copies, NEW t
  PROVE  /\ copies[p] \in Copy
         /\ LET c == Archived(copies[p]) IN
              c.table = "a" /\ c.message = copies[p].message /\ c.scrubbed = copies[p].scrubbed
         /\ LET c == [copies[p] EXCEPT !.vt = t] IN
              /\ c.table = copies[p].table /\ c.message = copies[p].message
              /\ c.scrubbed = copies[p].scrubbed /\ c.vt = t
<1>1. copies[p] \in Copy
  BY DEF IInv, TypeOK
<1> QED BY <1>1 DEF Archived, Copy

LEMMA RevokePairs ==
  ASSUME IInv, DInv, NEW q \in Principals, Revoke(q)
  PROVE  DInv'
<1>1. /\ messages' = messages /\ DOMAIN copies' = DOMAIN copies
      /\ \A m \in Paused(q) : InQ(CurrentRow(m).pid)
      /\ \A p \in DOMAIN copies : copies'[p] =
           IF \E m \in Paused(q) : CurrentRow(m).pid = p THEN Archived(copies[p]) ELSE copies[p]
      /\ \A m \in Messages : deliveries'[m] =
           IF m \in Paused(q) THEN Put(m, Closed(CurrentRow(m), "effect-paused")) ELSE deliveries[m]
  BY DEF Revoke
<1>2. \A m \in Paused(q) : m \in Messages /\ Waits(m) /\ CurrentRow(m) = Up(m)
  BY Rows DEF Paused, Dispatchable
<1>3. Evolved(copies, copies') /\ Stored(copies, copies')
  BY <1>1, MappedFields DEF Evolved, Stored
<1>4. ASSUME NEW m \in Messages, m \notin Paused(q)
      PROVE  /\ deliveries'[m] = deliveries[m]
             /\ Waits(m) => copies'[Up(m).pid] = copies[Up(m).pid]
  BY <1>1, <1>2, <1>4, Ours, Distinct DEF InQueue
<1>5. ASSUME NEW m \in Paused(q)
      PROVE  \E d : /\ deliveries'[m] # <<>> /\ deliveries'[m][Len(deliveries'[m])] = d
                    /\ Waits(m) /\ d.pid = Up(m).pid /\ Free(d)
                    /\ d.state \notin Dispatchable /\ copies'[d.pid].table # "q"
  <2> DEFINE d == Closed(Up(m), "effect-paused")
  <2>1. m \in Messages /\ Waits(m) /\ CurrentRow(m) = Up(m) /\ Up(m) \in Row
    BY <1>2, Rows
  <2>2. d.pid = Up(m).pid /\ d.state = "effect-paused" /\ Free(d)
    BY <2>1, ClosedFields
  <2>3. deliveries'[m] = Put(m, d)
    BY <1>1, <2>1
  <2> HIDE DEF d
  <2>4. deliveries'[m] # <<>> /\ deliveries'[m][Len(deliveries'[m])] = d
    BY <2>1, <2>3, PutNewest
  <2>5. copies'[d.pid].table # "q"
    BY <1>1, <2>1, <2>2, MappedFields DEF InQ
  <2> QED BY <2>1, <2>2, <2>4, <2>5 DEF Dispatchable
<1> QED BY <1>1, <1>3, <1>4, <1>5, Swept

LEMMA RestoreBatchPairs ==
  ASSUME IInv, DInv, RestoreBatch
  PROVE  DInv'
<1>1. PICK batch \in SUBSET InFlight :
        /\ \A m \in batch : Consistent(m) /\ InQ(CurrentRow(m).pid)
        /\ deliveries' = [m \in Messages |->
             IF m \in batch THEN Put(m, Restored(CurrentRow(m))) ELSE deliveries[m]]
        /\ copies' = [p \in DOMAIN copies |->
             IF \E m \in batch : CurrentRow(m).pid = p /\ CurrentRow(m).state = "leased"
             THEN [copies[p] EXCEPT !.vt = RetryDelay]
             ELSE IF \E m \in batch : CurrentRow(m).pid = p THEN Archived(copies[p])
             ELSE copies[p]]
  BY DEF RestoreBatch
<1>2. messages' = messages /\ DOMAIN copies' = DOMAIN copies
  BY <1>1 DEF RestoreBatch
<1>3. \A m \in batch : m \in Messages /\ Waits(m) /\ CurrentRow(m) = Up(m) /\ Up(m).state \in Live
  BY Rows DEF InFlight, Dispatchable, Live
<1>4. Evolved(copies, copies') /\ Stored(copies, copies')
  BY <1>1, <1>2, MappedFields DEF Evolved, Stored
<1>5. ASSUME NEW m \in Messages, m \notin batch
      PROVE  /\ deliveries'[m] = deliveries[m]
             /\ Waits(m) => copies'[Up(m).pid] = copies[Up(m).pid]
  BY <1>1, <1>3, <1>5, Ours, Distinct DEF InQueue
<1>6. ASSUME NEW m \in batch
      PROVE  \E d : /\ deliveries'[m] # <<>> /\ deliveries'[m][Len(deliveries'[m])] = d
                    /\ Waits(m) /\ d.pid = Up(m).pid /\ Free(d)
                    /\ \/ d.state \in Dispatchable /\ copies'[d.pid].table = "q"
                          /\ Shows(d, copies'[d.pid].vt)
                       \/ d.state \notin Dispatchable /\ copies'[d.pid].table # "q"
  <2> DEFINE d == Restored(Up(m))
  <2>1. /\ m \in Messages /\ Waits(m) /\ CurrentRow(m) = Up(m) /\ Up(m) \in Row
        /\ Up(m).state \in Live /\ Up(m).pid \in DOMAIN copies /\ copies[Up(m).pid].table = "q"
    BY <1>3, Rows, Ours DEF InQueue
  <2>2. /\ d.pid = Up(m).pid /\ Free(d)
        /\ d.state = IF Up(m).state = "begun" THEN "ambiguous" ELSE "scheduled"
        /\ Up(m).state # "begun" => d.next = RetryDelay
    BY <2>1, RestoredFields
  <2>3. deliveries'[m] = Put(m, d)
    BY <1>1, <2>1
  <2> HIDE DEF d
  <2>4. deliveries'[m] # <<>> /\ deliveries'[m][Len(deliveries'[m])] = d
    BY <2>1, <2>3, PutNewest
  <2>5. CASE Up(m).state = "begun"
    <3>1. \A n \in batch : CurrentRow(n).pid = Up(m).pid => n = m
      BY <1>3, <2>1, Distinct
    <3>2. copies'[Up(m).pid] = Archived(copies[Up(m).pid])
      BY <1>1, <2>1, <2>5, <3>1
    <3> QED BY <2>1, <2>2, <2>4, <2>5, <3>2, MappedFields DEF Dispatchable
  <2>6. CASE Up(m).state # "begun"
    <3>1. Up(m).state = "leased"
      BY <2>1, <2>6 DEF Live
    <3>2. copies'[Up(m).pid] = [copies[Up(m).pid] EXCEPT !.vt = RetryDelay]
      BY <1>1, <2>1, <3>1
    <3>3. copies'[d.pid].table = "q" /\ copies'[d.pid].vt = RetryDelay
      BY <2>1, <2>2, <3>2, MappedFields
    <3>4. d.state \in Dispatchable /\ Shows(d, RetryDelay)
      BY <2>2, <2>6 DEF Dispatchable, Shows, Live
    <3> QED BY <2>1, <2>2, <2>4, <3>3, <3>4
  <2> QED BY <2>5, <2>6
<1> QED BY <1>2, <1>4, <1>5, <1>6, Swept

LEMMA PurgePairs ==
  ASSUME IInv, DInv, Purge
  PROVE  DInv'
<1>1. /\ messages' = messages /\ deliveries' = deliveries /\ DOMAIN copies' = DOMAIN copies
      /\ \A p \in DOMAIN copies :
           \/ copies'[p] = copies[p]
           \/ /\ Expired(copies[p].message) /\ copies[p].table = "q"
              /\ copies'[p] = [copies[p] EXCEPT !.scrubbed = TRUE]
           \/ /\ Expired(copies[p].message) /\ copies[p].table = "a"
              /\ copies'[p] = [copies[p] EXCEPT !.table = "gone"]
  BY DEF Purge, ExpiredCopies
<1>2. ASSUME NEW p \in DOMAIN copies
      PROVE  /\ copies'[p].message = copies[p].message /\ copies'[p].vt = copies[p].vt
             /\ copies'[p].table = "q" <=> copies[p].table = "q"
             /\ copies'[p] = copies[p] \/ Expired(copies[p].message)
  <2>1. copies[p] \in Copy
    BY DEF IInv, TypeOK
  <2> QED BY <1>1, <2>1 DEF Copy
<1>3. Evolved(copies, copies')
  BY <1>1, <1>2 DEF Evolved
<1>4. ASSUME NEW m \in Messages
      PROVE  /\ Carried(deliveries[m], messages[m].pid, deliveries'[m], messages'[m].pid, copies', m)
             /\ Kept(messages'[m], copies', m) /\ Freed(deliveries'[m])
  <2>1. Waits(m) => InQueue(copies', m, Up(m).pid) /\ Shows(Up(m), copies'[Up(m).pid].vt)
    BY <1>1, <1>2, Ours DEF InQueue
  <2>2. Carried(deliveries[m], messages[m].pid, deliveries'[m], messages'[m].pid, copies', m)
    BY <1>1, <2>1 DEF Carried, Served, Waits, Up
  <2>3. Kept(messages'[m], copies', m)
    BY <1>1, <1>2 DEF DInv, Kept, Expired
  <2> QED BY <1>1, <2>2, <2>3 DEF DInv
<1> QED BY <1>1, <1>3, <1>4, Together

LEMMA Ageing ==
  ASSUME NEW t \in Int
  PROVE  /\ Elapsed(t, Floor) \in Int
         /\ Due(t) => Due(Elapsed(t, Floor)) /\ Due(Elapsed(t, 0))
         /\ Elapsed(Never, Floor) = Never
BY TimeAssumption DEF Elapsed, Floor, Never, Due

LEMMA AgedFields ==
  ASSUME NEW d \in Row
  PROVE  LET e == [d EXCEPT !.lease = Elapsed(@, Floor), !.next = Elapsed(@, Floor)] IN
         /\ e.pid = d.pid /\ e.state = d.state /\ e.consumer = d.consumer
         /\ e.lease = Elapsed(d.lease, Floor) /\ e.next = Elapsed(d.next, Floor)
BY DEF Row

(* The newest row, one tick later. *)
LEMMA AgedRows ==
  ASSUME IInv, IInv', NEW m \in Messages, Tick
  PROVE  /\ ~HasCurrent(m) => deliveries[m] = <<>> /\ deliveries'[m] = <<>>
         /\ HasCurrent(m) =>
              \E d : /\ deliveries'[m] # <<>> /\ deliveries'[m][Len(deliveries'[m])] = d
                    /\ d.pid = Up(m).pid /\ d.state = Up(m).state /\ d.consumer = Up(m).consumer
                    /\ d.lease = Elapsed(Up(m).lease, Floor) /\ d.next = Elapsed(Up(m).next, Floor)
<1> DEFINE d == [Up(m) EXCEPT !.lease = Elapsed(@, Floor), !.next = Elapsed(@, Floor)]
           rows == deliveries[m]
           k == Len(rows)
<1>1. deliveries'[m] = [i \in DOMAIN rows |->
        [rows[i] EXCEPT !.lease = Elapsed(@, Floor), !.next = Elapsed(@, Floor)]]
  BY DEF Tick
<1>2. deliveries'[m] \in Seq(Row) /\ DOMAIN deliveries'[m] = DOMAIN rows
  BY <1>1 DEF IInv, TypeOK
<1>3. DOMAIN rows = 1 .. k /\ k \in Nat
  BY CurrentIsNewest
<1>4. Len(deliveries'[m]) = k
  BY <1>2, <1>3
<1>5. CASE ~HasCurrent(m)
  <2>1. rows = <<>> /\ k = 0
    BY <1>5, Rows
  <2> HIDE DEF k, rows
  <2>2. deliveries'[m] = <<>>
    BY <1>2, <1>4, <2>1
  <2> QED BY <1>5, <2>1, <2>2 DEF rows
<1>6. CASE HasCurrent(m)
  <2>1. k \in DOMAIN rows /\ rows[k] = Up(m) /\ Up(m) \in Row
    BY <1>6, Rows
  <2>2. deliveries'[m][k] = d
    BY <1>1, <2>1
  <2>3. /\ d.pid = Up(m).pid /\ d.state = Up(m).state /\ d.consumer = Up(m).consumer
        /\ d.lease = Elapsed(Up(m).lease, Floor) /\ d.next = Elapsed(Up(m).next, Floor)
    BY <2>1, AgedFields
  <2> HIDE DEF d, k, rows
  <2>4. deliveries'[m] # <<>>
    BY <1>2, <2>1
  <2> QED BY <1>4, <1>6, <2>2, <2>3, <2>4
<1> QED BY <1>5, <1>6

LEMMA TickPairs ==
  ASSUME IInv, IInv', DInv, Tick
  PROVE  DInv'
<1>1. DOMAIN copies' = DOMAIN copies
  BY DEF Tick
<1>2. ASSUME NEW p \in DOMAIN copies
      PROVE  /\ copies[p].vt \in Int /\ copies'[p].vt = Elapsed(copies[p].vt, Floor)
             /\ copies'[p].message = copies[p].message /\ copies'[p].table = copies[p].table
             /\ copies'[p].scrubbed = copies[p].scrubbed
  <2>1. copies[p] \in Copy
    BY DEF IInv, TypeOK
  <2> QED BY <2>1 DEF Tick, Copy
<1>3. Evolved(copies, copies')
  BY <1>1, <1>2 DEF Evolved
<1>4. ASSUME NEW m \in Messages
      PROVE  /\ messages'[m].pid = messages[m].pid
             /\ ~Due(messages'[m].ttl) => ~Due(messages[m].ttl)
  <2>1. messages[m] \in [pid: Nat, hash: Payloads \cup {NoPayload}, ttl: Nat]
    BY DEF IInv, TypeOK
  <2>2. messages'[m] = [messages[m] EXCEPT !.ttl = Elapsed(@, 0)]
    BY DEF Tick
  <2>3. messages'[m].pid = messages[m].pid /\ messages'[m].ttl = Elapsed(messages[m].ttl, 0)
        /\ messages[m].ttl \in Int
    BY <2>1, <2>2
  <2> QED BY <2>3, Ageing
<1>5. ASSUME NEW m \in Messages
      PROVE  Kept(messages'[m], copies', m)
  BY <1>1, <1>2, <1>4 DEF DInv, Kept
<1>6. ASSUME NEW m \in Messages, ~HasCurrent(m)
      PROVE  /\ Carried(deliveries[m], messages[m].pid, deliveries'[m], messages'[m].pid, copies', m)
             /\ Freed(deliveries'[m])
  <2>1. deliveries[m] = <<>> /\ deliveries'[m] = <<>>
    BY <1>6, AgedRows
  <2>2. Waits(m) => InQueue(copies', m, Up(m).pid) /\ Shows(Up(m), copies'[Up(m).pid].vt)
    <3>1. Up(m) = NewRow(messages[m].pid, 1, 1)
      BY <2>1 DEF Up, Upcoming
    <3>2. ASSUME NEW vt PROVE Shows(Up(m), vt) <=> Due(vt)
      BY <3>1 DEF NewRow, Shows, Live
    <3>3. Waits(m) => InQueue(copies, m, Up(m).pid) /\ Due(copies[Up(m).pid].vt)
      BY <3>2, Ours
    <3> QED BY <1>1, <1>2, <3>2, <3>3, Ageing DEF InQueue
  <2> QED BY <1>4, <2>1, <2>2 DEF Carried, Served, Waits, Up, Freed
<1>7. ASSUME NEW m \in Messages, HasCurrent(m)
      PROVE  /\ Carried(deliveries[m], messages[m].pid, deliveries'[m], messages'[m].pid, copies', m)
             /\ Freed(deliveries'[m])
  <2>1. PICK d : /\ deliveries'[m] # <<>> /\ deliveries'[m][Len(deliveries'[m])] = d
                 /\ d.pid = Up(m).pid /\ d.state = Up(m).state /\ d.consumer = Up(m).consumer
                 /\ d.lease = Elapsed(Up(m).lease, Floor) /\ d.next = Elapsed(Up(m).next, Floor)
    BY <1>7, AgedRows
  <2>2. Free(d)
    <3>1. Free(Up(m))
      BY <1>7, Rows DEF DInv, Freed
    <3>2. Up(m).next = Never => d.next = Never
      BY <2>1, Ageing
    <3> QED BY <2>1, <3>1, <3>2 DEF Free
  <2>3. Waits(m) => InQueue(copies', m, d.pid) /\ Shows(d, copies'[d.pid].vt)
    <3> SUFFICES ASSUME Waits(m) PROVE InQueue(copies', m, d.pid) /\ Shows(d, copies'[d.pid].vt)
      OBVIOUS
    <3>1. InQueue(copies, m, Up(m).pid) /\ Shows(Up(m), copies[Up(m).pid].vt)
      BY Ours
    <3>2. InQueue(copies', m, d.pid)
      BY <1>1, <1>2, <2>1, <3>1 DEF InQueue
    <3>3. Due(copies[Up(m).pid].vt) => Due(copies'[d.pid].vt)
      BY <1>2, <2>1, <3>1, Ageing DEF InQueue
    <3>4. copies'[d.pid].vt = Elapsed(copies[Up(m).pid].vt, Floor)
      BY <1>2, <2>1, <3>1 DEF InQueue
    <3> QED BY <2>1, <3>1, <3>2, <3>3, <3>4 DEF Shows
  <2>4. Waits(m) <=> d.state \in Dispatchable
    BY <1>7, <2>1, Rows
  <2> QED BY <2>1, <2>2, <2>3, <2>4, Replaced
<1> QED BY <1>1, <1>3, <1>5, <1>6, <1>7, Together

-----------------------------------------------------------------------------
(* Claim                                                                   *)

(* The scan comes to the copy of m. *)
Met(swept, m) == Up(m).pid \in Scanned(swept) /\ Reads(swept, m, Up(m).pid)

LEMMA SweptWaits ==
  ASSUME IInv, NEW lapsed \in SUBSET LapsedEffects, NEW stale \in SUBSET ExpiredWork,
         NEW m \in lapsed \cup stale
  PROVE  /\ m \in Messages /\ Waits(m) /\ HasCurrent(m) /\ CurrentRow(m) = Up(m)
         /\ m \in lapsed => Up(m).state = "begun"
         /\ m \in stale => Up(m).state \in {"ready", "scheduled"}
<1>1. /\ m \in Messages /\ HasCurrent(m)
      /\ m \in lapsed => CurrentRow(m).state = "begun"
      /\ m \in stale => CurrentRow(m).state \in {"ready", "scheduled"}
  BY DEF LapsedEffects, ExpiredWork
<1>2. CurrentRow(m) = Up(m) /\ HasClaimed(m)
  BY <1>1, Rows
<1> QED BY <1>1, <1>2, Rows DEF Dispatchable

LEMMA Reading ==
  ASSUME IInv, DInv, NEW swept, NEW m \in Messages, NEW p \in Scanned(swept), ~Stray(p),
         Reads(swept, m, p)
  PROVE  /\ Waits(m) /\ HasClaimed(m) /\ Up(m) = Claimed(m) /\ Up(m).pid = p /\ m \notin swept
         /\ Up(m).state \in Live => Due(Up(m).lease)
         /\ p \in DOMAIN copies /\ copies[p].table = "q" /\ Due(copies[p].vt)
         /\ \A n \in Messages : Reads(swept, n, p) => n = m
         /\ Grantable(m) <=> Granted(swept, p)
<1>1. p \in Window(swept) /\ p \in DOMAIN copies /\ copies[p].table = "q" /\ Due(copies[p].vt)
  BY DEF Scanned, Window
<1>2. ASSUME NEW n \in Messages, Reads(swept, n, p)
      PROVE  /\ Waits(n) /\ HasClaimed(n) /\ Up(n) = Claimed(n) /\ Up(n).pid = p /\ n \notin swept
             /\ Up(n).state \in Live => Due(Up(n).lease)
  <2>1. HasClaimed(n) /\ Claimed(n).pid = p /\ n \notin swept /\ Claimed(n) = Up(n)
    BY <1>2, Rows DEF Reads
  <2>2. ~(Claimed(n).state \in Live /\ ~Due(Claimed(n).lease)) /\ Claimed(n).state \in Dispatchable
    BY <2>1 DEF Stray
  <2> QED BY <2>1, <2>2, Rows
<1>3. \A n \in Messages : Reads(swept, n, p) => n = m
  BY <1>2, Distinct
<1>4. ASSUME Grantable(m) PROVE Granted(swept, p)
  BY <1>1, <1>4 DEF Wins, Granted, Scanned
<1>5. ASSUME Granted(swept, p) PROVE Grantable(m)
  BY <1>3, <1>5 DEF Granted, Wins
<1> QED BY <1>1, <1>2, <1>3, <1>4, <1>5

LEMMA ClaimedRows ==
  ASSUME IInv, DInv, NEW r \in Runs, NEW lapsed \in SUBSET LapsedEffects,
         NEW stale \in SUBSET ExpiredWork, NEW swept, swept = lapsed \cup stale,
         \A p \in Scanned(swept) : ~Stray(p), NEW m \in Messages
  PROVE  RowsAfterClaim(r, lapsed, stale, m) =
           IF m \in lapsed THEN Put(m, Settle(Up(m), "expire"))
           ELSE IF m \in stale THEN Put(m, DeadLetter(Up(m)))
           ELSE IF ~Met(swept, m) THEN deliveries[m]
           ELSE IF Grantable(m) THEN Grant(m, r)
           ELSE Put(m, Passed(m))
<1>1. ASSUME NEW p \in DOMAIN copies
      PROVE  p \in Scanned(swept) /\ Reads(swept, m, p) <=> Met(swept, m) /\ p = Up(m).pid
  <2>1. Reads(swept, m, p) => p = Up(m).pid
    BY Rows DEF Reads
  <2> QED BY <2>1 DEF Met
<1>2. Met(swept, m) => Up(m).pid \in DOMAIN copies /\ (Grantable(m) <=> Granted(swept, Up(m).pid))
  <2> SUFFICES ASSUME Met(swept, m), NEW p, p = Up(m).pid
               PROVE  p \in DOMAIN copies /\ (Grantable(m) <=> Granted(swept, p))
    OBVIOUS
  <2>1. p \in Scanned(swept) /\ Reads(swept, m, p) /\ ~Stray(p)
    BY DEF Met
  <2>2. p \in DOMAIN copies
    BY <2>1 DEF Scanned, Window
  <2>3. Grantable(m) <=> Granted(swept, p)
    BY <2>1, Reading
  <2> QED BY <2>2, <2>3
<1>3. m \in lapsed \/ m \in stale => CurrentRow(m) = Up(m)
  BY SweptWaits
<1> QED BY <1>1, <1>2, <1>3 DEF RowsAfterClaim

OwnCopy(swept, m, p) ==
  IF m \in swept THEN Archived(copies[p])
  ELSE IF ~Met(swept, m) THEN copies[p]
  ELSE IF Grantable(m) THEN [copies[p] EXCEPT !.vt = LeaseTime]
  ELSE IF Passed(m).state = "scheduled" THEN [copies[p] EXCEPT !.vt = Passed(m).next]
  ELSE Archived(copies[p])

LEMMA ClaimedCopy ==
  ASSUME IInv, DInv, NEW swept, \A n \in swept : n \in Messages /\ Waits(n) /\ CurrentRow(n) = Up(n),
         \A p \in Scanned(swept) : ~Stray(p), NEW m \in Messages, Waits(m), NEW p, p = Up(m).pid
  PROVE  CopyAfterClaim(swept, p) = OwnCopy(swept, m, p)
<1>1. (\E n \in swept : CurrentRow(n).pid = p) <=> m \in swept
  BY Distinct
<1>2. m \notin swept => (p \in Scanned(swept) <=> Met(swept, m))
  BY Rows DEF Met, Reads
<1>3. Met(swept, m) => /\ (CHOOSE n \in Messages : Reads(swept, n, p)) = m
                       /\ Grantable(m) <=> Granted(swept, p)
  <2> SUFFICES ASSUME Met(swept, m)
               PROVE  /\ (CHOOSE n \in Messages : Reads(swept, n, p)) = m
                      /\ Grantable(m) <=> Granted(swept, p)
    OBVIOUS
  <2>1. p \in Scanned(swept) /\ Reads(swept, m, p)
    BY DEF Met
  <2>2. \A n \in Messages : Reads(swept, n, p) => n = m
    BY <2>1, Reading
  <2> QED BY <2>1, <2>2, Reading
<1>4. CASE m \in swept
  BY <1>1, <1>4 DEF CopyAfterClaim, OwnCopy
<1>5. CASE m \notin swept /\ ~Met(swept, m)
  BY <1>1, <1>2, <1>5 DEF CopyAfterClaim, OwnCopy
<1>6. CASE m \notin swept /\ Met(swept, m)
  <2>1. PICK n : n = CHOOSE i \in Messages : Reads(swept, i, p)
    OBVIOUS
  <2>2. CopyAfterClaim(swept, p) =
          IF Granted(swept, p) THEN [copies[p] EXCEPT !.vt = LeaseTime]
          ELSE IF Passed(n).state = "scheduled" THEN [copies[p] EXCEPT !.vt = Passed(n).next]
          ELSE Archived(copies[p])
    BY <1>1, <1>2, <1>6, <2>1 DEF CopyAfterClaim
  <2> QED BY <1>3, <1>6, <2>1, <2>2 DEF OwnCopy
<1> QED BY <1>4, <1>5, <1>6

LEMMA ClaimKeepsCopies ==
  ASSUME IInv, NEW swept, copies' = [p \in DOMAIN copies |-> CopyAfterClaim(swept, p)]
  PROVE  Evolved(copies, copies') /\ Stored(copies, copies') /\ DOMAIN copies' = DOMAIN copies
<1>1. ASSUME NEW p \in DOMAIN copies
      PROVE  \/ copies'[p] = copies[p] \/ copies'[p] = Archived(copies[p])
             \/ \E t : copies'[p] = [copies[p] EXCEPT !.vt = t]
  BY DEF CopyAfterClaim
<1>2. ASSUME NEW p \in DOMAIN copies
      PROVE  /\ copies'[p].message = copies[p].message /\ copies'[p].scrubbed = copies[p].scrubbed
             /\ copies'[p].table = copies[p].table \/ copies'[p].table = "a"
  <2>1. copies[p] \in Copy
    BY DEF IInv, TypeOK
  <2> QED BY <1>1, <2>1 DEF Archived, Copy
<1> QED BY <1>2 DEF Evolved, Stored

(* What is left of the claimed row when its lease is over. *)
LEMMA Expiring ==
  ASSUME IInv, DInv, NEW m \in Messages, Waits(m), Up(m).state \in Live => Due(Up(m).lease)
  PROVE  LET d == AfterExpiry(m) IN
         /\ d \in Row /\ RowOK(d) /\ d.pid = Up(m).pid /\ Free(d) /\ d.consumer = NoRun
         /\ d.effect = Up(m).effect
         /\ d.state \in {"ready", "scheduled", "ambiguous", "dead-lettered"}
         /\ Up(m).state \notin Live => d = Up(m)
         /\ d.state = "ambiguous" <=> Up(m).effect
         /\ ~HasCurrent(m) => ~d.completed
<1>1. HasClaimed(m) /\ Claimed(m) = Up(m) /\ Up(m) \in Row /\ RowOK(Up(m))
      /\ Up(m).state \in Dispatchable
  BY Rows
<1>2. /\ AfterExpiry(m) \in Row /\ RowOK(AfterExpiry(m))
      /\ ~HasCurrent(m) => ~AfterExpiry(m).completed
  BY <1>1, AfterExpiryOK
<1>3. CASE Up(m).state \in Live
  <2>1. AfterExpiry(m) = Settle(Up(m), "expire")
    BY <1>1, <1>3 DEF AfterExpiry
  <2> QED BY <1>1, <1>2, <1>3, <2>1, SettleFields
<1>4. CASE Up(m).state \notin Live
  <2>1. AfterExpiry(m) = Up(m) /\ Up(m).state \in {"ready", "scheduled"} /\ ~Up(m).effect
    BY <1>1, <1>4 DEF AfterExpiry, RowOK, Live, Dispatchable, Uncertain
  <2>2. Free(Up(m))
    <3>1. CASE HasCurrent(m)
      BY <3>1, Rows DEF DInv, Freed
    <3>2. CASE ~HasCurrent(m)
      BY <3>2, Rows, NewFields DEF Up, Upcoming
    <3> QED BY <3>1, <3>2
  <2> QED BY <1>2, <1>4, <2>1, <2>2 DEF Free
<1> QED BY <1>3, <1>4

LEMMA Passing ==
  ASSUME IInv, DInv, NEW m \in Messages, Waits(m), Up(m).state \in Live => Due(Up(m).lease),
         Due(copies[Up(m).pid].vt), ~Grantable(m)
  PROVE  LET d == Passed(m) IN
         /\ d.pid = Up(m).pid /\ Free(d) /\ d.consumer = NoRun /\ d.effect = Up(m).effect
         /\ d.state \in {"scheduled", "ambiguous", "dead-lettered"}
         /\ d.state = "ambiguous" <=> Up(m).effect
         /\ d.state = "scheduled" => Up(m).state \in Live /\ ~Up(m).effect
<1> DEFINE a == AfterExpiry(m)
<1>1. /\ a \in Row /\ a.pid = Up(m).pid /\ Free(a) /\ a.consumer = NoRun
      /\ a.effect = Up(m).effect
      /\ a.state \in {"ready", "scheduled", "ambiguous", "dead-lettered"}
      /\ Up(m).state \notin Live => a = Up(m)
      /\ a.state = "ambiguous" <=> Up(m).effect
  BY Expiring
<1>2. CASE a.state \in {"ready", "scheduled"} /\ Expired(m)
  <2>1. Passed(m) = Closed(a, "dead-lettered")
    BY <1>2 DEF Passed, DeadLetter
  <2> HIDE DEF a
  <2> QED BY <1>1, <1>2, <2>1, ClosedFields
<1>3. CASE ~(a.state \in {"ready", "scheduled"} /\ Expired(m))
  <2>1. Passed(m) = a
    BY <1>3 DEF Passed
  <2>2. a.state \in {"ready", "scheduled"} => ~Due(a.next)
    BY <1>3 DEF Grantable
  <2>3. a.state # "ready"
    BY <1>1, <2>2, TimeAssumption DEF Free, Due, Never, Floor
  <2>4. a.state = "scheduled" => Up(m).state \in Live
    <3> SUFFICES ASSUME a.state = "scheduled", Up(m).state \notin Live PROVE FALSE
      OBVIOUS
    <3>1. Up(m).next = copies[Up(m).pid].vt
      BY <1>1, Ours DEF Shows
    <3> QED BY <1>1, <2>2, <3>1
  <2> QED BY <1>1, <2>1, <2>3, <2>4
<1> QED BY <1>2, <1>3

LEMMA Granting ==
  ASSUME IInv, DInv, NEW m \in Messages, Waits(m), Up(m).state \in Live => Due(Up(m).lease),
         Grantable(m), NEW r \in Runs
  PROVE  /\ Grant(m, r) # <<>> /\ ~Up(m).effect
         /\ \E d : /\ d = Grant(m, r)[Len(Grant(m, r))]
                   /\ d.pid = Up(m).pid /\ d.state = "leased" /\ d.consumer = r /\ Free(d)
                   /\ Shows(d, LeaseTime)
<1> DEFINE a == AfterExpiry(m)
           n == NewRow(a.pid, a.chain, a.attempt + 1)
<1>1. /\ a \in Row /\ RowOK(a) /\ a.pid = Up(m).pid
      /\ a.state = "ambiguous" <=> Up(m).effect
      /\ ~HasCurrent(m) => ~a.completed
  BY Expiring
<1>2. a.state \in {"ready", "scheduled"} /\ ~Up(m).effect
  BY <1>1 DEF Grantable
<1>3. CASE a.completed
  <2> DEFINE d == Leased(n, r)
             old == Superseded(a)
  <2>1. /\ deliveries[m] \in Seq(Row) /\ Current(m) \in DOMAIN deliveries[m]
        /\ Current(m) = Len(deliveries[m]) /\ HasCurrent(m)
    BY <1>1, <1>3, Rows
  <2>2. Grant(m, r) = Append([deliveries[m] EXCEPT ![Current(m)] = old], d)
    BY <1>3, <2>1 DEF Grant, Put
  <2>3. n \in Row
    <3>1. a.attempt < MaxAttempts /\ a.attempt \in 1 .. MaxAttempts /\ a.pid \in Nat /\ a.chain \in Nat
      BY <1>1, <1>2, <1>3 DEF RowOK, Row
    <3>2. a.attempt + 1 \in 1 .. MaxAttempts
      BY <3>1, BoundAssumption
    <3> HIDE DEF a
    <3> QED BY <3>1, <3>2, NewRowOK
  <2> HIDE DEF a
  <2>4. n.pid = a.pid
    BY DEF NewRow
  <2> HIDE DEF n
  <2>5. d.pid = Up(m).pid /\ d.state = "leased" /\ d.consumer = r /\ Free(d) /\ Shows(d, LeaseTime)
    BY <1>1, <2>3, <2>4, LeasedFields
  <2> HIDE DEF d, old
  <2>6. Grant(m, r) # <<>> /\ Grant(m, r)[Len(Grant(m, r))] = d
    BY <2>1, <2>2, Newest
  <2> QED BY <1>2, <2>5, <2>6
<1>4. CASE ~a.completed
  <2> DEFINE d == Leased(a, r)
  <2>1. Grant(m, r) = Put(m, d)
    BY <1>4 DEF Grant
  <2> HIDE DEF a
  <2>2. d.pid = Up(m).pid /\ d.state = "leased" /\ d.consumer = r /\ Free(d) /\ Shows(d, LeaseTime)
    BY <1>1, LeasedFields
  <2> HIDE DEF d
  <2>3. Grant(m, r) # <<>> /\ Grant(m, r)[Len(Grant(m, r))] = d
    BY <2>1, PutNewest
  <2> QED BY <1>2, <2>2, <2>3
<1> QED BY <1>3, <1>4

(* What a claim makes of a message: it ends, is scheduled again or is      *)
(* handed out, or nothing happens to it.                                   *)
Stops(m, d) ==
  /\ d.state \in {"dead-lettered", "ambiguous"} /\ d.consumer = NoRun
  /\ d.state = "ambiguous" <=> Up(m).effect
Retries(m, d) ==
  /\ d.state = "scheduled" /\ d.consumer = NoRun
  /\ Up(m).state \in Live /\ ~Up(m).effect
Given(m, d, r) == d.state = "leased" /\ d.consumer = r /\ ~Up(m).effect

ClaimedMessage(r, swept, m) ==
  \/ /\ deliveries'[m] = deliveries[m]
     /\ Waits(m) => copies'[Up(m).pid] = copies[Up(m).pid]
  \/ \E d : /\ deliveries'[m] # <<>> /\ deliveries'[m][Len(deliveries'[m])] = d
            /\ Waits(m) /\ d.pid = Up(m).pid /\ Free(d)
            /\ \/ Stops(m, d) /\ copies'[d.pid].table # "q"
               \/ Retries(m, d) /\ copies'[d.pid].table = "q" /\ Shows(d, copies'[d.pid].vt)
               \/ Given(m, d, r) /\ copies'[d.pid].table = "q" /\ Shows(d, copies'[d.pid].vt)
                  /\ Met(swept, m) /\ Grantable(m)

LEMMA ClaimMessage ==
  ASSUME IInv, DInv, NEW r \in Runs, NEW lapsed \in SUBSET LapsedEffects,
         NEW stale \in SUBSET ExpiredWork, NEW swept, swept = lapsed \cup stale,
         \A p \in Scanned(swept) : ~Stray(p), NEW m \in Messages,
         deliveries'[m] = RowsAfterClaim(r, lapsed, stale, m),
         copies' = [p \in DOMAIN copies |-> CopyAfterClaim(swept, p)]
  PROVE  ClaimedMessage(r, swept, m)
<1> PICK p : p = Up(m).pid
  OBVIOUS
<1>1. Waits(m) => p \in DOMAIN copies /\ copies[p].table = "q" /\ copies'[p] = CopyAfterClaim(swept, p)
  BY Ours DEF InQueue
<1>2. Waits(m) => copies'[p] = OwnCopy(swept, m, p)
  <2> SUFFICES ASSUME Waits(m) PROVE copies'[p] = OwnCopy(swept, m, p)
    OBVIOUS
  <2>1. \A n \in swept : n \in Messages /\ Waits(n) /\ CurrentRow(n) = Up(n)
    BY SweptWaits
  <2>2. CopyAfterClaim(swept, p) = OwnCopy(swept, m, p)
    BY <2>1, ClaimedCopy
  <2> QED BY <1>1, <2>2
<1>3. deliveries'[m] =
           IF m \in lapsed THEN Put(m, Settle(Up(m), "expire"))
           ELSE IF m \in stale THEN Put(m, DeadLetter(Up(m)))
           ELSE IF ~Met(swept, m) THEN deliveries[m]
           ELSE IF Grantable(m) THEN Grant(m, r)
           ELSE Put(m, Passed(m))
  BY ClaimedRows
<1>4. Up(m) \in Row /\ RowOK(Up(m))
  BY Rows
<1>5. CASE m \in swept
  <2>1. /\ Waits(m)
        /\ m \in lapsed => Up(m).effect
        /\ m \notin lapsed => m \in stale /\ ~Up(m).effect
    <3>1. m \in lapsed \cup stale /\ (m \notin lapsed => m \in stale)
      BY <1>5
    <3>2. /\ Waits(m)
          /\ m \in lapsed => Up(m).state = "begun"
          /\ m \in stale => Up(m).state \in {"ready", "scheduled"}
      BY <3>1, SweptWaits
    <3> QED BY <1>4, <3>1, <3>2 DEF RowOK, Uncertain
  <2>2. copies'[p].table # "q"
    BY <1>1, <1>2, <1>5, <2>1, MappedFields DEF OwnCopy
  <2> DEFINE d == IF m \in lapsed THEN Settle(Up(m), "expire") ELSE DeadLetter(Up(m))
  <2>3. deliveries'[m] = Put(m, d)
    BY <1>3, <2>1
  <2>4. d.pid = p /\ Free(d) /\ Stops(m, d)
    BY <1>4, <2>1, SettleFields, ClosedFields DEF DeadLetter, Stops
  <2> HIDE DEF d
  <2>5. deliveries'[m] # <<>> /\ deliveries'[m][Len(deliveries'[m])] = d
    BY <2>3, PutNewest
  <2> QED BY <2>1, <2>2, <2>4, <2>5 DEF ClaimedMessage
<1>6. CASE m \notin swept /\ ~Met(swept, m)
  BY <1>2, <1>3, <1>6 DEF OwnCopy, ClaimedMessage
<1>7. CASE m \notin swept /\ Met(swept, m)
  <2>1. p \in Scanned(swept) /\ Reads(swept, m, p) /\ ~Stray(p)
    BY <1>7 DEF Met
  <2>2. Waits(m) /\ Due(copies[p].vt) /\ (Up(m).state \in Live => Due(Up(m).lease))
    BY <2>1, Reading
  <2>3. CASE Grantable(m)
    <3>1. copies'[p].table = "q" /\ copies'[p].vt = LeaseTime
      <4>1. copies[p] \in Copy /\ copies[p].table = "q"
        BY <1>1, <2>2 DEF IInv, TypeOK
      <4>2. copies'[p] = [copies[p] EXCEPT !.vt = LeaseTime]
        BY <1>2, <1>7, <2>2, <2>3 DEF OwnCopy
      <4> QED BY <4>1, <4>2 DEF Copy
    <3>2. deliveries'[m] = Grant(m, r)
      BY <1>3, <1>7, <2>3
    <3>3. PICK d : /\ d = Grant(m, r)[Len(Grant(m, r))]
                   /\ d.pid = Up(m).pid /\ d.state = "leased" /\ d.consumer = r /\ Free(d)
                   /\ Shows(d, LeaseTime)
      BY <2>2, <2>3, Granting
    <3>4. Grant(m, r) # <<>> /\ ~Up(m).effect
      BY <2>2, <2>3, Granting
    <3>5. /\ deliveries'[m] # <<>> /\ deliveries'[m][Len(deliveries'[m])] = d
          /\ Given(m, d, r) /\ Shows(d, copies'[d.pid].vt)
      BY <3>1, <3>2, <3>3, <3>4 DEF Given
    <3> QED BY <1>7, <2>2, <2>3, <3>1, <3>3, <3>5 DEF ClaimedMessage
  <2>4. CASE ~Grantable(m)
    <3> DEFINE d == Passed(m)
    <3>1. /\ d.pid = p /\ Free(d) /\ d.consumer = NoRun
          /\ d.state \in {"scheduled", "ambiguous", "dead-lettered"}
          /\ d.state = "ambiguous" <=> Up(m).effect
          /\ d.state = "scheduled" => Up(m).state \in Live /\ ~Up(m).effect
      BY <2>2, <2>4, Passing
    <3>2. deliveries'[m] = Put(m, d)
      BY <1>3, <1>7, <2>4
    <3>3. copies'[p] = IF d.state = "scheduled" THEN [copies[p] EXCEPT !.vt = d.next]
                       ELSE Archived(copies[p])
      BY <1>2, <1>7, <2>2, <2>4 DEF OwnCopy
    <3> HIDE DEF d
    <3>4. deliveries'[m] # <<>> /\ deliveries'[m][Len(deliveries'[m])] = d
      BY <3>2, PutNewest
    <3>5. CASE d.state = "scheduled"
      <4>1. copies'[p].table = "q" /\ Shows(d, copies'[p].vt)
        <5>1. copies[p] \in Copy /\ copies[p].table = "q"
          BY <1>1, <2>2 DEF IInv, TypeOK
        <5>2. copies'[p] = [copies[p] EXCEPT !.vt = d.next]
          BY <3>3, <3>5
        <5>3. copies'[p].table = "q" /\ copies'[p].vt = d.next
          BY <5>1, <5>2 DEF Copy
        <5> QED BY <3>5, <5>3 DEF Shows, Live
      <4> QED BY <2>2, <3>1, <3>4, <3>5, <4>1 DEF Retries, ClaimedMessage
    <3>6. CASE d.state # "scheduled"
      <4>1. copies'[p].table # "q" /\ Stops(m, d)
        BY <1>1, <2>2, <3>1, <3>3, <3>6, MappedFields DEF Stops
      <4> QED BY <2>2, <3>1, <3>4, <4>1 DEF ClaimedMessage
    <3> QED BY <3>5, <3>6
  <2> QED BY <2>3, <2>4
<1> QED BY <1>5, <1>6, <1>7

LEMMA ClaimPairs ==
  ASSUME IInv, DInv, NEW r \in Runs, Claim(r)
  PROVE  DInv'
<1>1. PICK lapsed \in SUBSET LapsedEffects, stale \in SUBSET ExpiredWork :
        /\ \A p \in Scanned(lapsed \cup stale) : ~Stray(p)
        /\ deliveries' = [m \in Messages |-> RowsAfterClaim(r, lapsed, stale, m)]
        /\ copies' = [p \in DOMAIN copies |-> CopyAfterClaim(lapsed \cup stale, p)]
  BY DEF Claim
<1>2. PICK swept : swept = lapsed \cup stale
  OBVIOUS
<1>3. copies' = [p \in DOMAIN copies |-> CopyAfterClaim(swept, p)] /\ messages' = messages
  BY <1>1, <1>2 DEF Claim
<1>4. Evolved(copies, copies') /\ Stored(copies, copies') /\ DOMAIN copies' = DOMAIN copies
  BY <1>3, ClaimKeepsCopies
<1>5. ASSUME NEW m \in Messages
      PROVE  \/ /\ deliveries'[m] = deliveries[m]
                /\ Waits(m) => copies'[Up(m).pid] = copies[Up(m).pid]
             \/ \E d : /\ deliveries'[m] # <<>> /\ deliveries'[m][Len(deliveries'[m])] = d
                       /\ Waits(m) /\ d.pid = Up(m).pid /\ Free(d)
                       /\ \/ d.state \in Dispatchable /\ copies'[d.pid].table = "q"
                             /\ Shows(d, copies'[d.pid].vt)
                          \/ d.state \notin Dispatchable /\ copies'[d.pid].table # "q"
  <2>1. \A p \in Scanned(swept) : ~Stray(p)
    BY <1>1, <1>2
  <2>2. deliveries'[m] = RowsAfterClaim(r, lapsed, stale, m)
    BY <1>1
  <2>3. CASE /\ deliveries'[m] = deliveries[m]
             /\ Waits(m) => copies'[Up(m).pid] = copies[Up(m).pid]
    BY <2>3
  <2>4. ASSUME NEW d, deliveries'[m] # <<>>, deliveries'[m][Len(deliveries'[m])] = d,
               Waits(m), d.pid = Up(m).pid, Free(d),
               \/ Stops(m, d) /\ copies'[d.pid].table # "q"
               \/ Retries(m, d) /\ copies'[d.pid].table = "q" /\ Shows(d, copies'[d.pid].vt)
               \/ Given(m, d, r) /\ copies'[d.pid].table = "q" /\ Shows(d, copies'[d.pid].vt)
        PROVE  \/ d.state \in Dispatchable /\ copies'[d.pid].table = "q" /\ Shows(d, copies'[d.pid].vt)
               \/ d.state \notin Dispatchable /\ copies'[d.pid].table # "q"
    BY <2>4 DEF Stops, Retries, Given, Dispatchable
  <2>5. ClaimedMessage(r, swept, m)
    BY <1>2, <1>3, <2>1, <2>2, ClaimMessage
  <2>6. CASE \E d : /\ deliveries'[m] # <<>> /\ deliveries'[m][Len(deliveries'[m])] = d
                    /\ Waits(m) /\ d.pid = Up(m).pid /\ Free(d)
                    /\ \/ Stops(m, d) /\ copies'[d.pid].table # "q"
                       \/ Retries(m, d) /\ copies'[d.pid].table = "q" /\ Shows(d, copies'[d.pid].vt)
                       \/ Given(m, d, r) /\ copies'[d.pid].table = "q" /\ Shows(d, copies'[d.pid].vt)
    BY <2>4, <2>6
  <2> QED BY <2>3, <2>5, <2>6 DEF ClaimedMessage
<1> QED BY <1>3, <1>4, <1>5, Swept

-----------------------------------------------------------------------------
(* Ledger and dispatch table                                               *)

LEMMA InitPairs == Init => DInv
<1> SUFFICES ASSUME Init PROVE DInv
  OBVIOUS
<1>1. IInv
  BY InitOK
<1>2. /\ copies = [p \in DOMAIN Legacy |-> NewCopy(Legacy[p])]
      /\ \A m \in Messages : deliveries[m] = <<>>
  BY DEF Init
<1>3. \A p \in DOMAIN Legacy : p \in Nat \ {0} /\ Legacy[p] \in Messages
      /\ \A q \in DOMAIN Legacy : Legacy[p] = Legacy[q] => p = q
  BY ActorAssumption
<1>4. ASSUME NEW m \in Messages
      PROVE  \/ messages[m].pid = 0 /\ \A p \in DOMAIN Legacy : Legacy[p] # m
             \/ messages[m].pid \in DOMAIN Legacy /\ Legacy[messages[m].pid] = m
  <2>1. PICK hash \in [DOMAIN Legacy -> Payloads], ttl \in [DOMAIN Legacy -> Retentions] :
          messages = [i \in Messages |->
            IF \E p \in DOMAIN Legacy : Legacy[p] = i
            THEN LET p == CHOOSE p \in DOMAIN Legacy : Legacy[p] = i IN
                 [pid |-> p, hash |-> hash[p], ttl |-> ttl[p]]
            ELSE Unsent]
    BY DEF Init
  <2>2. CASE \E p \in DOMAIN Legacy : Legacy[p] = m
    <3>1. PICK p : p = CHOOSE o \in DOMAIN Legacy : Legacy[o] = m
      OBVIOUS
    <3>2. p \in DOMAIN Legacy /\ Legacy[p] = m
      BY <2>2, <3>1
    <3>3. messages[m].pid = p
      BY <2>1, <2>2, <3>1
    <3> QED BY <3>2, <3>3
  <2>3. CASE ~\E p \in DOMAIN Legacy : Legacy[p] = m
    BY <2>1, <2>3 DEF Unsent
  <2> QED BY <2>2, <2>3
<1>5. \A p \in DOMAIN copies : /\ p \in DOMAIN Legacy /\ copies[p].message = Legacy[p]
                               /\ copies[p].table = "q" /\ Due(copies[p].vt) /\ ~copies[p].scrubbed
  BY <1>2 DEF NewCopy, Due
<1>6. ASSUME NEW m \in Messages
      PROVE  /\ Served(deliveries[m], messages[m].pid, copies, m)
             /\ Kept(messages[m], copies, m) /\ Freed(deliveries[m])
  <2>1. Up(m) = NewRow(messages[m].pid, 1, 1) /\ (Waits(m) => messages[m].pid # 0)
    BY <1>2 DEF Up, Upcoming, Waits, Pending
  <2>2. messages[m].pid # 0 => messages[m].pid \in DOMAIN copies
    BY <1>2, <1>4
  <2>3. Up(m).pid = messages[m].pid
    BY <2>1 DEF NewRow
  <2>4. \A vt : Shows(Up(m), vt) <=> Due(vt)
    BY <2>1 DEF NewRow, Shows, Live
  <2>5. Served(deliveries[m], messages[m].pid, copies, m)
    BY <1>4, <1>5, <2>1, <2>2, <2>3, <2>4 DEF Served, Up, Waits, InQueue
  <2> QED BY <1>2, <1>3, <1>4, <1>5, <2>2, <2>5 DEF Kept, Freed
<1>7. ASSUME NEW p \in DOMAIN copies, NEW m, m = copies[p].message
      PROVE  Wanted(deliveries, messages, copies, p)
  <2>1. m \in Messages /\ p = messages[m].pid /\ p # 0
    BY <1>3, <1>4, <1>5, <1>7
  <2>2. Up(m) = NewRow(p, 1, 1)
    BY <1>2, <2>1 DEF Up, Upcoming
  <2>3. Up(m).pid = p /\ Up(m).state \in Dispatchable
    BY <2>2 DEF NewRow, Dispatchable
  <2> QED BY <1>7, <2>1, <2>3 DEF Wanted, Pending, Up
<1> QED BY <1>6, <1>7 DEF DInv, Paired

LEMMA PairsStep ==
  ASSUME IInv, IInv', DInv, [Next]_vars
  PROVE  DInv'
<1>1. ASSUME NEW r \in Runs, NEW m \in Messages, NEW k \in RowIds(m), NEW c \in Receipts(m, k),
             \/ Renew(r, m, k, c) \/ Ack(r, m, k, c) \/ Nack(r, m, k, c) \/ Hold(r, m, k, c)
             \/ \E key \in EffectKeys : BeginEffect(r, m, k, c, key)
      PROVE  DInv'
  BY <1>1, RenewPairs, ReportPairs, HoldPairs, BeginPairs DEF Ack, Nack
<1>2. ASSUME NEW m \in Messages, NEW k \in RowIds(m), Replay(m, k) \/ Release(m, k)
      PROVE  DInv'
  <2>1. /\ k \in DOMAIN deliveries[m] /\ deliveries[m][k].current
        /\ deliveries[m][k].state \notin Dispatchable
        /\ Redispatch(m, k, Superseded(deliveries[m][k])) /\ messages' = messages
    BY <1>2 DEF Replay, Release, Redispatchable, IsCurrent, Dispatchable
  <2> QED BY <2>1, RedispatchPairs
<1>3. ASSUME NEW m \in Messages, NEW k \in RowIds(m),
             ReconcileUnknown(m, k) \/ ReconcileApplied(m, k) \/ ReconcileNotApplied(m, k)
      PROVE  DInv'
  <2>1. CASE ReconcileUnknown(m, k)
    BY <2>1, Still DEF ReconcileUnknown
  <2>2. CASE ReconcileApplied(m, k)
    BY <2>2, AppliedPairs
  <2>3. CASE ReconcileNotApplied(m, k)
    <3>1. /\ k \in DOMAIN deliveries[m] /\ deliveries[m][k].current
          /\ deliveries[m][k].state \notin Dispatchable
          /\ Redispatch(m, k, [Superseded(deliveries[m][k]) EXCEPT !.state = "cancelled"])
          /\ messages' = messages
      BY <2>3 DEF ReconcileNotApplied, Reconcilable, IsCurrent, Dispatchable, Uncertain
    <3> QED BY <3>1, RedispatchPairs
  <2> QED BY <1>3, <2>1, <2>2, <2>3
<1>4. ConsumerStep => DInv'
  BY <1>1 DEF ConsumerStep
<1>5. UserStep => DInv'
  BY <1>2, <1>3, CancelPairs DEF UserStep
<1>6. Restore \/ OpenGate \/ UNCHANGED vars => DInv'
  BY Still DEF Restore, OpenGate, vars
<1>7. \A p \in Revocable : Revoke(p) => DInv'
  BY RevokePairs, ActorAssumption
<1>8. \A r \in Runs, found \in SUBSET DOMAIN Legacy :
        Recover(r, {Legacy[p] : p \in found}) => DInv'
  BY RecoverPairs
<1> QED BY <1>4, <1>5, <1>6, <1>7, <1>8, SendPairs, ClaimPairs, PurgePairs, RestoreBatchPairs,
           TickPairs DEF Next

LEMMA DispatchInvariant == Spec => [](IInv /\ DInv)
<1>1. Init => DInv
  BY InitPairs
<1>2. IInv /\ IInv' /\ DInv /\ [Next]_vars => DInv'
  BY PairsStep
<1> QED BY <1>1, <1>2, LedgerInvariant, PTL DEF Spec

(* Every delivery that may be claimed or is in flight has its copy in q_,  *)
(* visible when its row says so, and q_ holds nothing else: no verb finds  *)
(* a copy missing (queue_unavailable), and no message is lost.             *)
THEOREM DispatchAgrees == Spec => []DispatchMatchesLedger
<1>1. IInv /\ DInv => DispatchMatchesLedger
  <2> SUFFICES ASSUME IInv, DInv PROVE DispatchMatchesLedger
    OBVIOUS
  <2>1. ASSUME NEW m \in Messages, HasCurrent(m), CurrentRow(m).state \in Dispatchable
        PROVE  LET d == CurrentRow(m)
                   c == copies[d.pid]
               IN  /\ c.table = "q" /\ c.message = m
                   /\ d.state \in Live => c.vt = d.lease
                   /\ d.state = "scheduled" => c.vt = d.next
                   /\ d.state = "ready" => Due(c.vt)
    <3>1. Waits(m) /\ CurrentRow(m) = Up(m)
      BY <2>1, Rows
    <3> QED BY <3>1, Ours DEF InQueue, Shows
  <2>2. ASSUME NEW p \in DOMAIN copies, copies[p].table = "q", NEW m, m = copies[p].message
        PROVE  IF HasRow(m)
               THEN HasCurrent(m) /\ CurrentRow(m).pid = p /\ CurrentRow(m).state \in Dispatchable
               ELSE messages[m].pid = p /\ Due(copies[p].vt)
    <3>1. copies[p] \in Copy
      BY DEF IInv, TypeOK
    <3>2. m \in Messages /\ Waits(m) /\ Up(m).pid = p
      BY <2>2, <3>1 DEF DInv, Paired, Wanted, Waits, Up, Copy
    <3>3. CASE HasRow(m)
      BY <3>2, <3>3, Rows DEF HasRow
    <3>4. CASE ~HasRow(m)
      <4>1. Up(m) = NewRow(messages[m].pid, 1, 1)
        BY <3>4 DEF Up, Upcoming, HasRow
      <4>2. Up(m).pid = messages[m].pid /\ \A vt : Shows(Up(m), vt) => Due(vt)
        BY <4>1 DEF NewRow, Shows, Live
      <4> QED BY <3>2, <3>4, <4>2, Ours
    <3> QED BY <3>3, <3>4
  <2> QED BY <2>1, <2>2 DEF DispatchMatchesLedger
<1> QED BY <1>1, DispatchInvariant, PTL

(* The payload of a message that has not expired can be read, whatever was *)
(* archived, purged or redispatched since: payload_read_failed is never    *)
(* raised.                                                                 *)
THEOREM PayloadsKept == Spec => []PayloadKept
<1>1. IInv /\ DInv => PayloadKept
  BY DEF DInv, Kept, PayloadKept, Sent, Expired, Readable
<1> QED BY <1>1, DispatchInvariant, PTL


-----------------------------------------------------------------------------
(* The promise.                                                            *)

(* What QueuePromise sees of the rows of a message. *)
Stage(rows) == IF rows = <<>> THEN "none" ELSE PhaseOf(rows[Len(rows)].state)
Holder(rows) == IF rows = <<>> THEN NoRun ELSE rows[Len(rows)].consumer

Viewed ==
  IInv => \A m \in Messages : /\ PhaseBar[m] = Stage(deliveries[m])
                              /\ OwnerBar[m] = Holder(deliveries[m])
                              /\ KeyBar[m] = effects[m].key
                              /\ MaybeBar[m] = LiveEffect(m)

LEMMA View == Viewed
<1> SUFFICES ASSUME IInv, NEW m \in Messages
             PROVE  /\ PhaseBar[m] = Stage(deliveries[m])
                    /\ OwnerBar[m] = Holder(deliveries[m])
                    /\ KeyBar[m] = effects[m].key
                    /\ MaybeBar[m] = LiveEffect(m)
  BY DEF Viewed
<1>1. HasCurrent(m) <=> deliveries[m] # <<>>
  BY Rows
<1>2. HasCurrent(m) => CurrentRow(m) = deliveries[m][Len(deliveries[m])]
  BY Rows
<1> QED BY <1>1, <1>2 DEF PhaseBar, OwnerBar, KeyBar, MaybeBar, Stage, Holder

LEMMA ViewNext == Viewed'
BY View, PTL

LEMMA Phased ==
  /\ PhaseOf("ready") = "waiting" /\ PhaseOf("scheduled") = "waiting"
  /\ PhaseOf("leased") = "working" /\ PhaseOf("begun") = "working"
  /\ PhaseOf("ambiguous") = "unsure" /\ PhaseOf("effect-paused") = "unsure"
  /\ PhaseOf("succeeded") = "done"
  /\ PhaseOf("dead-lettered") = "stopped" /\ PhaseOf("held") = "stopped"
  /\ PhaseOf("cancelled") = "stopped"
BY DEF PhaseOf, Live, Uncertain

LEMMA PromiseTyped == IInv => Abstract!PromiseTypeOK
<1> SUFFICES ASSUME IInv PROVE Abstract!PromiseTypeOK
  OBVIOUS
<1>1. ASSUME NEW m \in Messages
      PROVE  /\ Stage(deliveries[m]) \in Abstract!Phases
             /\ Holder(deliveries[m]) \in Runs \cup {NoRun}
             /\ effects[m].key \in EffectKeys \cup {NoKey}
             /\ LiveEffect(m) \in BOOLEAN
  <2>1. CASE deliveries[m] = <<>>
    BY <2>1 DEF Stage, Holder, Abstract!Phases, IInv, TypeOK, LiveEffect
  <2>2. CASE deliveries[m] # <<>>
    <3>1. PICK d : d = deliveries[m][Len(deliveries[m])]
      OBVIOUS
    <3>2. d \in Row
      BY <2>2, <3>1, Rows
    <3>3. PhaseOf(d.state) \in Abstract!Phases /\ d.consumer \in Runs \cup {NoRun}
      BY <3>2, Phased DEF Row, States, Abstract!Phases
    <3> QED BY <2>2, <3>1, <3>3 DEF Stage, Holder, IInv, TypeOK, LiveEffect
  <2> QED BY <2>1, <2>2
<1>2. \A m \in Messages : /\ PhaseBar[m] = Stage(deliveries[m])
                          /\ OwnerBar[m] = Holder(deliveries[m])
                          /\ KeyBar[m] = effects[m].key
                          /\ MaybeBar[m] = LiveEffect(m)
  BY View DEF Viewed
<1>3. /\ PhaseBar = [m \in Messages |-> PhaseBar[m]] /\ OwnerBar = [m \in Messages |-> OwnerBar[m]]
      /\ KeyBar = [m \in Messages |-> KeyBar[m]] /\ MaybeBar = [m \in Messages |-> MaybeBar[m]]
  BY DEF PhaseBar, OwnerBar, KeyBar, MaybeBar
<1> QED BY <1>1, <1>2, <1>3 DEF Abstract!PromiseTypeOK

(* What a step is to be shown to do. *)
Keeps ==
  /\ \A m \in Messages : Abstract!Move(m) \/ Abstract!Same(m)
  /\ \A m, n \in Abstract!Taken : m = n

LEMMA Stays ==
  ASSUME IInv, IInv', NEW m \in Messages, effects'[m] = effects[m],
         Stage(deliveries'[m]) = Stage(deliveries[m]), Holder(deliveries'[m]) = Holder(deliveries[m])
  PROVE  Abstract!Same(m)
<1>1. (LiveEffect(m))' = LiveEffect(m)
  BY DEF LiveEffect
<1> QED BY <1>1, View, ViewNext DEF Viewed, Abstract!Same, Abstract!Becomes, Abstract!SameEffect

(* Only m moves. *)
LEMMA OneMoves ==
  ASSUME IInv, IInv', NEW m \in Messages, Abstract!Move(m) \/ Abstract!Same(m),
         \A n \in Messages : n # m => deliveries'[n] = deliveries[n] /\ effects'[n] = effects[n]
  PROVE  Keeps
<1>1. ASSUME NEW n \in Messages, n # m PROVE Abstract!Same(n)
  BY <1>1, Stays
<1>2. \A n \in Abstract!Taken : n = m
  BY <1>1 DEF Abstract!Taken, Abstract!Same, Abstract!Becomes
<1> QED BY <1>1, <1>2 DEF Keeps

(* Nobody is handed anything. *)
LEMMA NobodyTakes ==
  ASSUME \A m \in Messages : /\ Abstract!Move(m) \/ Abstract!Same(m)
                             /\ OwnerBar'[m] \in {NoRun, OwnerBar[m]}
  PROVE  Keeps
BY DEF Keeps, Abstract!Taken

LEMMA Before ==
  ASSUME IInv, NEW m \in Messages
  PROVE  /\ HasCurrent(m) => PhaseBar[m] = PhaseOf(Up(m).state) /\ OwnerBar[m] = Up(m).consumer
         /\ ~HasCurrent(m) => PhaseBar[m] = "none" /\ OwnerBar[m] = NoRun /\ Up(m).state = "ready"
         /\ KeyBar[m] = effects[m].key
         /\ MaybeBar[m] <=> Up(m).effect
         /\ MaybeBar[m] <=> LiveEffect(m)
<1>1. /\ PhaseBar[m] = Stage(deliveries[m]) /\ OwnerBar[m] = Holder(deliveries[m])
      /\ KeyBar[m] = effects[m].key /\ MaybeBar[m] = LiveEffect(m)
  BY View DEF Viewed
<1>2. /\ HasCurrent(m) <=> deliveries[m] # <<>>
      /\ LiveEffect(m) <=> Up(m).effect
  BY Rows
<1>3. CASE HasCurrent(m)
  <2>1. Up(m) = deliveries[m][Len(deliveries[m])]
    BY <1>2, <1>3 DEF Up, Upcoming
  <2> QED BY <1>1, <1>2, <1>3, <2>1 DEF Stage, Holder
<1>4. CASE ~HasCurrent(m)
  <2>1. Up(m).state = "ready"
    BY <1>2, <1>4 DEF Up, Upcoming, NewRow
  <2> QED BY <1>1, <1>2, <1>4, <2>1 DEF Stage, Holder
<1> QED BY <1>3, <1>4

LEMMA After ==
  ASSUME IInv', NEW m \in Messages, deliveries'[m] # <<>>, NEW d, deliveries'[m][Len(deliveries'[m])] = d
  PROVE  PhaseBar'[m] = PhaseOf(d.state) /\ OwnerBar'[m] = d.consumer
BY ViewNext DEF Viewed, Stage, Holder

LEMMA EffectKept ==
  ASSUME IInv, IInv', NEW m \in Messages, effects'[m] = effects[m]
  PROVE  Abstract!SameEffect(m)
<1>1. (LiveEffect(m))' = LiveEffect(m)
  BY DEF LiveEffect
<1> QED BY <1>1, View, ViewNext DEF Viewed, Abstract!SameEffect

LEMMA GivingUp ==
  ASSUME IInv, IInv', NEW m \in Messages, Up(m).state \in Dispatchable, effects'[m] = effects[m],
         deliveries'[m] # <<>>, NEW d, deliveries'[m][Len(deliveries'[m])] = d, d.consumer = NoRun,
         d.state \in IF Up(m).effect THEN Uncertain ELSE {"dead-lettered", "held", "cancelled"}
  PROVE  Abstract!GiveUp(m) /\ OwnerBar'[m] = NoRun
<1>1. PhaseBar[m] \in {"none", "waiting", "working"} /\ (MaybeBar[m] <=> Up(m).effect)
  BY Before, Phased DEF Dispatchable
<1>2. PhaseBar'[m] = (IF Up(m).effect THEN "unsure" ELSE "stopped") /\ OwnerBar'[m] = NoRun
  BY After, Phased DEF Uncertain
<1> QED BY <1>1, <1>2, EffectKept DEF Abstract!GiveUp, Abstract!Becomes

LEMMA Offering ==
  ASSUME IInv, IInv', NEW m \in Messages, effects'[m] = effects[m],
         \/ ~HasCurrent(m)
         \/ HasCurrent(m) /\ Up(m).state \in {"dead-lettered", "held", "cancelled"}
         \/ HasCurrent(m) /\ Up(m).state \in Live /\ ~Up(m).effect,
         deliveries'[m] # <<>>, NEW d, deliveries'[m][Len(deliveries'[m])] = d, d.consumer = NoRun,
         d.state \in {"ready", "scheduled"}
  PROVE  Abstract!Offer(m) /\ OwnerBar'[m] = NoRun
<1>1. PhaseBar[m] \in {"none", "stopped"} \/ (PhaseBar[m] = "working" /\ ~MaybeBar[m])
  BY Before, Phased DEF Live
<1>2. PhaseBar'[m] = "waiting" /\ OwnerBar'[m] = NoRun
  BY After, Phased
<1> QED BY <1>1, <1>2, EffectKept DEF Abstract!Offer, Abstract!Becomes

LEMMA Taking ==
  ASSUME IInv, IInv', NEW m \in Messages, effects'[m] = effects[m],
         Up(m).state \in Dispatchable, ~Up(m).effect, NEW r \in Runs,
         deliveries'[m] # <<>>, NEW d, deliveries'[m][Len(deliveries'[m])] = d, d.consumer = r,
         d.state = "leased"
  PROVE  Abstract!Take(m, r)
<1>1. PhaseBar[m] \in {"none", "waiting", "working"} /\ ~MaybeBar[m]
  BY Before, Phased DEF Dispatchable
<1>2. PhaseBar'[m] = "working" /\ OwnerBar'[m] = r
  BY After, Phased
<1> QED BY <1>1, <1>2, EffectKept DEF Abstract!Take, Abstract!Becomes

(* A row that its consumer reports on, or a User decides about. *)
LEMMA Finishing ==
  ASSUME IInv, IInv', NEW m \in Messages, effects'[m] = effects[m], HasCurrent(m),
         Up(m).state \in Live \cup Uncertain,
         deliveries'[m] # <<>>, NEW d, deliveries'[m][Len(deliveries'[m])] = d, d.consumer = NoRun,
         d.state = "succeeded"
  PROVE  Abstract!Move(m)
<1>1. PhaseBar[m] \in {"working", "unsure"}
  BY Before, Phased DEF Live, Uncertain
<1>2. PhaseBar'[m] = "done" /\ OwnerBar'[m] = NoRun
  BY After, Phased
<1> QED BY <1>1, <1>2, EffectKept
        DEF Abstract!Move, Abstract!Finish, Abstract!Applied, Abstract!Becomes

-----------------------------------------------------------------------------
(* The verbs: what each does to what is promised.                          *)

LEMMA SendKeeps ==
  ASSUME IInv, IInv', NEW r \in Runs, NEW m \in Messages, NEW h \in Payloads, NEW ttl \in Retentions,
         Send(r, m, h, ttl)
  PROVE  Keeps
<1> DEFINE d == NewRow(Len(copies) + 1, 1, 1)
<1>1. ~HasCurrent(m)
  BY Rows, CurrentIsNewest DEF Send, IInv
<1>2. /\ deliveries'[m] = <<d>> /\ effects' = effects
      /\ \A n \in Messages : n # m => deliveries'[n] = deliveries[n]
  BY DEF Send, IInv, TypeOK
<1>3. d.state = "ready" /\ d.consumer = NoRun
  BY DEF NewRow
<1> HIDE DEF d
<1>4. deliveries'[m] # <<>> /\ deliveries'[m][Len(deliveries'[m])] = d
  BY <1>2
<1>5. Abstract!Offer(m)
  BY <1>1, <1>2, <1>3, <1>4, Offering
<1> QED BY <1>2, <1>5, OneMoves DEF Abstract!Move

LEMMA RecoverKeeps ==
  ASSUME IInv, IInv', NEW r \in Runs, NEW candidates, Recover(r, candidates)
  PROVE  Keeps
<1>1. effects' = effects
  BY DEF Recover
<1>2. ASSUME NEW m \in Messages
      PROVE  (Abstract!Move(m) \/ Abstract!Same(m)) /\ OwnerBar'[m] \in {NoRun, OwnerBar[m]}
  <2>1. CASE m \in candidates /\ Sent(m) /\ ~HasRow(m)
    <3> DEFINE d == NewRow(messages[m].pid, 1, 1)
    <3>1. deliveries'[m] = <<d>> /\ ~HasCurrent(m)
      BY <2>1, CurrentIsNewest DEF Recover
    <3>2. d.state = "ready" /\ d.consumer = NoRun
      BY DEF NewRow
    <3> HIDE DEF d
    <3>3. deliveries'[m] # <<>> /\ deliveries'[m][Len(deliveries'[m])] = d
      BY <3>1
    <3> QED BY <1>1, <3>1, <3>2, <3>3, Offering DEF Abstract!Move
  <2>2. CASE ~(m \in candidates /\ Sent(m) /\ ~HasRow(m))
    <3>1. deliveries'[m] = deliveries[m]
      BY <2>2 DEF Recover
    <3> QED BY <1>1, <3>1, Stays DEF Abstract!Same, Abstract!Becomes
  <2> QED BY <2>1, <2>2
<1> QED BY <1>2, NobodyTakes

(* A verb under a receipt: the rows of other messages stay.                *)
LEMMA Fencing ==
  ASSUME IInv, NEW r \in Runs, NEW m \in Messages, NEW k, NEW c, Fenced(r, m, k, c),
         NEW d, Write(m, k, d)
  PROVE  /\ deliveries'[m] # <<>> /\ deliveries'[m][Len(deliveries'[m])] = d
         /\ \A n \in Messages : n # m => deliveries'[n] = deliveries[n]
         /\ HasCurrent(m) /\ deliveries[m][k] = Up(m) /\ Up(m) \in Row /\ RowOK(Up(m))
         /\ Up(m).state \in Live /\ Up(m).state \in Dispatchable
<1>1. /\ k \in DOMAIN deliveries[m] /\ deliveries[m][k].current /\ deliveries[m][k].state \in Live
      /\ deliveries[m][k] \in Row /\ RowOK(deliveries[m][k])
  BY FencedRow
<1> QED BY <1>1, Writing DEF Live, Dispatchable

LEMMA RenewKeeps ==
  ASSUME IInv, IInv', NEW r \in Runs, NEW m \in Messages, NEW k, NEW c, Renew(r, m, k, c)
  PROVE  Keeps
<1> DEFINE d == [deliveries[m][k] EXCEPT !.lease = LeaseTime]
<1>1. Fenced(r, m, k, c) /\ Write(m, k, d) /\ effects' = effects
  BY DEF Renew
<1>2. /\ deliveries'[m] # <<>> /\ deliveries'[m][Len(deliveries'[m])] = d
      /\ \A n \in Messages : n # m => deliveries'[n] = deliveries[n]
      /\ HasCurrent(m) /\ deliveries[m][k] = Up(m) /\ Up(m) \in Row
  BY <1>1, Fencing
<1>3. d.state = Up(m).state /\ d.consumer = Up(m).consumer
  BY <1>2 DEF Row
<1> HIDE DEF d
<1>4. PhaseBar'[m] = PhaseBar[m] /\ OwnerBar'[m] = OwnerBar[m]
  BY <1>2, <1>3, Before, After
<1>5. Abstract!Same(m)
  BY <1>1, <1>4, EffectKept DEF Abstract!Same, Abstract!Becomes
<1> QED BY <1>1, <1>2, <1>5, OneMoves

LEMMA ReportKeeps ==
  ASSUME IInv, IInv', NEW r \in Runs, NEW m \in Messages, NEW k, NEW c,
         NEW verb \in {"ack", "nack"}, Report(r, m, k, c, verb)
  PROVE  Keeps
<1> DEFINE s == Settle(deliveries[m][k], verb)
           d == [s EXCEPT !.reported = c]
<1>1. Fenced(r, m, k, c) /\ Write(m, k, d) /\ effects' = effects
  BY DEF Report
<1>2. /\ deliveries'[m] # <<>> /\ deliveries'[m][Len(deliveries'[m])] = d
      /\ \A n \in Messages : n # m => deliveries'[n] = deliveries[n]
      /\ HasCurrent(m) /\ deliveries[m][k] = Up(m) /\ Up(m) \in Row /\ RowOK(Up(m))
      /\ Up(m).state \in Live /\ Up(m).state \in Dispatchable
  BY <1>1, Fencing
<1>3. /\ s \in Row /\ s.consumer = NoRun
      /\ s.state \in {"succeeded", "ambiguous", "dead-lettered", "scheduled"}
      /\ s.state # "succeeded" => (Up(m).effect <=> s.state = "ambiguous")
  BY <1>2, SettleOK, SettleFields
<1> HIDE DEF s
<1>4. d.state = s.state /\ d.consumer = NoRun
  BY <1>3 DEF Row
<1> HIDE DEF d
<1>5. Abstract!Move(m)
  <2>1. CASE s.state = "succeeded"
    BY <1>1, <1>2, <1>4, <2>1, Finishing
  <2>2. CASE s.state = "scheduled"
    BY <1>1, <1>2, <1>3, <1>4, <2>2, Offering DEF Abstract!Move
  <2>3. CASE s.state \in {"ambiguous", "dead-lettered"}
    BY <1>1, <1>2, <1>3, <1>4, <2>3, GivingUp DEF Abstract!Move, Uncertain
  <2> QED BY <1>3, <2>1, <2>2, <2>3
<1> QED BY <1>1, <1>2, <1>5, OneMoves

LEMMA HoldKeeps ==
  ASSUME IInv, IInv', NEW r \in Runs, NEW m \in Messages, NEW k, NEW c, Hold(r, m, k, c)
  PROVE  Keeps
<1> DEFINE d == [Closed(deliveries[m][k], "held") EXCEPT !.reported = c]
<1>1. Fenced(r, m, k, c) /\ Write(m, k, d) /\ effects' = effects /\ ~deliveries[m][k].effect
  BY DEF Hold
<1>2. /\ deliveries'[m] # <<>> /\ deliveries'[m][Len(deliveries'[m])] = d
      /\ \A n \in Messages : n # m => deliveries'[n] = deliveries[n]
      /\ deliveries[m][k] = Up(m) /\ Up(m) \in Row /\ Up(m).state \in Dispatchable
  BY <1>1, Fencing
<1>3. d.state = "held" /\ d.consumer = NoRun
  BY <1>2 DEF Closed, Row
<1> HIDE DEF d
<1>4. Abstract!GiveUp(m)
  BY <1>1, <1>2, <1>3, GivingUp
<1> QED BY <1>1, <1>2, <1>4, OneMoves DEF Abstract!Move

LEMMA BeginKeeps ==
  ASSUME IInv, IInv', NEW r \in Runs, NEW m \in Messages, NEW k, NEW c, NEW key \in EffectKeys,
         BeginEffect(r, m, k, c, key)
  PROVE  Keeps
<1> DEFINE d == [deliveries[m][k] EXCEPT !.state = "begun", !.effect = TRUE]
<1>1. /\ Fenced(r, m, k, c) /\ Write(m, k, d)
      /\ effects' = [effects EXCEPT ![m] = [key |-> key, reset |-> FALSE]]
      /\ effects[m].key = NoKey \/ (effects[m].key = key /\ effects[m].reset)
  BY DEF BeginEffect
<1>2. /\ deliveries'[m] # <<>> /\ deliveries'[m][Len(deliveries'[m])] = d
      /\ \A n \in Messages : n # m => deliveries'[n] = deliveries[n]
      /\ HasCurrent(m) /\ deliveries[m][k] = Up(m) /\ Up(m) \in Row /\ Up(m).state \in Live
  BY <1>1, Fencing
<1>3. d.state = "begun" /\ d.consumer = Up(m).consumer
  BY <1>2 DEF Row
<1> HIDE DEF d
<1>4. /\ effects'[m] = [key |-> key, reset |-> FALSE]
      /\ \A n \in Messages : n # m => effects'[n] = effects[n]
  BY <1>1 DEF IInv, TypeOK
<1>5. ~LiveEffect(m) /\ (LiveEffect(m))'
  BY <1>1, <1>4, ActorAssumption DEF LiveEffect
<1>6. PhaseBar[m] = "working" /\ ~MaybeBar[m] /\ KeyBar[m] \in {NoKey, key}
  BY <1>1, <1>2, <1>5, Before, Phased DEF Live
<1>7. PhaseBar'[m] = "working" /\ OwnerBar'[m] = OwnerBar[m]
  BY <1>2, <1>3, Before, After, Phased
<1>8. KeyBar'[m] = key /\ MaybeBar'[m]
  BY <1>4, <1>5, ViewNext DEF Viewed
<1>9. Abstract!BeginsEffect(m)
  BY <1>6, <1>7, <1>8 DEF Abstract!BeginsEffect, Abstract!Becomes
<1> QED BY <1>2, <1>4, <1>9, OneMoves DEF Abstract!Move

LEMMA CancelKeeps ==
  ASSUME IInv, IInv', NEW m \in Messages, NEW k, NEW force, Cancel(m, k, force)
  PROVE  Keeps
<1> DEFINE d == Closed(deliveries[m][k], "cancelled")
<1>1. /\ k \in DOMAIN deliveries[m] /\ deliveries[m][k].current /\ Write(m, k, d)
      /\ deliveries[m][k].state \in Dispatchable /\ ~LiveEffect(m) /\ effects' = effects
  BY DEF Cancel, IsCurrent, Dispatchable
<1>2. /\ deliveries'[m] # <<>> /\ deliveries'[m][Len(deliveries'[m])] = d
      /\ \A n \in Messages : n # m => deliveries'[n] = deliveries[n]
      /\ deliveries[m][k] = Up(m)
  BY <1>1, Writing
<1>3. Up(m) \in Row /\ ~Up(m).effect
  BY <1>1, Rows
<1>4. d.state = "cancelled" /\ d.consumer = NoRun
  BY <1>2, <1>3, ClosedFields
<1> HIDE DEF d
<1>5. Abstract!GiveUp(m)
  BY <1>1, <1>2, <1>3, <1>4, GivingUp
<1> QED BY <1>1, <1>2, <1>5, OneMoves DEF Abstract!Move

(* A new row that may be claimed succeeds the newest one. *)
LEMMA Succeeding ==
  ASSUME IInv, NEW m \in Messages, NEW k, IsCurrent(m, k), NEW old, Redispatch(m, k, old)
  PROVE  /\ \A n \in Messages : n # m => deliveries'[n] = deliveries[n]
         /\ HasCurrent(m) /\ deliveries[m][k] = Up(m) /\ deliveries'[m] # <<>>
         /\ \E d : /\ deliveries'[m][Len(deliveries'[m])] = d
                   /\ d.state = "ready" /\ d.consumer = NoRun
<1> DEFINE d == NewRow(Len(copies) + 1, old.chain + 1, 1)
<1>1. /\ deliveries'[m] = Append([deliveries[m] EXCEPT ![k] = old], d)
      /\ \A n \in Messages : n # m => deliveries'[n] = deliveries[n]
  BY DEF Redispatch, IInv, TypeOK
<1>2. /\ k \in DOMAIN deliveries[m] /\ k = Len(deliveries[m]) /\ HasCurrent(m)
      /\ deliveries[m][k] = Up(m) /\ deliveries[m] \in Seq(Row)
  BY CurrentIsNewest, Rows DEF IsCurrent
<1>3. d.state = "ready" /\ d.consumer = NoRun
  BY DEF NewRow
<1> HIDE DEF d
<1>4. deliveries'[m] # <<>> /\ deliveries'[m][Len(deliveries'[m])] = d
  BY <1>1, <1>2, Newest
<1> QED BY <1>1, <1>2, <1>3, <1>4

LEMMA RedispatchKeeps ==
  ASSUME IInv, IInv', NEW m \in Messages, NEW k, Replay(m, k) \/ Release(m, k)
  PROVE  Keeps
<1>1. /\ IsCurrent(m, k) /\ Redispatch(m, k, Superseded(deliveries[m][k])) /\ effects' = effects
      /\ deliveries[m][k].state \in {"dead-lettered", "held"}
  BY DEF Replay, Release, Redispatchable
<1>2. /\ \A n \in Messages : n # m => deliveries'[n] = deliveries[n]
      /\ HasCurrent(m) /\ deliveries[m][k] = Up(m) /\ deliveries'[m] # <<>>
      /\ \E d : /\ deliveries'[m][Len(deliveries'[m])] = d
                /\ d.state = "ready" /\ d.consumer = NoRun
  BY <1>1, Succeeding
<1>3. Abstract!Offer(m)
  BY <1>1, <1>2, Offering
<1> QED BY <1>1, <1>2, <1>3, OneMoves DEF Abstract!Move

LEMMA ReconcileKeeps ==
  ASSUME IInv, IInv', DInv, NEW m \in Messages, NEW k,
         ReconcileUnknown(m, k) \/ ReconcileApplied(m, k) \/ ReconcileNotApplied(m, k)
  PROVE  Keeps
<1>1. CASE ReconcileUnknown(m, k)
  <2>1. deliveries' = deliveries /\ effects' = effects
    BY <1>1 DEF ReconcileUnknown
  <2> QED BY <2>1, Stays, OneMoves
<1>2. CASE ReconcileApplied(m, k)
  <2> DEFINE d == [deliveries[m][k] EXCEPT !.state = "succeeded"]
  <2>1. /\ k \in DOMAIN deliveries[m] /\ deliveries[m][k].current /\ Write(m, k, d)
        /\ deliveries[m][k].state \in Uncertain /\ effects' = effects
    BY <1>2 DEF ReconcileApplied, Reconcilable, IsCurrent
  <2>2. /\ deliveries'[m] # <<>> /\ deliveries'[m][Len(deliveries'[m])] = d
        /\ \A n \in Messages : n # m => deliveries'[n] = deliveries[n]
        /\ HasCurrent(m) /\ deliveries[m][k] = Up(m)
    BY <2>1, Writing
  <2>3. Up(m) \in Row /\ Free(Up(m))
    BY <2>2, Rows DEF DInv, Freed
  <2>4. d.state = "succeeded" /\ d.consumer = NoRun
    BY <2>1, <2>2, <2>3 DEF Row, Free, Live, Uncertain
  <2> HIDE DEF d
  <2>5. Abstract!Move(m)
    BY <2>1, <2>2, <2>4, Finishing
  <2> QED BY <2>1, <2>2, <2>5, OneMoves
<1>3. CASE ReconcileNotApplied(m, k)
  <2> DEFINE old == [Superseded(deliveries[m][k]) EXCEPT !.state = "cancelled"]
  <2>1. /\ IsCurrent(m, k) /\ Redispatch(m, k, old) /\ deliveries[m][k].state \in Uncertain
        /\ effects' = [effects EXCEPT ![m].reset = TRUE]
    BY <1>3 DEF ReconcileNotApplied, Reconcilable
  <2> HIDE DEF old
  <2>2. /\ \A n \in Messages : n # m => deliveries'[n] = deliveries[n]
        /\ HasCurrent(m) /\ deliveries[m][k] = Up(m) /\ deliveries'[m] # <<>>
        /\ \E d : /\ deliveries'[m][Len(deliveries'[m])] = d
                  /\ d.state = "ready" /\ d.consumer = NoRun
    BY <2>1, Succeeding
  <2>3. /\ effects'[m].key = effects[m].key /\ effects'[m].reset
        /\ \A n \in Messages : n # m => effects'[n] = effects[n]
    BY <2>1 DEF IInv, TypeOK
  <2>4. PhaseBar[m] = "unsure"
    BY <2>1, <2>2, Before, Phased DEF Uncertain
  <2>5. PhaseBar'[m] = "waiting" /\ OwnerBar'[m] = NoRun
    BY <2>2, After, Phased
  <2>6. KeyBar'[m] = KeyBar[m] /\ ~MaybeBar'[m]
    BY <2>3, View, ViewNext DEF Viewed, LiveEffect
  <2>7. Abstract!NotApplied(m)
    BY <2>4, <2>5, <2>6 DEF Abstract!NotApplied, Abstract!Becomes
  <2> QED BY <2>2, <2>3, <2>7, OneMoves DEF Abstract!Move
<1> QED BY <1>1, <1>2, <1>3

LEMMA RevokeKeeps ==
  ASSUME IInv, IInv', NEW q \in Principals, Revoke(q)
  PROVE  Keeps
<1>1. /\ effects' = effects
      /\ \A m \in Messages : deliveries'[m] =
           IF m \in Paused(q) THEN Put(m, Closed(CurrentRow(m), "effect-paused")) ELSE deliveries[m]
  BY DEF Revoke
<1>2. ASSUME NEW m \in Messages
      PROVE  (Abstract!Move(m) \/ Abstract!Same(m)) /\ OwnerBar'[m] \in {NoRun, OwnerBar[m]}
  <2>1. CASE m \in Paused(q)
    <3> DEFINE d == Closed(Up(m), "effect-paused")
    <3>1. CurrentRow(m) = Up(m) /\ Up(m).state = "begun" /\ Up(m) \in Row /\ RowOK(Up(m))
      BY <2>1, Rows DEF Paused
    <3>2. d.state = "effect-paused" /\ d.consumer = NoRun
      BY <3>1, ClosedFields
    <3>3. deliveries'[m] = Put(m, d)
      BY <1>1, <2>1, <3>1
    <3> HIDE DEF d
    <3>4. deliveries'[m] # <<>> /\ deliveries'[m][Len(deliveries'[m])] = d
      BY <3>3, PutNewest
    <3>5. Up(m).effect /\ Up(m).state \in Dispatchable /\ d.state \in Uncertain
      BY <3>1, <3>2 DEF RowOK, Dispatchable, Uncertain
    <3>6. Abstract!GiveUp(m) /\ OwnerBar'[m] = NoRun
      BY <1>1, <3>2, <3>4, <3>5, GivingUp
    <3> QED BY <3>6 DEF Abstract!Move
  <2>2. CASE m \notin Paused(q)
    BY <1>1, <2>2, Stays DEF Abstract!Same, Abstract!Becomes
  <2> QED BY <2>1, <2>2
<1> QED BY <1>2, NobodyTakes

LEMMA RestoreBatchKeeps ==
  ASSUME IInv, IInv', RestoreBatch
  PROVE  Keeps
<1>1. PICK batch \in SUBSET InFlight :
        /\ \A m \in batch : Consistent(m)
        /\ deliveries' = [m \in Messages |->
             IF m \in batch THEN Put(m, Restored(CurrentRow(m))) ELSE deliveries[m]]
  BY DEF RestoreBatch
<1>2. effects' = effects
  BY DEF RestoreBatch
<1>3. ASSUME NEW m \in Messages
      PROVE  (Abstract!Move(m) \/ Abstract!Same(m)) /\ OwnerBar'[m] \in {NoRun, OwnerBar[m]}
  <2>1. CASE m \in batch
    <3> DEFINE d == Restored(Up(m))
    <3>1. /\ HasCurrent(m) /\ CurrentRow(m) = Up(m) /\ Up(m) \in Row
          /\ Up(m).state \in Live /\ Up(m).state \in Dispatchable
          /\ Up(m).effect <=> Up(m).state = "begun"
      <4>1. HasCurrent(m) /\ CurrentRow(m).state \in Live /\ Consistent(m)
        BY <1>1, <2>1 DEF InFlight
      <4>2. CurrentRow(m) = Up(m) /\ Up(m) \in Row /\ RowOK(Up(m))
        BY <4>1, Rows
      <4> QED BY <4>1, <4>2 DEF Consistent, RowOK, Live, Dispatchable
    <3>2. d.state = (IF Up(m).state = "begun" THEN "ambiguous" ELSE "scheduled") /\ d.consumer = NoRun
      BY <3>1, RestoredFields
    <3>3. deliveries'[m] = Put(m, d)
      BY <1>1, <2>1, <3>1
    <3> HIDE DEF d
    <3>4. deliveries'[m] # <<>> /\ deliveries'[m][Len(deliveries'[m])] = d
      BY <3>3, PutNewest
    <3>5. CASE Up(m).state = "begun"
      <4>1. d.state \in Uncertain
        BY <3>2, <3>5 DEF Uncertain
      <4>2. Abstract!GiveUp(m) /\ OwnerBar'[m] = NoRun
        BY <1>2, <3>1, <3>2, <3>4, <3>5, <4>1, GivingUp
      <4> QED BY <4>2 DEF Abstract!Move
    <3>6. CASE Up(m).state # "begun"
      <4>1. Abstract!Offer(m) /\ OwnerBar'[m] = NoRun
        BY <1>2, <3>1, <3>2, <3>4, <3>6, Offering
      <4> QED BY <4>1 DEF Abstract!Move
    <3> QED BY <3>5, <3>6
  <2>2. CASE m \notin batch
    BY <1>1, <1>2, <2>2, Stays DEF Abstract!Same, Abstract!Becomes
  <2> QED BY <2>1, <2>2
<1> QED BY <1>3, NobodyTakes

(* Purge, Restore, OpenGate and the clock. *)
LEMMA OthersKeep ==
  ASSUME IInv, IInv', Purge \/ Restore \/ OpenGate \/ Tick \/ UNCHANGED vars
  PROVE  Keeps
<1>1. effects' = effects
  BY DEF Purge, Restore, OpenGate, Tick, vars
<1>2. ASSUME NEW m \in Messages
      PROVE  /\ Stage(deliveries'[m]) = Stage(deliveries[m])
             /\ Holder(deliveries'[m]) = Holder(deliveries[m])
  <2>1. CASE Tick
    <3>1. CASE ~HasCurrent(m)
      BY <2>1, <3>1, AgedRows
    <3>2. CASE HasCurrent(m)
      <4>1. PICK d : /\ deliveries'[m] # <<>> /\ deliveries'[m][Len(deliveries'[m])] = d
                     /\ d.state = Up(m).state /\ d.consumer = Up(m).consumer
        BY <2>1, <3>2, AgedRows
      <4>2. deliveries[m] # <<>> /\ Up(m) = deliveries[m][Len(deliveries[m])]
        BY <3>2, Rows
      <4> QED BY <4>1, <4>2 DEF Stage, Holder
    <3> QED BY <3>1, <3>2
  <2>2. CASE Purge \/ Restore \/ OpenGate \/ UNCHANGED vars
    BY <2>2 DEF Purge, Restore, OpenGate, vars
  <2> QED BY <2>1, <2>2
<1>3. \A m \in Messages : Abstract!Same(m)
  BY <1>1, <1>2, Stays
<1> QED BY <1>3, NobodyTakes DEF Abstract!Same, Abstract!Becomes

(* At most one message is handed out: the scan stops at the copy it may    *)
(* grant, and no two messages share a copy.                                *)
LEMMA OneGranted ==
  ASSUME IInv, DInv, NEW swept, \A p \in Scanned(swept) : ~Stray(p),
         NEW m \in Messages, NEW n \in Messages,
         Met(swept, m), Grantable(m), Met(swept, n), Grantable(n)
  PROVE  m = n
<1>1. ASSUME NEW i \in Messages, Met(swept, i), Grantable(i), NEW p, p = Up(i).pid
      PROVE  Granted(swept, p) /\ Waits(i) /\ p \in Nat
  <2>1. p \in Scanned(swept) /\ Reads(swept, i, p) /\ ~Stray(p)
    BY <1>1 DEF Met
  <2>2. Waits(i) /\ p \in DOMAIN copies /\ Granted(swept, p)
    BY <1>1, <2>1, Reading
  <2> QED BY <2>2 DEF IInv, TypeOK
<1>2. PICK p, q : p = Up(m).pid /\ q = Up(n).pid
  OBVIOUS
<1>3. /\ Granted(swept, p) /\ Waits(m) /\ p \in Nat
      /\ Granted(swept, q) /\ Waits(n) /\ q \in Nat
  BY <1>1, <1>2
<1>4. p = q
  BY <1>3 DEF Granted
<1> QED BY <1>2, <1>3, <1>4, Distinct

LEMMA ClaimKeeps ==
  ASSUME IInv, IInv', DInv, NEW r \in Runs, Claim(r)
  PROVE  Keeps
<1>1. PICK lapsed \in SUBSET LapsedEffects, stale \in SUBSET ExpiredWork :
        /\ \A p \in Scanned(lapsed \cup stale) : ~Stray(p)
        /\ deliveries' = [m \in Messages |-> RowsAfterClaim(r, lapsed, stale, m)]
        /\ copies' = [p \in DOMAIN copies |-> CopyAfterClaim(lapsed \cup stale, p)]
  BY DEF Claim
<1>2. PICK swept : swept = lapsed \cup stale
  OBVIOUS
<1>3. effects' = effects /\ copies' = [p \in DOMAIN copies |-> CopyAfterClaim(swept, p)]
  BY <1>1, <1>2 DEF Claim
<1>4. \A p \in Scanned(swept) : ~Stray(p)
  BY <1>1, <1>2
<1>5. ASSUME NEW m \in Messages
      PROVE  ClaimedMessage(r, swept, m)
  <2>1. deliveries'[m] = RowsAfterClaim(r, lapsed, stale, m)
    BY <1>1
  <2> QED BY <1>2, <1>3, <1>4, <2>1, ClaimMessage
<1>6. ASSUME NEW m \in Messages
      PROVE  /\ Abstract!Move(m) \/ Abstract!Same(m)
             /\ OwnerBar'[m] \in {NoRun, OwnerBar[m]} \/ (Met(swept, m) /\ Grantable(m))
  <2>1. CASE deliveries'[m] = deliveries[m]
    BY <1>3, <2>1, Stays DEF Abstract!Same, Abstract!Becomes
  <2>2. ASSUME NEW d, deliveries'[m] # <<>>, deliveries'[m][Len(deliveries'[m])] = d, Waits(m),
               Stops(m, d) \/ Retries(m, d) \/ (Given(m, d, r) /\ Met(swept, m) /\ Grantable(m))
        PROVE  /\ Abstract!Move(m) \/ Abstract!Same(m)
               /\ OwnerBar'[m] \in {NoRun, OwnerBar[m]} \/ (Met(swept, m) /\ Grantable(m))
    <3>1. Up(m).state \in Dispatchable
      BY <2>2, Rows
    <3>2. CASE Stops(m, d)
      <4>1. Abstract!GiveUp(m) /\ OwnerBar'[m] = NoRun
        BY <1>3, <2>2, <3>1, <3>2, GivingUp DEF Stops, Uncertain
      <4> QED BY <4>1 DEF Abstract!Move
    <3>3. CASE Retries(m, d)
      <4>1. HasCurrent(m)
        BY <3>3, Before DEF Retries, Live
      <4>2. Abstract!Offer(m) /\ OwnerBar'[m] = NoRun
        BY <1>3, <2>2, <3>3, <4>1, Offering DEF Retries
      <4> QED BY <4>2 DEF Abstract!Move
    <3>4. CASE Given(m, d, r) /\ Met(swept, m) /\ Grantable(m)
      <4>1. Abstract!Take(m, r)
        BY <1>3, <2>2, <3>1, <3>4, Taking DEF Given
      <4> QED BY <3>4, <4>1 DEF Abstract!Move
    <3> QED BY <2>2, <3>2, <3>3, <3>4
  <2> QED BY <1>5, <2>1, <2>2 DEF ClaimedMessage
<1>7. \A m, n \in Abstract!Taken : m = n
  <2> SUFFICES ASSUME NEW m \in Abstract!Taken, NEW n \in Abstract!Taken PROVE m = n
    OBVIOUS
  <2>1. /\ m \in Messages /\ Met(swept, m) /\ Grantable(m)
        /\ n \in Messages /\ Met(swept, n) /\ Grantable(n)
    BY <1>6 DEF Abstract!Taken
  <2> QED BY <1>4, <2>1, OneGranted
<1> QED BY <1>6, <1>7 DEF Keeps

-----------------------------------------------------------------------------
(* The refinement.                                                         *)

LEMMA InitPromised == Init => Abstract!PromiseInit
<1> SUFFICES ASSUME Init PROVE Abstract!PromiseInit
  OBVIOUS
<1>1. \A m \in Messages : ~HasCurrent(m) /\ ~LiveEffect(m) /\ effects[m].key = NoKey
  BY DEF Init, HasCurrent, LiveEffect
<1>2. \A m \in Messages : LiveEffect(m) = FALSE
  BY <1>1 DEF LiveEffect
<1>3. /\ PhaseBar = [m \in Messages |-> "none"] /\ OwnerBar = [m \in Messages |-> NoRun]
      /\ KeyBar = [m \in Messages |-> NoKey] /\ MaybeBar = [m \in Messages |-> FALSE]
  BY <1>1, <1>2 DEF PhaseBar, OwnerBar, KeyBar, MaybeBar
<1> QED BY <1>3 DEF Abstract!PromiseInit

LEMMA StepKeeps ==
  ASSUME IInv, IInv', DInv, [Next]_vars
  PROVE  Keeps
<1>1. ASSUME NEW r \in Runs, NEW m \in Messages, NEW k \in RowIds(m), NEW c \in Receipts(m, k),
             \/ Renew(r, m, k, c) \/ Ack(r, m, k, c) \/ Nack(r, m, k, c) \/ Hold(r, m, k, c)
             \/ \E key \in EffectKeys : BeginEffect(r, m, k, c, key)
      PROVE  Keeps
  BY <1>1, RenewKeeps, ReportKeeps, HoldKeeps, BeginKeeps DEF Ack, Nack
<1>2. ConsumerStep => Keeps
  BY <1>1 DEF ConsumerStep
<1>3. UserStep => Keeps
  BY RedispatchKeeps, CancelKeeps, ReconcileKeeps DEF UserStep
<1>4. \A p \in Revocable : Revoke(p) => Keeps
  BY RevokeKeeps, ActorAssumption
<1>5. \A r \in Runs, found \in SUBSET DOMAIN Legacy :
        Recover(r, {Legacy[p] : p \in found}) => Keeps
  BY RecoverKeeps
<1> QED BY <1>2, <1>3, <1>4, <1>5, SendKeeps, ClaimKeeps, RestoreBatchKeeps, OthersKeep DEF Next

(* Whatever the ledger does, its users see a queue that keeps its promise: *)
(* every step of a verb, a sweep, the restore or the clock is, for each    *)
(* message, a move that QueuePromise allows or none, and at most one       *)
(* message is handed out by it.                                            *)
THEOREM LedgerRefines == Spec => LedgerKeepsPromise
<1>1. Init => Abstract!PromiseInit
  BY InitPromised
<1>2. (IInv => Abstract!PromiseTypeOK)'
  BY PromiseTyped, PTL
<1>3. IInv /\ IInv' /\ DInv /\ [Next]_vars => [Abstract!PromiseNext]_Abstract!pvars
  BY <1>2, StepKeeps DEF Keeps, Abstract!PromiseNext
<1> QED BY <1>1, <1>3, DispatchInvariant, PTL DEF Spec, LedgerKeepsPromise, Abstract!Promise

-----------------------------------------------------------------------------
(* Facts about sets of numbers that the screens need: one up to a bound    *)
(* that is not empty has a first member, and a last one.                   *)
LEMMA FirstOne ==
  ASSUME NEW N \in Nat, NEW S \in SUBSET (1 .. N), S # {}
  PROVE  \E n \in S : \A m \in S : n <= m
<1> SUFFICES ASSUME \A n \in S : \E m \in S : m < n
             PROVE  FALSE
  OBVIOUS
<1> DEFINE B == {i \in 1 .. N : \E m \in S : m <= i}
<1>1. B \in SUBSET (1 .. N) /\ B # {} /\ IsFiniteSet(1 .. N)
  <2>1. \A i \in S : i \in B
    OBVIOUS
  <2>2. IsFiniteSet(1 .. N)
    BY FS_Interval
  <2>3. QED
    BY <2>1, <2>2
<1>2. IsFiniteSet(B)
  BY <1>1, FS_Subset
<1>3. ASSUME NEW i \in B
      PROVE  i - 1 \in B
  OBVIOUS
<1>4. PICK i : i \in B
  BY <1>1
<1> DEFINE h == [j \in B |-> IF j <= i THEN j - 1 ELSE j]
<1>5. h \in [B -> B]
  BY <1>3
<1>6. ASSUME NEW j \in B, NEW k \in B, h[j] = h[k]
      PROVE  j = k
  <2>1. i \in Nat /\ j \in Nat /\ k \in Nat
    BY <1>1, <1>4
  <2>2. /\ h[j] = IF j <= i THEN j - 1 ELSE j
        /\ h[k] = IF k <= i THEN k - 1 ELSE k
    OBVIOUS
  <2>3. (IF j <= i THEN j - 1 ELSE j) = (IF k <= i THEN k - 1 ELSE k)
    BY <1>6, <2>2
  <2> HIDE DEF h, B
  <2>4. QED
    BY <2>1, <2>3
<1>7. ASSUME NEW j \in B
      PROVE  h[j] # i
  <2>1. i \in Nat /\ j \in Nat
    BY <1>1, <1>4
  <2>2. h[j] = IF j <= i THEN j - 1 ELSE j
    OBVIOUS
  <2> HIDE DEF h, B
  <2>3. QED
    BY <2>1, <2>2
<1> HIDE DEF B, h
<1>8. h \in Injection(B, B)
  BY <1>5, <1>6 DEF Injection, IsInjective
<1>9. h \in Surjection(B, B)
  BY <1>2, <1>8, FS_Injection
<1>10. QED
  BY <1>4, <1>7, <1>9 DEF Surjection

LEMMA LastOne ==
  ASSUME NEW N \in Nat, NEW S \in SUBSET (1 .. N), S # {}
  PROVE  \E n \in S : \A m \in S : m <= n
<1> DEFINE T == {k \in 1 .. N : N + 1 - k \in S}
<1>1. \A n \in S : N + 1 - n \in T
  <2>1. ASSUME NEW n \in S
        PROVE  N + 1 - n \in T
    <3>1. n \in 1 .. N /\ N + 1 - n \in 1 .. N /\ N + 1 - (N + 1 - n) = n
      OBVIOUS
    <3>2. QED
      BY <3>1
  <2>2. QED
    BY <2>1
<1>2. PICK k \in T : \A j \in T : k <= j
  <2>1. T # {} /\ T \in SUBSET (1 .. N)
    BY <1>1
  <2> HIDE DEF T
  <2>2. QED
    BY <2>1, FirstOne
<1>3. ASSUME NEW m \in S
      PROVE  m <= N + 1 - k
  <2>1. k <= N + 1 - m /\ k \in 1 .. N /\ m \in 1 .. N
    BY <1>1, <1>2
  <2>2. QED
    BY <2>1
<1>4. QED
  BY <1>2, <1>3

-----------------------------------------------------------------------------
(* Timeline.  What a page or a request of it holds of a generation that is *)
(* still to come true or is the log's - the generation of the last restore *)
(* - is what the log has; of any other generation only that it goes no     *)
(* further than it says.                                                   *)

RunRow == [generation : Nat, at : Nat, event : Mine]
Frame == [generation : Nat, at : Nat, event : Event \cup {Missing}]
PageType == [epoch : Nat, generation : Nat \cup {Missing}, after : Nat,
             staged : SUBSET SUBSET RunRow, events : SUBSET RunRow, error : {FALSE}]
ConnType == [step : {"none", "reading", "ready", "open", "refused"},
             generation : Nat \cup {Missing}, head : Nat, read : Nat, events : SUBSET RunRow,
             cursor : Nat, wire : Seq(Frame)]

TrailSound == Screens!TrailTypeOK /\ (~gated => generation = epoch)

RowsTo(l, g, n) == {Screens!Row(g, i, l[i]) : i \in {j \in 1 .. n : l[j] \in Mine}}
Held(l, e, S, g, n) ==
  /\ S \subseteq RunRow /\ g \in Nat /\ n \in Nat /\ g <= e
  /\ \A r \in S : r.generation = g /\ r.at <= n
  /\ g = e => n <= Len(l) /\ S = RowsTo(l, g, n)

PageHolds(l, e, p) ==
  /\ p \in PageType
  /\ p.generation = Missing => p.staged = {} /\ p.events = {}
  /\ p.generation # Missing =>
       /\ p.staged = {} => Held(l, e, p.events, p.generation, p.after)
       /\ p.staged # {} =>
            p.events = {} /\ \E S : p.staged = {S} /\ Held(l, e, S, p.generation, p.after)

(* On the wire: at most one frame that tells where the stream begins, the  *)
(* first one, and then the events from there.                              *)
Leads(wire) == IF wire # <<>> /\ wire[1].event = Missing THEN 1 ELSE 0
Tells(l, e, f) ==
  f.generation = e /\ f.event # Missing => f.at \in 1 .. Len(l) /\ f.event = l[f.at]
OnTheWire(l, e, p, c) ==
  /\ p.generation \in Nat /\ c.generation = p.generation
  /\ p.after + Len(c.wire) = c.cursor + Leads(c.wire)
  /\ \A i \in 1 .. Len(c.wire) :
       /\ c.wire[i].generation = c.generation /\ p.after + i = c.wire[i].at + Leads(c.wire)
       /\ i > 1 => c.wire[i].event # Missing
       /\ Tells(l, e, c.wire[i])

ConnHolds(l, e, p, c) ==
  /\ c \in ConnType
  /\ c.step = "reading" =>
       /\ p.generation = Missing \/ p.staged # {}
       /\ Held(l, e, c.events, c.generation, c.read) /\ c.read <= c.head
       /\ c.generation = e => c.head <= Len(l)
  /\ c.step \in {"none", "reading", "ready"} => c.wire = <<>>
  /\ c.step \in {"open", "refused"} => OnTheWire(l, e, p, c)

TimelineInv == TrailSound /\ PageHolds(log, epoch, page) /\ ConnHolds(log, epoch, page, conn)

LEMMA TimelineConstants ==
  /\ Mine \subseteq Event /\ PageSize \in Nat \ {0} /\ Missing \notin Nat /\ Missing \notin Event
BY ScreensGiven DEF Screens!Assumptions, Screens!TimelineAssumption

LEMMA TimelineBegins == Screens!Init => TimelineInv
<1> SUFFICES ASSUME Screens!Init PROVE TimelineInv
  OBVIOUS
<1>1. /\ log = <<>> /\ generation = 0 /\ gated = FALSE /\ epoch = 0
      /\ saved = [log |-> <<>>, generation |-> 0]
  BY DEF Screens!Init, Screens!TrailInit
<1>2. TrailSound
  <2>1. log \in Seq(Event) /\ generation \in 0 .. epoch /\ epoch \in Nat
    BY <1>1
  <2>2. saved \in [log : Seq(Event), generation : 0 .. epoch]
    BY <1>1, <2>1
  <2>3. QED
    BY <1>1, <2>1, <2>2 DEF TrailSound, Screens!TrailTypeOK
<1>3. page = Screens!initialTimeline /\ conn = Screens!Unstarted
  BY DEF Screens!Init
<1>4. Screens!initialTimeline \in PageType /\ Screens!Unstarted \in ConnType
  BY DEF Screens!initialTimeline, Screens!Unstarted, PageType, ConnType
<1>5. PageHolds(log, epoch, page)
  BY <1>3, <1>4 DEF PageHolds, Screens!initialTimeline
<1>6. ConnHolds(log, epoch, page, conn)
  BY <1>3, <1>4 DEF ConnHolds, Screens!Unstarted
<1>7. QED
  BY <1>2, <1>5, <1>6 DEF TimelineInv

(* The invariant is what the page promises.                                *)
LEMMA TimelineShown == TimelineInv => Screens!Shown
<1> SUFFICES ASSUME TimelineInv PROVE Screens!Shown
  OBVIOUS
<1>1. PageHolds(log, epoch, page) /\ TrailSound /\ page \in PageType
  BY DEF TimelineInv, PageHolds
<1>2. page.error = FALSE
  BY <1>1 DEF PageType
<1>3. ASSUME NEW r \in page.events
      PROVE  r.generation = page.generation
  <2>1. Held(log, epoch, page.events, page.generation, page.after)
    BY <1>1 DEF PageHolds
  <2>2. QED
    BY <2>1 DEF Held
<1>4. ASSUME page.generation = generation, ~gated, page.staged = {}
      PROVE  /\ page.after <= Len(log)
             /\ page.events = {Screens!Row(generation, i,
                  log[i]) : i \in {j \in 1 .. page.after : log[j] \in Mine}}
  <2>1. page.generation = epoch /\ epoch \in Nat
    BY <1>1, <1>4 DEF TrailSound, Screens!TrailTypeOK
  <2>2. Held(log, epoch, page.events, page.generation, page.after)
    BY <1>1, <1>4, <2>1, TimelineConstants DEF PageHolds
  <2>3. page.after <= Len(log) /\ page.events = RowsTo(log, generation, page.after)
    BY <1>4, <2>1, <2>2 DEF Held
  <2>4. QED
    BY <2>3 DEF RowsTo
<1>5. QED
  BY <1>2, <1>3, <1>4 DEF Screens!Shown

-----------------------------------------------------------------------------
(* The log goes on, or the database is restored.                           *)
Continues(l, e, l2, e2) ==
  /\ l \in Seq(Event) /\ l2 \in Seq(Event) /\ e \in Nat
  /\ \/ e2 = e + 1
     \/ e2 = e /\ Len(l) <= Len(l2) /\ \A i \in 1 .. Len(l) : l2[i] = l[i]

LEMMA HeldContinues ==
  ASSUME NEW l, NEW e, NEW l2, NEW e2, Continues(l, e, l2, e2), NEW S, NEW g, NEW n, Held(l, e, S, g, n)
  PROVE  Held(l2, e2, S, g, n)
<1>1. /\ S \subseteq RunRow /\ g \in Nat /\ n \in Nat /\ g <= e /\ e \in Nat
      /\ \A r \in S : r.generation = g /\ r.at <= n
  BY DEF Held, Continues
<1>2. CASE e2 = e + 1
  BY <1>1, <1>2 DEF Held
<1>3. CASE e2 = e /\ Len(l) <= Len(l2) /\ \A i \in 1 .. Len(l) : l2[i] = l[i]
  <2>1. ASSUME g = e
        PROVE  n <= Len(l2) /\ S = RowsTo(l2, g, n)
    <3>1. n <= Len(l) /\ S = RowsTo(l, g, n) /\ Len(l) \in Nat /\ Len(l2) \in Nat
      BY <2>1 DEF Held, Continues
    <3>2. \A i \in 1 .. n : l2[i] = l[i]
      BY <1>1, <1>3, <3>1
    <3>3. {j \in 1 .. n : l2[j] \in Mine} = {j \in 1 .. n : l[j] \in Mine}
      BY <3>2
    <3>4. RowsTo(l2, g, n) = RowsTo(l, g, n)
      BY <3>2, <3>3 DEF RowsTo
    <3>5. QED
      BY <1>1, <1>3, <3>1, <3>4
  <2>2. QED
    BY <1>1, <1>3, <2>1 DEF Held
<1>4. QED
  BY <1>2, <1>3 DEF Continues

LEMMA PageContinues ==
  ASSUME NEW l, NEW e, NEW l2, NEW e2, Continues(l, e, l2, e2), NEW p, PageHolds(l, e, p)
  PROVE  PageHolds(l2, e2, p)
BY HeldContinues DEF PageHolds

LEMMA ConnContinues ==
  ASSUME NEW l, NEW e, NEW l2, NEW e2, Continues(l, e, l2, e2), NEW p, NEW c,
         PageHolds(l, e, p), ConnHolds(l, e, p, c)
  PROVE  ConnHolds(l2, e2, p, c)
<1>1. c \in ConnType /\ e \in Nat /\ Len(l) \in Nat /\ Len(l2) \in Nat
  BY DEF ConnHolds, Continues
<1>2. ASSUME c.step = "reading"
      PROVE  /\ p.generation = Missing \/ p.staged # {}
             /\ Held(l2, e2, c.events, c.generation, c.read) /\ c.read <= c.head
             /\ c.generation = e2 => c.head <= Len(l2)
  <2>1. /\ p.generation = Missing \/ p.staged # {}
        /\ Held(l, e, c.events, c.generation, c.read) /\ c.read <= c.head
        /\ c.generation = e => c.head <= Len(l)
    BY <1>2 DEF ConnHolds
  <2>2. c.generation \in Nat /\ c.generation <= e /\ c.head \in Nat
    BY <1>1, <2>1 DEF Held, ConnType
  <2>3. c.generation = e2 => c.head <= Len(l2)
    BY <1>1, <2>1, <2>2 DEF Continues
  <2>4. QED
    BY <2>1, <2>3, HeldContinues
<1>3. ASSUME OnTheWire(l, e, p, c)
      PROVE  OnTheWire(l2, e2, p, c)
  <2>1. p.generation <= e /\ p.generation \in Nat
    <3>1. p.generation \in Nat /\ p.generation # Missing
      BY <1>3, TimelineConstants DEF OnTheWire
    <3>2. QED
      BY <3>1 DEF PageHolds, Held
  <2>2. ASSUME NEW i \in 1 .. Len(c.wire)
        PROVE  Tells(l2, e2, c.wire[i])
    <3>1. c.wire[i].generation = p.generation /\ Tells(l, e, c.wire[i])
      BY <1>3 DEF OnTheWire
    <3>2. CASE e2 = e + 1
      BY <1>1, <2>1, <3>1, <3>2 DEF Tells
    <3>3. CASE e2 = e /\ Len(l) <= Len(l2) /\ \A k \in 1 .. Len(l) : l2[k] = l[k]
      <4> SUFFICES ASSUME c.wire[i].generation = e2, c.wire[i].event # Missing
                   PROVE  c.wire[i].at \in 1 .. Len(l2) /\ c.wire[i].event = l2[c.wire[i].at]
        BY DEF Tells
      <4>1. c.wire[i].at \in 1 .. Len(l) /\ c.wire[i].event = l[c.wire[i].at]
        BY <3>1, <3>3 DEF Tells
      <4>2. QED
        BY <1>1, <3>3, <4>1
    <3>4. QED
      BY <3>2, <3>3 DEF Continues
  <2>3. QED
    BY <1>3, <2>2 DEF OnTheWire
<1>4. QED
  BY <1>1, <1>2, <1>3 DEF ConnHolds

LEMMA Appended ==
  ASSUME NEW S, NEW s \in Seq(S), NEW t \in Seq(S)
  PROVE  /\ s \o t \in Seq(S) /\ Len(s) <= Len(s \o t)
         /\ \A i \in 1 .. Len(s) : (s \o t)[i] = s[i]
<1>1. /\ s \o t \in Seq(S) /\ Len(s \o t) = Len(s) + Len(t)
      /\ \A i \in 1 .. Len(s) + Len(t) : (s \o t)[i] = IF i <= Len(s) THEN s[i] ELSE t[i - Len(s)]
  BY ConcatProperties
<1>2. Len(s) \in Nat /\ Len(t) \in Nat
  OBVIOUS
<1>3. QED
  BY <1>1, <1>2

LEMMA DatabaseStep ==
  ASSUME TrailSound, Screens!Database
  PROVE  TrailSound' /\ Continues(log, epoch, log', epoch') /\ UNCHANGED <<page, conn>>
<1>1. /\ log \in Seq(Event) /\ generation \in 0 .. epoch /\ gated \in BOOLEAN /\ epoch \in Nat
      /\ saved \in [log : Seq(Event), generation : 0 .. epoch] /\ (~gated => generation = epoch)
  BY DEF TrailSound, Screens!TrailTypeOK
<1>2. UNCHANGED <<page, conn>>
  BY DEF Screens!Database
<1>3. ASSUME NEW es \in Seq(Event), log' = log \o es
      PROVE  log' \in Seq(Event) /\ Len(log) <= Len(log') /\ \A i \in 1 .. Len(log) : log'[i] = log[i]
  BY <1>1, <1>3, Appended
<1>4. \A e \in Event : <<e>> \in Seq(Event)
  OBVIOUS
<1>5. CASE \E e \in Event : Screens!Grow(<<e>>)
  <2>1. PICK e \in Event : Screens!Grow(<<e>>)
    BY <1>5
  <2>2. log' = log \o <<e>> /\ UNCHANGED <<generation, gated, epoch, saved>>
    BY <2>1 DEF Screens!Grow
  <2>3. log' \in Seq(Event) /\ Len(log) <= Len(log') /\ \A i \in 1 .. Len(log) : log'[i] = log[i]
    BY <1>3, <1>4, <2>2
  <2>4. TrailSound'
    BY <1>1, <2>2, <2>3 DEF TrailSound, Screens!TrailTypeOK
  <2>5. QED
    BY <1>1, <1>2, <2>2, <2>3, <2>4 DEF Continues
<1>6. CASE Screens!Backup
  <2>1. saved' = [log |-> log, generation |-> generation] /\ UNCHANGED <<log, generation, gated, epoch>>
    BY <1>6 DEF Screens!Backup
  <2>2. saved' \in [log : Seq(Event), generation : 0 .. epoch]
    BY <1>1, <2>1
  <2>3. QED
    BY <1>1, <1>2, <2>1, <2>2 DEF TrailSound, Screens!TrailTypeOK, Continues
<1>7. CASE Screens!Restore
  <2>1. /\ log' = saved.log /\ generation' = saved.generation /\ gated' = TRUE /\ epoch' = epoch + 1
        /\ saved' = saved
    BY <1>7 DEF Screens!Restore
  <2>2. saved.log \in Seq(Event) /\ saved.generation \in 0 .. epoch
    BY <1>1
  <2>3. saved' \in [log : Seq(Event), generation : 0 .. epoch + 1]
    <3>1. 0 .. epoch \subseteq 0 .. epoch + 1
      BY <1>1
    <3>2. QED
      BY <1>1, <2>1, <3>1
  <2>4. generation' \in 0 .. epoch + 1
    BY <1>1, <2>1, <2>2
  <2>5. TrailSound'
    <3>1. epoch + 1 \in Nat /\ epoch' = epoch + 1 /\ log' \in Seq(Event)
      BY <1>1, <2>1, <2>2
    <3>2. QED
      BY <2>1, <2>3, <2>4, <3>1 DEF TrailSound, Screens!TrailTypeOK
  <2>6. QED
    BY <1>1, <1>2, <2>1, <2>2, <2>5 DEF Continues
<1>8. CASE \E es \in Seq(Event) : Screens!Release(es, TRUE)
  <2>1. PICK es \in Seq(Event) : Screens!Release(es, TRUE)
    BY <1>8
  <2>2. log' = log \o es /\ generation' = epoch /\ gated' = FALSE /\ UNCHANGED <<epoch, saved>>
    BY <2>1 DEF Screens!Release
  <2>3. log' \in Seq(Event) /\ Len(log) <= Len(log') /\ \A i \in 1 .. Len(log) : log'[i] = log[i]
    BY <1>3, <2>2
  <2>4. TrailSound'
    <3>1. epoch \in 0 .. epoch
      BY <1>1
    <3>2. QED
      BY <1>1, <2>2, <2>3, <3>1 DEF TrailSound, Screens!TrailTypeOK
  <2>5. QED
    BY <1>1, <1>2, <2>2, <2>3, <2>4 DEF Continues
<1>9. <<>> \in Seq(Event)
  OBVIOUS
<1>10. \/ \E e \in Event : Screens!Grow(<<e>>)
       \/ Screens!Backup
       \/ Screens!Restore
       \/ Screens!Release(<<>>, TRUE)
       \/ \E e \in Event : Screens!Release(<<e>>, TRUE)
  BY DEF Screens!Database
<1>11. QED
  BY <1>4, <1>5, <1>6, <1>7, <1>8, <1>9, <1>10

(* A page that begins anew, and one whose connection is gone.              *)
LEMMA UnstartedHolds ==
  ASSUME NEW l, NEW e, NEW p
  PROVE  ConnHolds(l, e, p, Screens!Unstarted)
<1>1. Screens!Unstarted \in ConnType
  BY DEF Screens!Unstarted, ConnType
<1>2. QED
  BY <1>1 DEF Screens!Unstarted, ConnHolds

LEMMA ExpiredHolds ==
  ASSUME page \in PageType, NEW l, NEW e
  PROVE  PageHolds(l, e, Screens!Expired)
<1>1. PICK n \in Nat : n = page.epoch + 1
  BY DEF PageType
<1>2. Screens!Expired = [Screens!initialTimeline EXCEPT !.epoch = n]
  BY <1>1, Zenon DEF Screens!Expired
<1>3. Screens!Expired = [epoch |-> n, generation |-> Missing, after |-> 0, staged |-> {},
                    events |-> {}, error |-> FALSE]
  BY <1>2 DEF Screens!initialTimeline
<1>4. Screens!Expired \in PageType
  BY <1>3 DEF PageType
<1>5. QED
  BY <1>3, <1>4 DEF PageHolds

LEMMA DisconnectedHolds ==
  ASSUME NEW l, NEW e, PageHolds(l, e, page)
  PROVE  PageHolds(l, e, Screens!Disconnected)
<1>1. page \in PageType
  BY DEF PageHolds
<1>2. Screens!Disconnected = [page EXCEPT !.epoch = page.epoch + 1] /\ page.epoch + 1 \in Nat
  BY <1>1 DEF Screens!Disconnected, PageType
<1>3. /\ Screens!Disconnected \in PageType
      /\ Screens!Disconnected.generation = page.generation /\ Screens!Disconnected.after = page.after
      /\ Screens!Disconnected.staged = page.staged /\ Screens!Disconnected.events = page.events
  BY <1>1, <1>2 DEF PageType
<1>4. QED
  BY <1>3 DEF PageHolds

LEMMA EndsHolds ==
  ASSUME TimelineInv, UNCHANGED <<log, generation, gated, epoch, saved>>,
         Screens!Ends(Screens!Expired) \/ Screens!Ends(Screens!Disconnected)
  PROVE  TimelineInv'
<1>1. page \in PageType /\ PageHolds(log, epoch, page)
  BY DEF TimelineInv, PageHolds
<1>2. (page' = Screens!Expired \/ page' = Screens!Disconnected) /\ conn' = Screens!Unstarted
  BY DEF Screens!Ends
<1>3. PageHolds(log, epoch, page')
  BY <1>1, <1>2, ExpiredHolds, DisconnectedHolds
<1>4. ConnHolds(log, epoch, page', conn')
  BY <1>2, UnstartedHolds
<1>5. TrailSound'
  BY DEF TimelineInv, TrailSound, Screens!TrailTypeOK
<1>6. QED
  BY <1>3, <1>4, <1>5 DEF TimelineInv

LEMMA RowsToNone ==
  ASSUME NEW l, NEW g
  PROVE  RowsTo(l, g, 0) = {}
<1>1. 1 .. 0 = {}
  OBVIOUS
<1>2. QED
  BY <1>1 DEF RowsTo

LEMMA TrailStays ==
  ASSUME TrailSound, UNCHANGED Screens!trail
  PROVE  TrailSound'
BY DEF TrailSound, Screens!TrailTypeOK, Screens!trail

LEMMA TrailValues ==
  ASSUME TrailSound
  PROVE  /\ log \in Seq(Event) /\ Len(log) \in Nat /\ generation \in Nat /\ epoch \in Nat
         /\ generation <= epoch /\ (~gated => generation = epoch)
BY DEF TrailSound, Screens!TrailTypeOK

LEMMA EndsStep ==
  ASSUME TimelineInv, UNCHANGED Screens!trail,
         Screens!Ends(Screens!Expired) \/ Screens!Ends(Screens!Disconnected)
  PROVE  TimelineInv'
BY EndsHolds DEF Screens!trail

LEMMA ProbeStep ==
  ASSUME TimelineInv, Screens!Probe
  PROVE  TimelineInv'
<1>1. TrailSound /\ PageHolds(log, epoch, page) /\ UNCHANGED Screens!trail
  BY DEF TimelineInv, Screens!Probe
<1>2. TrailSound' /\ log' = log /\ epoch' = epoch
  BY <1>1, TrailStays DEF Screens!trail
<1>3. CASE Screens!Bootstrap
  <2>1. PICK g : g = IF gated THEN epoch ELSE generation
    OBVIOUS
  <2>2. g \in Nat /\ g <= epoch
    BY <1>1, <2>1, TrailValues
  <2>3. PICK h \in Nat : h = Len(log)
    BY <1>1, TrailValues
  <2>4. /\ conn' = [Screens!Unstarted EXCEPT !.step = "reading", !.head = h, !.generation = g]
        /\ page' = page
    BY <1>3, <2>1, <2>3 DEF Screens!Probe
  <2>5. conn' = [step |-> "reading", generation |-> g, head |-> h, read |-> 0, events |-> {},
                 cursor |-> 0, wire |-> <<>>]
    BY <2>4 DEF Screens!Unstarted
  <2>6. conn' \in ConnType
    BY <2>2, <2>5 DEF ConnType
  <2>7. Held(log, epoch, {}, g, 0)
    BY <1>1, <2>2, RowsToNone, TrailValues DEF Held
  <2>8. page.generation = Missing \/ page.staged # {}
    BY <1>3 DEF Screens!Bootstrap
  <2>9. ConnHolds(log, epoch, page, conn')
    BY <2>3, <2>5, <2>6, <2>7, <2>8 DEF ConnHolds
  <2>10. QED
    BY <1>1, <1>2, <2>4, <2>9 DEF TimelineInv
<1>4. CASE conn' = [Screens!Unstarted EXCEPT !.step = "ready"] /\ page' = page
  <2>1. conn' = [step |-> "ready", generation |-> Missing, head |-> 0, read |-> 0, events |-> {},
                 cursor |-> 0, wire |-> <<>>]
    BY <1>4 DEF Screens!Unstarted
  <2>2. conn' \in ConnType
    BY <2>1 DEF ConnType
  <2>3. ConnHolds(log, epoch, page, conn')
    BY <2>1, <2>2 DEF ConnHolds
  <2>4. QED
    BY <1>1, <1>2, <1>4, <2>3 DEF TimelineInv
<1>5. CASE Screens!Ends(Screens!Expired)
  BY <1>1, <1>5, EndsStep
<1>6. QED
  BY <1>3, <1>4, <1>5 DEF Screens!Probe

LEMMA OpenStep ==
  ASSUME TimelineInv, Screens!Open
  PROVE  TimelineInv'
<1>1. /\ TrailSound /\ PageHolds(log, epoch, page) /\ ConnHolds(log, epoch, page, conn)
      /\ UNCHANGED Screens!trail /\ conn.step = "ready"
  BY DEF TimelineInv, Screens!Open
<1>2. TrailSound' /\ log' = log /\ epoch' = epoch
  BY <1>1, TrailStays DEF Screens!trail
<1>3. CASE Screens!Ends(Screens!Disconnected)
  BY <1>1, <1>3, EndsStep
<1>4. CASE Screens!Accepted(page.generation, page.after) /\ ~Screens!Ends(Screens!Disconnected)
  <2>1. PICK f : f = Screens!Row(generation, page.after, Missing)
    OBVIOUS
  <2>2. /\ conn' = [conn EXCEPT !.step = "open", !.generation = generation, !.cursor = page.after,
                                !.wire = <<f>>]
        /\ page' = page
    BY <1>4, <2>1 DEF Screens!Open
  <2>3. page.generation = generation /\ generation \in Nat /\ page.after \in Nat /\ conn \in ConnType
    BY <1>1, <1>4, TrailValues DEF Screens!Accepted, PageHolds, PageType, ConnHolds
  <2>4. f \in Frame /\ f.generation = generation /\ f.at = page.after /\ f.event = Missing
    BY <2>1, <2>3 DEF Frame, Screens!Row
  <2>5. <<f>> \in Seq(Frame) /\ Len(<<f>>) = 1 /\ <<f>>[1] = f /\ <<f>> # <<>>
    BY <2>4
  <2>6. PICK w : w = <<f>>
    OBVIOUS
  <2>7. /\ conn' \in ConnType /\ conn'.step = "open" /\ conn'.generation = generation
        /\ conn'.cursor = page.after /\ conn'.wire = w
    BY <2>2, <2>3, <2>5, <2>6 DEF ConnType
  <2>8. Leads(w) = 1
    BY <2>4, <2>5, <2>6 DEF Leads
  <2>9. \A i \in 1 .. Len(w) : i = 1 /\ w[i] = f
    BY <2>5, <2>6
  <2>10. Tells(log, epoch, f)
    BY <2>4 DEF Tells
  <2>11. OnTheWire(log, epoch, page, conn')
    BY <2>3, <2>4, <2>5, <2>6, <2>7, <2>8, <2>9, <2>10 DEF OnTheWire
  <2>12. ConnHolds(log, epoch, page, conn')
    BY <2>7, <2>11 DEF ConnHolds
  <2>13. QED
    BY <1>1, <1>2, <2>2, <2>12 DEF TimelineInv
<1>5. QED
  BY <1>3, <1>4 DEF Screens!Open

LEMMA WireAppend ==
  ASSUME NEW w \in Seq(Frame), NEW f \in Frame
  PROVE  /\ Append(w, f) \in Seq(Frame) /\ Len(Append(w, f)) = Len(w) + 1
         /\ \A i \in 1 .. Len(w) : Append(w, f)[i] = w[i]
         /\ Append(w, f)[Len(w) + 1] = f
OBVIOUS

LEMMA OneMore ==
  ASSUME NEW a \in Nat, NEW n \in Nat, NEW c \in Nat, NEW m \in Nat, a + n = c + m
  PROVE  a + (n + 1) = (c + 1) + m
OBVIOUS

LEMMA ServeStep ==
  ASSUME TimelineInv, Screens!Serve
  PROVE  TimelineInv'
<1>1. /\ TrailSound /\ PageHolds(log, epoch, page) /\ ConnHolds(log, epoch, page, conn)
      /\ UNCHANGED Screens!trail /\ conn.step = "open" /\ page' = page
  BY DEF TimelineInv, Screens!Serve
<1>2. TrailSound' /\ log' = log /\ epoch' = epoch
  BY <1>1, TrailStays DEF Screens!trail
<1>3. conn \in ConnType /\ OnTheWire(log, epoch, page, conn)
  BY <1>1 DEF ConnHolds
<1>4. CASE conn' = [conn EXCEPT !.step = "refused"]
  <2>1. /\ conn' \in ConnType /\ conn'.step = "refused" /\ conn'.generation = conn.generation
        /\ conn'.cursor = conn.cursor /\ conn'.wire = conn.wire
    BY <1>3, <1>4 DEF ConnType
  <2>2. OnTheWire(log, epoch, page, conn')
    BY <1>3, <2>1 DEF OnTheWire
  <2>3. QED
    BY <1>1, <1>2, <2>1, <2>2 DEF TimelineInv, ConnHolds
<1>5. CASE /\ Screens!Accepted(conn.generation, conn.cursor) /\ conn.cursor < Len(log)
           /\ conn' = [conn EXCEPT !.cursor = @ + 1,
                !.wire = Append(@, Screens!Row(generation, conn.cursor + 1, log[conn.cursor + 1]))]
  <2>1. PICK k \in Nat : k = conn.cursor + 1
    BY <1>3 DEF ConnType
  <2>2. conn.cursor \in Nat /\ k \in 1 .. Len(log) /\ log[k] \in Event /\ Len(conn.wire) \in Nat
    BY <1>1, <1>3, <1>5, <2>1, TrailValues DEF ConnType
  <2>3. PICK f : f = Screens!Row(generation, k, log[k])
    OBVIOUS
  <2>4. /\ generation = conn.generation /\ generation = epoch /\ generation \in Nat
    BY <1>1, <1>5, TrailValues DEF Screens!Accepted
  <2>5. f \in Frame /\ f.generation = generation /\ f.at = k /\ f.event = log[k] /\ f.event # Missing
    BY <2>2, <2>3, <2>4, TimelineConstants DEF Frame, Screens!Row
  <2>6. PICK w \in Seq(Frame) :
          /\ w = Append(conn.wire, f) /\ Len(w) = Len(conn.wire) + 1
          /\ \A i \in 1 .. Len(conn.wire) : w[i] = conn.wire[i]
          /\ w[Len(conn.wire) + 1] = f
    BY <1>3, <2>5, WireAppend DEF ConnType
  <2>7. conn' = [conn EXCEPT !.cursor = k, !.wire = w]
    BY <1>5, <2>1, <2>3, <2>6
  <2>8. /\ conn' \in ConnType /\ conn'.step = "open" /\ conn'.generation = conn.generation
        /\ conn'.cursor = k /\ conn'.wire = w
    BY <1>1, <1>3, <2>6, <2>7 DEF ConnType
  <2>9. Leads(w) = Leads(conn.wire)
    <3>1. CASE conn.wire = <<>>
      <4>1. Len(conn.wire) = 0 /\ w[1] = f
        BY <2>6, <3>1
      <4>2. QED
        BY <2>5, <3>1, <4>1 DEF Leads
    <3>2. CASE conn.wire # <<>>
      <4>1. 1 \in 1 .. Len(conn.wire) /\ w # <<>>
        <5>1. conn.wire \in Seq(Frame)
          BY <1>3 DEF ConnType
        <5>2. Len(conn.wire) \in Nat /\ Len(conn.wire) # 0
          BY <3>2, <5>1
        <5>3. Len(w) # 0
          BY <2>6, <5>2
        <5>4. QED
          BY <5>2, <5>3
      <4>2. QED
        BY <2>6, <3>2, <4>1 DEF Leads
    <3>3. QED
      BY <3>1, <3>2
  <2>10. page.after \in Nat /\ Leads(conn.wire) \in {0, 1}
    BY <1>1 DEF PageHolds, PageType, Leads
  <2>11. page.after + Len(conn.wire) = conn.cursor + Leads(conn.wire)
    BY <1>3 DEF OnTheWire
  <2>12. ASSUME NEW i \in 1 .. Len(w)
         PROVE  /\ w[i].generation = conn.generation /\ page.after + i = w[i].at + Leads(w)
                /\ i > 1 => w[i].event # Missing
                /\ Tells(log, epoch, w[i])
    <3>1. CASE i \in 1 .. Len(conn.wire)
      BY <1>3, <2>6, <2>9, <3>1 DEF OnTheWire
    <3>2. CASE i = Len(conn.wire) + 1
      <4>1. w[i] = f
        BY <2>6, <3>2
      <4>2. page.after + i = k + Leads(w)
        <5>1. Leads(conn.wire) \in Nat
          BY <2>10
        <5>2. page.after + (Len(conn.wire) + 1) = (conn.cursor + 1) + Leads(conn.wire)
          BY <2>2, <2>10, <2>11, <5>1, OneMore
        <5>3. QED
          BY <2>1, <2>9, <3>2, <5>2
      <4>3. Tells(log, epoch, f)
        BY <2>2, <2>5 DEF Tells
      <4>4. QED
        BY <2>4, <2>5, <4>1, <4>2, <4>3
    <3>3. QED
      BY <2>2, <2>6, <3>1, <3>2
  <2>13. page.after + Len(w) = k + Leads(w)
    <3>1. Leads(conn.wire) \in Nat
      BY <2>10
    <3>2. page.after + (Len(conn.wire) + 1) = (conn.cursor + 1) + Leads(conn.wire)
      BY <2>2, <2>10, <2>11, <3>1, OneMore
    <3>3. QED
      BY <2>1, <2>6, <2>9, <3>2
  <2>14. OnTheWire(log, epoch, page, conn')
    BY <1>3, <2>8, <2>12, <2>13 DEF OnTheWire
  <2>15. QED
    BY <1>1, <1>2, <2>8, <2>14 DEF TimelineInv, ConnHolds
<1>6. QED
  BY <1>4, <1>5 DEF Screens!Serve

LEMMA WireTail ==
  ASSUME NEW w \in Seq(Frame), w # <<>>
  PROVE  /\ Tail(w) \in Seq(Frame) /\ Len(w) \in Nat /\ Len(w) >= 1 /\ Len(Tail(w)) = Len(w) - 1
         /\ \A i \in 1 .. Len(w) - 1 : Tail(w)[i] = w[i + 1]
         /\ Head(w) = w[1] /\ w[1] \in Frame
OBVIOUS

(* What is left on the wire, seen from a page that has taken the first.    *)
LEMMA WireTaken ==
  ASSUME NEW l, NEW e, NEW p, NEW q, NEW c \in ConnType, OnTheWire(l, e, p, c), c.wire # <<>>,
         p.after \in Nat, q.generation = p.generation,
         q.after = p.after + 1 - Leads(c.wire), NEW d, d = [c EXCEPT !.wire = Tail(c.wire)]
  PROVE  d \in ConnType /\ d.step = c.step /\ OnTheWire(l, e, q, d) /\ d.wire = Tail(c.wire)
<1>1. c.wire \in Seq(Frame) /\ c.cursor \in Nat
  BY DEF ConnType
<1>2. PICK w \in Seq(Frame) : w = Tail(c.wire)
  BY <1>1, WireTail
<1>3. PICK n \in Nat : n = Len(c.wire) /\ n >= 1 /\ Len(w) = n - 1
  BY <1>1, <1>2, WireTail
<1>4. \A i \in 1 .. n - 1 : w[i] = c.wire[i + 1] /\ i + 1 \in 1 .. n /\ i + 1 > 1
  BY <1>1, <1>2, <1>3, WireTail
<1>5. /\ d \in ConnType /\ d.step = c.step /\ d.generation = c.generation /\ d.cursor = c.cursor
      /\ d.wire = w
  BY <1>2 DEF ConnType
<1>6. \A i \in 1 .. n :
        /\ c.wire[i].generation = c.generation /\ p.after + i = c.wire[i].at + Leads(c.wire)
        /\ i > 1 => c.wire[i].event # Missing
        /\ Tells(l, e, c.wire[i])
  BY <1>3 DEF OnTheWire
<1>7. Leads(w) = 0
  <2>1. CASE w = <<>>
    BY <2>1 DEF Leads
  <2>2. CASE w # <<>>
    <3>1. 1 \in 1 .. n - 1
      BY <1>3, <2>2
    <3>2. w[1].event # Missing
      BY <1>4, <1>6, <3>1
    <3>3. QED
      BY <3>2 DEF Leads
  <2>3. QED
    BY <2>1, <2>2
<1>8. PICK m \in {0, 1} : m = Leads(c.wire)
  BY DEF Leads
<1>9. PICK a \in Nat : a = p.after
  OBVIOUS
<1>10. q.after = a + 1 - m
  BY <1>8, <1>9
<1>11. a + n = c.cursor + m
  BY <1>3, <1>8, <1>9 DEF OnTheWire
<1>12. q.after + Len(w) = c.cursor + Leads(w)
  <2>1. PICK k \in Nat : k = c.cursor
    BY <1>1
  <2>2. a + n = k + m /\ q.after = a + 1 - m
    BY <1>10, <1>11, <2>1
  <2>3. (a + 1 - m) + (n - 1) = k
    BY <1>8, <2>2
  <2>4. QED
    BY <1>3, <1>7, <2>1, <2>2, <2>3
<1>13. ASSUME NEW i \in 1 .. n - 1
       PROVE  /\ w[i].generation = c.generation /\ q.after + i = w[i].at + Leads(w)
              /\ i > 1 => w[i].event # Missing
              /\ Tells(l, e, w[i])
  <2>1. /\ w[i] = c.wire[i + 1] /\ c.wire[i + 1].generation = c.generation
        /\ a + (i + 1) = c.wire[i + 1].at + m
        /\ c.wire[i + 1].event # Missing /\ Tells(l, e, c.wire[i + 1])
    BY <1>4, <1>6, <1>8, <1>9
  <2>2. PICK k \in Nat : k = w[i].at
    <3>1. c.wire[i + 1] \in Frame
      BY <1>1, <1>3, <1>4
    <3>2. QED
      BY <2>1, <3>1 DEF Frame
  <2>3. a + (i + 1) = k + m
    BY <2>1, <2>2
  <2>4. q.after + i = k + Leads(w)
    BY <1>7, <1>10, <2>3
  <2>5. QED
    BY <2>1, <2>2, <2>4
<1>14. q.generation \in Nat /\ c.generation = q.generation
  BY DEF OnTheWire
<1>15. OnTheWire(l, e, q, d)
  BY <1>3, <1>5, <1>12, <1>13, <1>14 DEF OnTheWire
<1>16. QED
  BY <1>2, <1>5, <1>15

(* The next row of the Run.                                                *)
LEMMA HeldNext ==
  ASSUME NEW l \in Seq(Event), NEW e \in Nat, NEW S, NEW g, NEW n, Held(l, e, S, g, n),
         NEW f \in Frame, f.generation = g, f.at = n + 1, f.event # Missing, Tells(l, e, f),
         NEW T, T = IF f.event \in Mine THEN S \cup {f} ELSE S
  PROVE  Held(l, e, T, g, n + 1)
<1>1. /\ S \subseteq RunRow /\ g \in Nat /\ n \in Nat /\ g <= e
      /\ \A r \in S : r.generation = g /\ r.at <= n
  BY DEF Held
<1>2. f = Screens!Row(g, n + 1, f.event)
  BY DEF Frame, Screens!Row
<1>3. f.event \in Mine => f \in RunRow
  BY <1>1 DEF Frame, RunRow
<1>4. T \subseteq RunRow /\ \A r \in T : r.generation = g /\ r.at <= n + 1
  <2>1. ASSUME NEW r \in T
        PROVE  r \in RunRow /\ r.generation = g /\ r.at <= n + 1
    <3>1. CASE r \in S
      <4>1. r \in RunRow /\ r.generation = g /\ r.at <= n /\ r.at \in Nat
        BY <1>1, <3>1 DEF RunRow
      <4>2. QED
        BY <1>1, <4>1
    <3>2. CASE r = f /\ f.event \in Mine
      BY <1>1, <1>3, <3>2
    <3>3. QED
      BY <3>1, <3>2
  <2>2. QED
    BY <2>1
<1>5. ASSUME g = e
      PROVE  n + 1 <= Len(l) /\ T = RowsTo(l, g, n + 1)
  <2>1. n <= Len(l) /\ S = RowsTo(l, g, n)
    BY <1>5 DEF Held
  <2>2. n + 1 \in 1 .. Len(l) /\ f.event = l[n + 1]
    BY <1>5 DEF Tells
  <2>3. \A j : j \in 1 .. n + 1 <=> j \in 1 .. n \/ j = n + 1
    BY <1>1
  <2>4. ASSUME NEW r
        PROVE  r \in T <=> r \in RowsTo(l, g, n + 1)
    <3>1. r \in RowsTo(l, g, n + 1) <=>
            \E i \in 1 .. n + 1 : l[i] \in Mine /\ r = Screens!Row(g, i, l[i])
      BY DEF RowsTo
    <3>2. r \in S <=> \E i \in 1 .. n : l[i] \in Mine /\ r = Screens!Row(g, i, l[i])
      BY <2>1 DEF RowsTo
    <3>3. r \in T <=> r \in S \/ (l[n + 1] \in Mine /\ r = Screens!Row(g, n + 1, l[n + 1]))
      BY <1>2, <2>2
    <3>4. QED
      BY <2>3, <3>1, <3>2, <3>3
  <2>5. QED
    BY <2>2, <2>4
<1>6. n + 1 \in Nat
  BY <1>1
<1>7. QED
  BY <1>1, <1>4, <1>5, <1>6 DEF Held

LEMMA ReceiveStep ==
  ASSUME TimelineInv, Screens!Receive
  PROVE  TimelineInv'
<1>1. /\ TrailSound /\ PageHolds(log, epoch, page) /\ ConnHolds(log, epoch, page, conn)
      /\ UNCHANGED Screens!trail /\ conn.wire # <<>>
  BY DEF TimelineInv, Screens!Receive
<1>2. TrailSound' /\ log' = log /\ epoch' = epoch
  BY <1>1, TrailStays DEF Screens!trail
<1>3. conn \in ConnType /\ conn.step \in {"open", "refused"} /\ OnTheWire(log, epoch, page, conn)
  BY <1>1 DEF ConnHolds, ConnType
<1>4. page \in PageType /\ page.epoch \in Nat /\ page.after \in Nat /\ conn.wire \in Seq(Frame)
  BY <1>1, <1>3 DEF PageHolds, PageType, ConnType
<1>5. PICK f \in Frame : f = conn.wire[1] /\ f = Head(conn.wire)
  BY <1>1, <1>4, WireTail
<1>6. /\ page' = IF f.event = Missing THEN Screens!Ready(f) ELSE Screens!Audit(f)
      /\ conn' = IF page'.epoch = page.epoch THEN [conn EXCEPT !.wire = Tail(conn.wire)] ELSE Screens!Unstarted
  BY <1>5 DEF Screens!Receive
<1>7. Leads(conn.wire) = IF f.event = Missing THEN 1 ELSE 0
  BY <1>1, <1>5 DEF Leads
<1>8. CASE page' = Screens!Expired
  <2>1. page'.epoch # page.epoch
    <3>1. PICK n \in Nat : n = page.epoch + 1
      BY <1>4
    <3>2. page' = [Screens!initialTimeline EXCEPT !.epoch = n]
      BY <1>8, <3>1, Zenon DEF Screens!Expired
    <3>3. page'.epoch = n
      BY <3>2 DEF Screens!initialTimeline
    <3>4. QED
      BY <1>4, <3>1, <3>3
  <2>2. conn' = Screens!Unstarted
    BY <1>6, <2>1
  <2>3. PageHolds(log, epoch, page')
    BY <1>4, <1>8, ExpiredHolds
  <2>4. ConnHolds(log, epoch, page', conn')
    BY <2>2, UnstartedHolds
  <2>5. QED
    BY <1>2, <2>3, <2>4 DEF TimelineInv
<1>9. ASSUME page'.epoch = page.epoch, page'.generation = page.generation,
             page'.after = page.after + 1 - Leads(conn.wire), PageHolds(log, epoch, page')
      PROVE  TimelineInv'
  <2>1. conn' = [conn EXCEPT !.wire = Tail(conn.wire)]
    BY <1>6, <1>9
  <2>2. conn' \in ConnType /\ conn'.step = conn.step /\ OnTheWire(log, epoch, page', conn')
    BY <1>1, <1>3, <1>4, <1>9, <2>1, WireTaken
  <2>3. ConnHolds(log, epoch, page', conn')
    BY <1>3, <2>2 DEF ConnHolds
  <2>4. QED
    BY <1>2, <1>9, <2>3 DEF TimelineInv
<1>10. CASE f.event = Missing /\ page' # Screens!Expired
  <2>1. page.after = page.after + 1 - Leads(conn.wire)
    BY <1>4, <1>7, <1>10
  <2>2. CASE page.staged = {}
    <3>1. page' = page
      BY <1>6, <1>10, <2>2 DEF Screens!Ready
    <3>2. QED
      BY <1>1, <1>9, <2>1, <3>1
  <2>3. CASE page.staged # {}
    <3>1. page.generation \in Nat /\ page.generation # Missing
      BY <1>3, TimelineConstants DEF OnTheWire
    <3>2. PICK S : page.staged = {S} /\ Held(log, epoch, S, page.generation, page.after)
      BY <1>1, <2>3, <3>1 DEF PageHolds
    <3>3. S \in SUBSET RunRow /\ \A r \in S : r.event \in Mine /\ r.at <= page.after
      BY <3>2 DEF Held, RunRow
    <3>4. {r \in UNION page.staged : r.event \in Mine /\ r.at <= page.after} = S
      BY <3>2, <3>3
    <3>5. page' = [page EXCEPT !.staged = {}, !.events = S]
      BY <1>6, <1>10, <2>3, <3>4 DEF Screens!Ready
    <3>6. /\ page' \in PageType /\ page'.epoch = page.epoch /\ page'.generation = page.generation
          /\ page'.after = page.after /\ page'.staged = {} /\ page'.events = S
      BY <1>4, <3>3, <3>5 DEF PageType
    <3>7. PageHolds(log, epoch, page')
      BY <3>1, <3>2, <3>6 DEF PageHolds
    <3>8. QED
      BY <1>9, <2>1, <3>6, <3>7
  <2>4. QED
    BY <2>2, <2>3
<1>11. CASE f.event # Missing /\ page' # Screens!Expired
  <2>1. page.staged = {} /\ f.generation = page.generation
    BY <1>6, <1>11 DEF Screens!Audit
  <2>2. page.generation \in Nat /\ page.generation # Missing
    BY <1>3, TimelineConstants DEF OnTheWire
  <2>3. Held(log, epoch, page.events, page.generation, page.after)
    BY <1>1, <2>1, <2>2 DEF PageHolds
  <2>4. f.at = page.after + 1 /\ f.at \in Nat /\ Tells(log, epoch, f)
    <3>1. 1 \in 1 .. Len(conn.wire)
      BY <1>1, <1>4, WireTail
    <3>2. page.after + 1 = f.at + Leads(conn.wire) /\ Tells(log, epoch, f)
      BY <1>3, <1>5, <3>1 DEF OnTheWire
    <3>3. QED
      BY <1>4, <1>7, <1>11, <3>2 DEF Frame
  <2>5. ~ \E r \in page.events : r.at = f.at /\ r.generation = f.generation /\ r # f
    <3>1. ASSUME NEW r \in page.events
          PROVE  r.at # f.at
      <4>1. r.at <= page.after /\ r.at \in Nat
        BY <2>3 DEF Held, RunRow
      <4>2. QED
        BY <1>4, <2>4, <4>1
    <3>2. QED
      BY <3>1
  <2>6. PICK T : T = IF f.event \in Mine THEN page.events \cup {f} ELSE page.events
    OBVIOUS
  <2>7. f.at > page.after
    BY <1>4, <2>4
  <2>8. PICK n \in Nat : n = page.after + 1
    BY <1>4
  <2>9. page' = [page EXCEPT !.events = T, !.after = n]
    BY <1>6, <1>11, <2>1, <2>4, <2>5, <2>6, <2>7, <2>8 DEF Screens!Audit
  <2>10. Held(log, epoch, T, page.generation, n)
    BY <1>1, <1>11, <2>1, <2>3, <2>4, <2>6, <2>8, HeldNext, TrailValues
  <2>11. T \in SUBSET RunRow
    BY <2>10 DEF Held
  <2>12. /\ page' \in PageType /\ page'.epoch = page.epoch /\ page'.generation = page.generation
         /\ page'.after = n /\ page'.staged = {} /\ page'.events = T
    BY <1>4, <2>1, <2>9, <2>11 DEF PageType
  <2>13. PageHolds(log, epoch, page')
    BY <2>2, <2>10, <2>12 DEF PageHolds
  <2>14. page'.after = page.after + 1 - Leads(conn.wire)
    BY <1>4, <1>7, <1>11, <2>8, <2>12
  <2>15. QED
    BY <1>9, <2>12, <2>13, <2>14
<1>12. QED
  BY <1>8, <1>10, <1>11

LEMMA RefusedStep ==
  ASSUME TimelineInv, Screens!Refused
  PROVE  TimelineInv'
BY EndsStep DEF Screens!Refused

LEMMA LostStep ==
  ASSUME TimelineInv, Screens!Lost
  PROVE  TimelineInv'
BY EndsStep DEF Screens!Lost

(* A page of the history: it leaves out nothing before its last event, and *)
(* it is empty only if nothing is left.                                    *)
LEMMA PageIsFirst ==
  ASSUME NEW n \in Nat, log \in Seq(Event)
  PROVE  /\ Screens!PageAfter(n) \subseteq Screens!Later(n)
         /\ Screens!Later(n) \subseteq n + 1 .. Len(log)
         /\ \A i \in Screens!PageAfter(n), k \in Screens!Later(n) : k <= i => k \in Screens!PageAfter(n)
         /\ Screens!PageAfter(n) = {} => Screens!Later(n) = {}
<1> DEFINE R == Screens!Later(n)
           Upto(i) == {j \in R : j <= i}
<1>1. R \subseteq n + 1 .. Len(log) /\ Len(log) \in Nat
  BY DEF Screens!Later
<1>2. \A i : Screens!Cardinality({j \in Screens!Later(n) : j <= i}) = Cardinality(Upto(i))
  BY DEF Screens!Cardinality, Cardinality
<1>3. \A i : i \in Screens!PageAfter(n) <=> i \in R /\ Cardinality(Upto(i)) <= PageSize
  <2>1. \A i : i \in Screens!PageAfter(n) <=>
               /\ i \in Screens!Later(n)
               /\ Screens!Cardinality({j \in Screens!Later(n) : j <= i}) <= PageSize
    BY DEF Screens!PageAfter
  <2>2. QED
    BY <1>2, <2>1
<1>4. IsFiniteSet(R)
  <2>1. IsFiniteSet(n + 1 .. Len(log))
    BY <1>1, FS_Interval
  <2>2. QED
    BY <1>1, <2>1, FS_Subset
<1>5. \A i : IsFiniteSet(Upto(i)) /\ Cardinality(Upto(i)) \in Nat
  BY <1>4, FS_Subset, FS_CardinalityType
<1>6. ASSUME NEW i \in R, NEW k \in R, k <= i
      PROVE  Cardinality(Upto(k)) <= Cardinality(Upto(i))
  <2>1. Upto(k) \subseteq Upto(i)
    BY <1>1, <1>6
  <2> HIDE DEF Upto
  <2>2. QED
    BY <1>5, <2>1, FS_Subset
<1>7. ASSUME R # {}
      PROVE  \E i \in R : Cardinality(Upto(i)) <= PageSize
  <2>1. R \in SUBSET (1 .. Len(log))
    BY <1>1
  <2>2. PICK i \in R : \A k \in R : i <= k
    <3> HIDE DEF R
    <3>1. QED
      BY <1>1, <1>7, <2>1, FirstOne
  <2>3. Upto(i) = {i}
    BY <1>1, <2>2
  <2>4. Cardinality(Upto(i)) = 1
    BY <2>3, FS_Singleton
  <2>5. 1 <= PageSize
    BY TimelineConstants
  <2> HIDE DEF R, Upto
  <2>6. QED
    BY <2>2, <2>4, <2>5
<1> HIDE DEF R, Upto
<1>8. ASSUME NEW i \in Screens!PageAfter(n), NEW k \in R, k <= i
      PROVE  k \in Screens!PageAfter(n)
  <2>1. i \in R /\ Cardinality(Upto(i)) <= PageSize
    BY <1>3, <1>8
  <2>2. /\ Cardinality(Upto(k)) <= Cardinality(Upto(i)) /\ Cardinality(Upto(k)) \in Nat
        /\ Cardinality(Upto(i)) \in Nat
    BY <1>5, <1>6, <1>8, <2>1
  <2>3. Cardinality(Upto(k)) <= PageSize
    BY <2>1, <2>2, TimelineConstants
  <2>4. QED
    BY <1>3, <1>8, <2>3
<1>9. QED
  BY <1>1, <1>3, <1>7, <1>8 DEF R

LEMMA HeldFurther ==
  ASSUME NEW l \in Seq(Event), NEW e \in Nat, NEW S, NEW g, NEW n, Held(l, e, S, g, n),
         NEW m \in Nat, n <= m, g = e => m <= Len(l),
         NEW R, R \subseteq 1 .. Len(l), \A i \in R : n < i /\ i <= m /\ l[i] \in Mine,
         \A j \in 1 .. m : n < j /\ g = e /\ l[j] \in Mine => j \in R,
         NEW T, T = S \cup {Screens!Row(g, i, l[i]) : i \in R}
  PROVE  Held(l, e, T, g, m)
<1>1. /\ S \subseteq RunRow /\ g \in Nat /\ n \in Nat /\ g <= e
      /\ \A r \in S : r.generation = g /\ r.at <= n
  BY DEF Held
<1>2. ASSUME NEW r \in T
      PROVE  r \in RunRow /\ r.generation = g /\ r.at <= m
  <2>1. CASE r \in S
    <3>1. r \in RunRow /\ r.at \in Nat /\ r.at <= n
      BY <1>1, <2>1 DEF RunRow
    <3>2. QED
      BY <1>1, <2>1, <3>1
  <2>2. CASE r \in {Screens!Row(g, i, l[i]) : i \in R}
    <3>1. PICK i \in R : r = Screens!Row(g, i, l[i])
      BY <2>2
    <3>2. i \in Nat /\ i <= m /\ l[i] \in Mine
      BY <3>1
    <3>3. QED
      BY <1>1, <3>1, <3>2 DEF RunRow, Screens!Row
  <2>3. QED
    BY <2>1, <2>2
<1>3. ASSUME g = e
      PROVE  T = RowsTo(l, g, m)
  <2>1. S = RowsTo(l, g, n)
    BY <1>3 DEF Held
  <2>2. \A i : i \in 1 .. m /\ l[i] \in Mine <=> (i \in 1 .. n /\ l[i] \in Mine) \/ i \in R
    <3>1. ASSUME NEW i \in 1 .. m, l[i] \in Mine
          PROVE  i \in 1 .. n \/ i \in R
      <4>1. CASE n < i
        BY <1>3, <3>1, <4>1
      <4>2. CASE i <= n
        BY <1>1, <4>2
      <4>3. QED
        BY <1>1, <4>1, <4>2
    <3>2. ASSUME NEW i \in R
          PROVE  i \in 1 .. m /\ l[i] \in Mine
      <4>1. i \in 1 .. Len(l) /\ i <= m /\ l[i] \in Mine
        OBVIOUS
      <4>2. QED
        BY <4>1
    <3>3. \A i \in 1 .. n : i \in 1 .. m
      BY <1>1
    <3>4. QED
      BY <3>1, <3>2, <3>3
  <2>3. ASSUME NEW r
        PROVE  r \in T <=> r \in RowsTo(l, g, m)
    <3>1. r \in RowsTo(l, g, m) <=> \E i \in 1 .. m : l[i] \in Mine /\ r = Screens!Row(g, i, l[i])
      BY DEF RowsTo
    <3>2. r \in S <=> \E i \in 1 .. n : l[i] \in Mine /\ r = Screens!Row(g, i, l[i])
      BY <2>1 DEF RowsTo
    <3>3. r \in T <=> r \in S \/ \E i \in R : r = Screens!Row(g, i, l[i])
      OBVIOUS
    <3>4. QED
      BY <2>2, <3>1, <3>2, <3>3
  <2>4. QED
    BY <2>3
<1>4. QED
  BY <1>1, <1>2, <1>3 DEF Held

LEMMA ReadStep ==
  ASSUME TimelineInv, Screens!Read
  PROVE  TimelineInv'
<1>1. /\ TrailSound /\ PageHolds(log, epoch, page) /\ ConnHolds(log, epoch, page, conn)
      /\ UNCHANGED Screens!trail /\ conn.step = "reading" /\ conn \in ConnType /\ page \in PageType
  BY DEF TimelineInv, Screens!Read, ConnHolds, PageHolds
<1>2. TrailSound' /\ log' = log /\ epoch' = epoch
  BY <1>1, TrailStays DEF Screens!trail
<1>3. /\ page.generation = Missing \/ page.staged # {}
      /\ Held(log, epoch, conn.events, conn.generation, conn.read) /\ conn.read <= conn.head
      /\ conn.generation = epoch => conn.head <= Len(log)
  BY <1>1 DEF ConnHolds
<1>4. PICK g \in Nat, n \in Nat, h \in Nat, S \in SUBSET RunRow :
        g = conn.generation /\ n = conn.read /\ h = conn.head /\ S = conn.events
  BY <1>1, <1>3 DEF ConnType, Held
<1>5. log \in Seq(Event) /\ Len(log) \in Nat /\ epoch \in Nat
  BY <1>1, TrailValues
<1>6. PICK rows : rows = Screens!PageAfter(n)
  OBVIOUS
<1>7. /\ \A i \in rows : i \in 1 .. Len(log) /\ n < i /\ log[i] \in Mine
      /\ \A i \in rows : \A k \in 1 .. Len(log) : n < k /\ log[k] \in Mine /\ k <= i => k \in rows
      /\ rows = {} => \A k \in 1 .. Len(log) : n < k => log[k] \notin Mine
  <2>1. \A k : k \in Screens!Later(n) <=> k \in 1 .. Len(log) /\ n < k /\ log[k] \in Mine
    BY <1>5 DEF Screens!Later
  <2>2. /\ rows \subseteq Screens!Later(n) /\ (rows = {} => Screens!Later(n) = {})
        /\ \A i \in rows, k \in Screens!Later(n) : k <= i => k \in rows
    BY <1>5, <1>6, PageIsFirst
  <2>3. \A i \in rows : i \in 1 .. Len(log) /\ n < i /\ log[i] \in Mine
    <3>1. \A i \in rows : i \in Screens!Later(n)
      BY <2>2
    <3>2. QED
      BY <2>1, <3>1
  <2>4. \A i \in rows : \A k \in 1 .. Len(log) : n < k /\ log[k] \in Mine /\ k <= i => k \in rows
    BY <2>1, <2>2
  <2>5. rows = {} => \A k \in 1 .. Len(log) : n < k => log[k] \notin Mine
    <3>1. rows = {} => \A k : k \notin Screens!Later(n)
      BY <2>2
    <3>2. QED
      BY <2>1, <3>1
  <2>6. QED
    BY <2>3, <2>4, <2>5
<1>8. PICK next : next = Screens!Last(rows, n)
  OBVIOUS
<1>9. IF rows = {} THEN next = n ELSE next \in rows /\ \A j \in rows : j <= next
  <2>1. CASE rows = {}
    BY <1>8, <2>1 DEF Screens!Last
  <2>2. CASE rows # {}
    <3>1. rows \in SUBSET (1 .. Len(log))
      BY <1>7
    <3>2. \E i \in rows : \A j \in rows : j <= i
      BY <1>5, <2>2, <3>1, LastOne
    <3>3. next = CHOOSE i \in rows : \A j \in rows : j <= i
      BY <1>8, <2>2 DEF Screens!Last
    <3>4. QED
      BY <2>2, <3>2, <3>3
  <2>3. QED
    BY <2>1, <2>2
<1>10. PICK R : R = {j \in rows : j <= h}
  OBVIOUS
<1>11. PICK all : all = S \cup {Screens!Row(g, i, log[i]) : i \in R}
  OBVIOUS
<1>12. \/ /\ n < h /\ rows # {} /\ next < h
          /\ conn' = [conn EXCEPT !.read = next, !.events = all] /\ page' = page
       \/ /\ ~(n < h /\ rows # {} /\ next < h)
          /\ conn' = [Screens!Unstarted EXCEPT !.step = "ready"]
          /\ page' = [page EXCEPT !.generation = g, !.after = h, !.staged = {all}]
  BY <1>4, <1>6, <1>8, <1>10, <1>11 DEF Screens!Read
<1>13. R \subseteq 1 .. Len(log) /\ \A i \in R : n < i /\ i <= h /\ log[i] \in Mine
  BY <1>7, <1>10
<1>14. CASE /\ n < h /\ rows # {} /\ next < h
            /\ conn' = [conn EXCEPT !.read = next, !.events = all] /\ page' = page
  <2>1. next \in Nat /\ n <= next /\ next <= Len(log)
    BY <1>5, <1>7, <1>9, <1>14
  <2>2. \A i \in R : i <= next
    BY <1>9, <1>10, <1>14
  <2>3. \A j \in 1 .. next : n < j /\ g = epoch /\ log[j] \in Mine => j \in R
    <3>1. ASSUME NEW j \in 1 .. next, n < j, log[j] \in Mine
          PROVE  j \in R
      <4>1. j \in 1 .. Len(log) /\ j <= next /\ j <= h
        BY <1>5, <1>14, <2>1
      <4>2. j \in rows
        BY <1>7, <1>9, <1>14, <3>1, <4>1
      <4>3. QED
        BY <1>10, <4>1, <4>2
    <3>2. QED
      BY <3>1
  <2>4. Held(log, epoch, all, g, next)
    <3>1. Held(log, epoch, S, g, n) /\ (g = epoch => next <= Len(log))
      BY <1>3, <1>4, <2>1
    <3>2. \A i \in R : n < i /\ i <= next /\ log[i] \in Mine
      BY <1>13, <2>2
    <3>3. QED
      BY <1>5, <1>11, <1>13, <2>1, <2>3, <3>1, <3>2, HeldFurther
  <2>5. all \in SUBSET RunRow
    BY <2>4 DEF Held
  <2>6. /\ conn' \in ConnType /\ conn'.step = "reading" /\ conn'.generation = g /\ conn'.head = h
        /\ conn'.read = next /\ conn'.events = all /\ conn'.wire = conn.wire
    BY <1>1, <1>4, <1>14, <2>1, <2>5 DEF ConnType
  <2>7. conn.wire = <<>>
    BY <1>1 DEF ConnHolds
  <2>8. next <= h
    BY <1>14, <2>1
  <2>9. ConnHolds(log, epoch, page, conn')
    BY <1>3, <1>4, <2>4, <2>6, <2>7, <2>8 DEF ConnHolds
  <2>10. QED
    BY <1>1, <1>2, <1>14, <2>9 DEF TimelineInv
<1>15. CASE /\ ~(n < h /\ rows # {} /\ next < h)
            /\ conn' = [Screens!Unstarted EXCEPT !.step = "ready"]
            /\ page' = [page EXCEPT !.generation = g, !.after = h, !.staged = {all}]
  <2>1. conn' = [step |-> "ready", generation |-> Missing, head |-> 0, read |-> 0, events |-> {},
                 cursor |-> 0, wire |-> <<>>]
    BY <1>15 DEF Screens!Unstarted
  <2>2. conn' \in ConnType
    BY <2>1 DEF ConnType
  <2>3. ASSUME NEW j \in 1 .. h, n < j, g = epoch, log[j] \in Mine
        PROVE  j \in R
    <3>1. j \in 1 .. Len(log) /\ n < h /\ j <= h
      BY <1>3, <1>4, <1>5, <2>3
    <3>2. rows # {}
      BY <1>7, <2>3, <3>1
    <3>3. next \in rows /\ next \in Nat /\ ~(next < h)
      BY <1>7, <1>9, <1>15, <3>1, <3>2
    <3>4. j <= next
      BY <3>1, <3>3
    <3>5. j \in rows
      BY <1>7, <2>3, <3>1, <3>3, <3>4
    <3>6. QED
      BY <1>10, <3>1, <3>5
  <2>4. Held(log, epoch, all, g, h)
    <3>1. Held(log, epoch, S, g, n) /\ (g = epoch => h <= Len(log)) /\ n <= h
      BY <1>3, <1>4
    <3>2. \A j \in 1 .. h : n < j /\ g = epoch /\ log[j] \in Mine => j \in R
      BY <2>3
    <3>3. QED
      BY <1>5, <1>11, <1>13, <3>1, <3>2, HeldFurther
  <2>5. all \in SUBSET RunRow
    BY <2>4 DEF Held
  <2>6. page.events = {}
    BY <1>1, <1>3 DEF PageHolds
  <2>7. /\ page' \in PageType /\ page'.generation = g /\ page'.after = h
        /\ page'.staged = {all} /\ page'.events = {}
    BY <1>1, <1>15, <2>5, <2>6 DEF PageType
  <2>8. PageHolds(log, epoch, page')
    BY <2>4, <2>7, TimelineConstants DEF PageHolds
  <2>9. ConnHolds(log, epoch, page', conn')
    BY <2>1, <2>2 DEF ConnHolds
  <2>10. QED
    BY <1>2, <2>8, <2>9 DEF TimelineInv
<1>16. QED
  BY <1>12, <1>14, <1>15

(* Every step of the page, and of the database.                            *)
LEMMA TimelineStep ==
  ASSUME TimelineInv, Screens!Next \/ UNCHANGED Screens!vars
  PROVE  TimelineInv'
<1>1. CASE UNCHANGED Screens!vars
  BY <1>1 DEF TimelineInv, TrailSound, Screens!TrailTypeOK, Screens!vars, Screens!trail
<1>2. CASE Screens!Database
  <2>1. TrailSound /\ PageHolds(log, epoch, page) /\ ConnHolds(log, epoch, page, conn)
    BY DEF TimelineInv
  <2>2. TrailSound' /\ Continues(log, epoch, log', epoch') /\ page' = page /\ conn' = conn
    BY <1>2, <2>1, DatabaseStep
  <2>3. PageHolds(log', epoch', page) /\ ConnHolds(log', epoch', page, conn)
    BY <2>1, <2>2, PageContinues, ConnContinues
  <2>4. QED
    BY <2>2, <2>3 DEF TimelineInv
<1>3. QED
  BY <1>1, <1>2, ProbeStep, ReadStep, OpenStep, ServeStep, ReceiveStep, RefusedStep, LostStep
     DEF Screens!Next

-----------------------------------------------------------------------------
(* Inbox.  The shapes of the page, of a call and of a submission; what a   *)
(* list holds no step looks into.                                          *)
CallLike(x) ==
  x = [kind |-> x.kind, of |-> x.of, verdict |-> x.verdict, pages |-> x.pages,
       server |-> x.server, answer |-> x.answer, client |-> x.client]
SubmissionLike(x) == x = [id |-> x.id, phase |-> x.phase]
TabLike(t) ==
  t = [seen |-> t.seen, timer |-> t.timer, current |-> t.current, used |-> t.used,
       calls |-> t.calls, items |-> t.items, next |-> t.next, observedAt |-> t.observedAt,
       listId |-> t.listId, pages |-> t.pages, submissions |-> t.submissions, reasons |-> t.reasons]
InboxLike(t) ==
  /\ TabLike(t)
  /\ t.calls = [c \in Screens!Approving!Ids |-> t.calls[c]]
  /\ t.submissions = [a \in Numbers |-> t.submissions[a]]
  /\ t.reasons = [a \in Numbers |-> t.reasons[a]]
  /\ \A c \in Screens!Approving!Ids : CallLike(t.calls[c])
  /\ \A a \in Numbers : SubmissionLike(t.submissions[a])
  /\ t.used \in Nat /\ t.used <= InboxCalls /\ t.observedAt \in Nat

(* Calls are numbered as they are made, and the current one is of a list.  *)
InboxSound(t) ==
  /\ InboxLike(t)
  /\ \A c \in Screens!Approving!Ids : c > t.used => t.calls[c] = Screens!Approving!NoCall
  /\ \A c \in Screens!Approving!Ids : t.calls[c].kind = "decide" => t.calls[c].of \in Numbers
  /\ t.current \in Nat /\ t.current <= t.used
  /\ t.current # 0 => t.calls[t.current].kind # "decide"

(* A submission under way has its call, which is about it; so has a list   *)
(* that is loading, and it does not know less than what is shown.          *)
Submitted(t, a) ==
  LET c == t.submissions[a].id IN
  /\ c \in Screens!Approving!Ids
  /\ t.calls[c].kind = "decide" /\ t.calls[c].of = a /\ t.calls[c].verdict = t.reasons[a]
  /\ t.calls[c].client = "waiting"
Loading(t) ==
  /\ t.listId \in Screens!Approving!Ids /\ t.calls[t.listId].kind = "list"
  /\ t.calls[t.listId].client = "waiting" /\ ~Screens!Approving!Deciding(t)
  /\ t.calls[t.listId].server = "done" =>
       /\ t.calls[t.listId].answer.observedAt \in Nat
       /\ t.observedAt <= t.calls[t.listId].answer.observedAt
InboxAlive(t) ==
  /\ \A a \in Numbers : t.submissions[a].phase = "deciding" => Submitted(t, a)
  /\ t.listId # 0 => Loading(t)

RowLike(x) == x = [state |-> x.state, by |-> x.by, verdict |-> x.verdict]
(* What happened to Approvals until now.                                   *)
Made(r) == {a \in Numbers : r[a].state # "none"}
Settled(r) == {a \in Made(r) : r[a].state # "open"}
Clock(r) == Cardinality(Made(r)) + Cardinality(Settled(r))

(* A decision that was answered well, and one shown as confirmed, is so;   *)
(* what lists know is no later than now.                                   *)
InboxTruth(r, t) ==
  /\ \A c \in Screens!Approving!Ids :
       t.calls[c].kind = "decide" /\ t.calls[c].server = "done" /\ t.calls[c].answer.ok =>
         r[t.calls[c].of] = [state |-> "decided", by |-> c, verdict |-> t.calls[c].verdict]
  /\ \A a \in Numbers : t.submissions[a].phase = "confirmed" =>
       r[a] = [state |-> "decided", by |-> t.submissions[a].id, verdict |-> t.reasons[a]]
  /\ \A c \in Screens!Approving!Ids : t.calls[c].kind = "list" /\ t.calls[c].server = "done" =>
       t.calls[c].answer.observedAt \in Nat /\ t.calls[c].answer.observedAt <= Clock(r)
  /\ t.observedAt <= Clock(r)

Opened(t, c, kind) == t.calls[c].kind = kind /\ t.calls[c].client \in {"waiting", "aborted"}
Polls(t) ==
  \/ t.timer
  \/ \E c \in Screens!Approving!Ids : Opened(t, c, "decide") \/ (c = t.current /\ Opened(t, c, "list"))

InboxInv ==
  /\ approvals = [a \in Numbers |-> approvals[a]] /\ \A a \in Numbers : RowLike(approvals[a])
  /\ InboxSound(inbox) /\ InboxTruth(approvals, inbox)
  /\ inbox.seen # "gone" => InboxAlive(inbox)
  /\ inbox.seen = "visible" => Polls(inbox)

LEMMA InboxConstants ==
  /\ Judged \subseteq Numbers /\ Numbers \subseteq Nat \ {0} /\ IsFiniteSet(Numbers)
  /\ Size \in Nat \ {0} /\ InboxCalls \in Nat \ {0}
<1>1. /\ Judged \subseteq Numbers /\ Numbers \subseteq Nat \ {0} /\ Size \in Nat \ {0}
      /\ InboxCalls \in Nat \ {0}
  BY ScreensGiven DEF Screens!Assumptions, Screens!Approving!InboxAssumption
<1>2. Screens!Approving!IsFiniteSet(Numbers)
  BY ScreensGiven DEF Screens!Assumptions, Screens!Approving!InboxAssumption
<1>3. IsFiniteSet(Numbers)
  BY <1>2 DEF Screens!Approving!IsFiniteSet, IsFiniteSet
<1>4. QED
  BY <1>1, <1>3

LEMMA NoCalls ==
  /\ CallLike(Screens!Approving!NoCall) /\ Screens!Approving!NoCall.kind = "none"
  /\ Screens!Approving!NoCall.client = "none" /\ Screens!Approving!NoCall.server = "none"
  /\ CallLike(Screens!Approving!Over) /\ Screens!Approving!Over.kind = "none"
  /\ Screens!Approving!Over.client = "ended" /\ Screens!Approving!Over.server = "none"
BY DEF Screens!Approving!NoCall, Screens!Approving!Over, CallLike

(* The invariant is what the inbox promises.                               *)
LEMMA InboxShown == InboxInv => Screens!Approving!InboxTrue
<1> SUFFICES ASSUME InboxInv PROVE Screens!Approving!InboxTrue
  OBVIOUS
<1>1. Screens!Approving!ConfirmedIsTrue
  BY DEF InboxInv, InboxTruth, Screens!Approving!ConfirmedIsTrue
<1>2. Screens!Approving!NotStuck
  BY DEF InboxInv, InboxAlive, Submitted, Loading, Screens!Approving!NotStuck, Screens!Approving!Here
<1>3. Screens!Approving!GoesOn
  BY DEF InboxInv, Polls, Opened, Screens!Approving!GoesOn, Screens!Approving!Open
<1>4. QED
  BY <1>1, <1>2, <1>3 DEF Screens!Approving!InboxTrue

(* What each function of the page leaves as it is.                         *)
SameBesides(t, u) ==
  /\ u.items = t.items /\ u.next = t.next /\ u.observedAt = t.observedAt /\ u.pages = t.pages
  /\ u.submissions = t.submissions /\ u.reasons = t.reasons /\ u.seen = t.seen
Same(x, y) ==
  /\ y.kind = x.kind /\ y.of = x.of /\ y.verdict = x.verdict /\ y.pages = x.pages
  /\ y.server = x.server /\ y.answer = x.answer

LEMMA ClientIs ==
  ASSUME NEW x, CallLike(x), NEW v, NEW y, y = [x EXCEPT !.client = v]
  PROVE  CallLike(y) /\ y.client = v /\ Same(x, y)
BY DEF CallLike, Same

LEMMA ClientOf ==
  ASSUME NEW t, NEW c, NEW v, TabLike(t)
  PROVE  [t EXCEPT !.calls[c].client = v] = [t EXCEPT !.calls = [t.calls EXCEPT ![c].client = v]]
BY DEF TabLike

CallsAborted(t, u, c) == \A d \in Screens!Approving!Ids :
  /\ Same(t.calls[d], u.calls[d])
  /\ d # c => u.calls[d] = t.calls[d]
  /\ u.calls[d] # t.calls[d] => t.calls[d].client = "waiting" /\ u.calls[d].client = "aborted"

LEMMA AbortedIs ==
  ASSUME NEW t, InboxLike(t), NEW c, NEW u, u = Screens!Approving!Aborted(t, c)
  PROVE  /\ InboxLike(u) /\ SameBesides(t, u) /\ u.timer = t.timer /\ u.current = t.current
         /\ u.used = t.used /\ u.listId = t.listId
         /\ CallsAborted(t, u, c)
<1>1. CASE c \in Screens!Approving!Ids /\ t.calls[c].client = "waiting"
  <2>1. u = [t EXCEPT !.calls[c].client = "aborted"]
    BY <1>1 DEF Screens!Approving!Aborted
  <2>2. PICK cs : cs = [t.calls EXCEPT ![c].client = "aborted"]
    OBVIOUS
  <2>3. TabLike(t)
    BY DEF InboxLike
  <2>4. /\ TabLike(u) /\ u.calls = cs /\ SameBesides(t, u) /\ u.timer = t.timer /\ u.current = t.current
        /\ u.used = t.used /\ u.listId = t.listId
    <3>1. u = [t EXCEPT !.calls = cs]
      BY <2>1, <2>2, <2>3, ClientOf
    <3>2. QED
      BY <2>3, <3>1 DEF TabLike, SameBesides
  <2>5. PICK y : y = [t.calls[c] EXCEPT !.client = "aborted"]
    OBVIOUS
  <2>6. CallLike(y) /\ y.client = "aborted" /\ Same(t.calls[c], y)
    <3>1. CallLike(t.calls[c])
      BY <1>1 DEF InboxLike
    <3>2. QED
      BY <2>5, <3>1, ClientIs
  <2>7. /\ cs = [d \in Screens!Approving!Ids |-> cs[d]] /\ cs[c] = y
        /\ \A d \in Screens!Approving!Ids : d # c => cs[d] = t.calls[d]
    BY <1>1, <2>2, <2>5 DEF InboxLike
  <2>8. ASSUME NEW d \in Screens!Approving!Ids
        PROVE  /\ CallLike(cs[d]) /\ Same(t.calls[d], cs[d]) /\ (d # c => cs[d] = t.calls[d])
               /\ cs[d] # t.calls[d] => t.calls[d].client = "waiting" /\ cs[d].client = "aborted"
    <3>1. CASE d = c
      BY <1>1, <2>6, <2>7, <3>1
    <3>2. CASE d # c
      BY <2>7, <3>2 DEF InboxLike, Same
    <3>3. QED
      BY <3>1, <3>2
  <2>9. InboxLike(u)
    BY <2>4, <2>7, <2>8 DEF InboxLike, SameBesides
  <2>10. QED
    BY <2>4, <2>8, <2>9 DEF CallsAborted
<1>2. CASE ~(c \in Screens!Approving!Ids /\ t.calls[c].client = "waiting")
  <2>1. u = t
    BY <1>2 DEF Screens!Approving!Aborted
  <2>2. QED
    BY <2>1 DEF SameBesides, Same, CallsAborted
<1>3. QED
  BY <1>1, <1>2

LEMMA SendsIs ==
  ASSUME NEW t, InboxLike(t), t.used < InboxCalls, NEW x, CallLike(x), NEW u,
         u = Screens!Approving!Sends(t, x)
  PROVE  /\ InboxLike(u) /\ SameBesides(t, u) /\ u.timer = t.timer /\ u.current = t.current
         /\ u.used = t.used + 1 /\ u.listId = t.listId /\ u.used \in Screens!Approving!Ids
         /\ \A d \in Screens!Approving!Ids : d # u.used => u.calls[d] = t.calls[d]
         /\ u.calls[u.used].kind = x.kind /\ u.calls[u.used].of = x.of
         /\ u.calls[u.used].verdict = x.verdict /\ u.calls[u.used].pages = x.pages
         /\ u.calls[u.used].server = "coming" /\ u.calls[u.used].client = "waiting"
<1>1. PICK n \in Nat : n = t.used + 1
  BY DEF InboxLike
<1>2. n \in Screens!Approving!Ids /\ n <= InboxCalls
  BY <1>1, InboxConstants DEF InboxLike, Screens!Approving!Ids
<1>3. PICK y : y = [x EXCEPT !.server = "coming", !.client = "waiting"]
  OBVIOUS
<1>4. /\ CallLike(y) /\ y.kind = x.kind /\ y.of = x.of /\ y.verdict = x.verdict /\ y.pages = x.pages
      /\ y.server = "coming" /\ y.client = "waiting"
  BY <1>3 DEF CallLike
<1>5. PICK cs : cs = [t.calls EXCEPT ![n] = y]
  OBVIOUS
<1>6. u = [t EXCEPT !.used = n, !.calls = cs]
  <2>1. u = [t EXCEPT !.used = t.used + 1,
                      !.calls[t.used + 1] = [x EXCEPT !.server = "coming", !.client = "waiting"]]
    BY DEF Screens!Approving!Sends
  <2>2. u = [t EXCEPT !.used = n, !.calls[n] = y]
    BY <1>1, <1>3, <2>1
  <2>3. QED
    BY <1>5, <2>2
<1>7. /\ TabLike(u) /\ u.calls = cs /\ SameBesides(t, u) /\ u.timer = t.timer /\ u.current = t.current
      /\ u.used = n /\ u.listId = t.listId
  BY <1>6 DEF InboxLike, TabLike, SameBesides
<1>8. /\ cs = [d \in Screens!Approving!Ids |-> cs[d]] /\ cs[n] = y
      /\ \A d \in Screens!Approving!Ids : d # n => cs[d] = t.calls[d]
  BY <1>2, <1>5 DEF InboxLike
<1>9. \A d \in Screens!Approving!Ids : CallLike(cs[d])
  BY <1>4, <1>8 DEF InboxLike
<1>10. InboxLike(u)
  BY <1>2, <1>7, <1>8, <1>9 DEF InboxLike, SameBesides
<1>11. QED
  BY <1>1, <1>2, <1>4, <1>7, <1>8, <1>10

LEMMA EndsIs ==
  ASSUME NEW t, InboxLike(t), NEW c \in Screens!Approving!Ids, NEW u, u = Screens!Approving!Ends(t, c)
  PROVE  /\ InboxLike(u) /\ SameBesides(t, u) /\ u.timer = t.timer /\ u.current = t.current
         /\ u.used = t.used /\ u.listId = t.listId
         /\ \A d \in Screens!Approving!Ids : d # c => u.calls[d] = t.calls[d]
         /\ \/ u.calls[c] = Screens!Approving!Over
            \/ Same(t.calls[c], u.calls[c]) /\ u.calls[c].client = "ended"
                 /\ t.calls[c].server = "coming"
<1>1. PICK y : y = IF t.calls[c].kind = "decide" /\ t.calls[c].server = "coming"
                   THEN [t.calls[c] EXCEPT !.client = "ended"] ELSE Screens!Approving!Over
  OBVIOUS
<1>2. /\ CallLike(y)
      /\ \/ y = Screens!Approving!Over
         \/ Same(t.calls[c], y) /\ y.client = "ended" /\ t.calls[c].server = "coming"
  <2>1. CASE y = Screens!Approving!Over
    BY <2>1, NoCalls
  <2>2. CASE y = [t.calls[c] EXCEPT !.client = "ended"] /\ t.calls[c].server = "coming"
    <3>1. CallLike(t.calls[c])
      BY DEF InboxLike
    <3>2. CallLike(y) /\ Same(t.calls[c], y) /\ y.client = "ended"
      BY <2>2, <3>1, ClientIs
    <3>3. QED
      BY <2>2, <3>2
  <2>3. QED
    BY <1>1, <2>1, <2>2
<1>3. PICK cs : cs = [t.calls EXCEPT ![c] = y]
  OBVIOUS
<1>4. u = [t EXCEPT !.calls = cs]
  <2>1. CASE t.calls[c].kind = "decide" /\ t.calls[c].server = "coming"
    <3>1. u = [t EXCEPT !.calls[c].client = "ended"] /\ y = [t.calls[c] EXCEPT !.client = "ended"]
      BY <1>1, <2>1 DEF Screens!Approving!Ends
    <3>2. cs = [t.calls EXCEPT ![c].client = "ended"]
      BY <1>3, <3>1
    <3>3. QED
      BY <3>1, <3>2
  <2>2. CASE ~(t.calls[c].kind = "decide" /\ t.calls[c].server = "coming")
    BY <1>1, <1>3, <2>2 DEF Screens!Approving!Ends
  <2>3. QED
    BY <2>1, <2>2
<1>5. /\ TabLike(u) /\ u.calls = cs /\ SameBesides(t, u) /\ u.timer = t.timer /\ u.current = t.current
      /\ u.used = t.used /\ u.listId = t.listId
  BY <1>4 DEF InboxLike, TabLike, SameBesides
<1>6. /\ cs = [d \in Screens!Approving!Ids |-> cs[d]] /\ cs[c] = y
      /\ \A d \in Screens!Approving!Ids : d # c => cs[d] = t.calls[d]
  BY <1>3 DEF InboxLike
<1>7. \A d \in Screens!Approving!Ids : CallLike(cs[d])
  BY <1>2, <1>6 DEF InboxLike
<1>8. InboxLike(u)
  BY <1>5, <1>6, <1>7 DEF InboxLike, SameBesides
<1>9. QED
  BY <1>2, <1>5, <1>6, <1>8

InboxGood(r, t) == InboxSound(t) /\ InboxTruth(r, t) /\ InboxAlive(t)
Decides(t, a, c) == t.submissions[a].phase = "deciding" /\ t.submissions[a].id = c

LEMMA InboxIds == \A c \in Screens!Approving!Ids : c \in Nat /\ c # 0 /\ c <= InboxCalls
BY InboxConstants DEF Screens!Approving!Ids

(* A call is over that nothing waits for.                                  *)
LEMMA CallEnds ==
  ASSUME NEW r, NEW t, InboxGood(r, t), NEW c \in Screens!Approving!Ids, t.calls[c].kind # "none",
         c # t.listId,
         \A a \in Numbers : ~Decides(t, a, c), NEW u, u = Screens!Approving!Ends(t, c)
  PROVE  /\ InboxGood(r, u) /\ SameBesides(t, u) /\ u.timer = t.timer /\ u.current = t.current
         /\ u.used = t.used /\ u.listId = t.listId
         /\ \A d \in Screens!Approving!Ids : d # c => u.calls[d] = t.calls[d]
<1>1. InboxSound(t) /\ InboxTruth(r, t) /\ InboxAlive(t) /\ InboxLike(t)
  BY DEF InboxGood, InboxSound
<1>2. /\ InboxLike(u) /\ SameBesides(t, u) /\ u.timer = t.timer /\ u.current = t.current
      /\ u.used = t.used /\ u.listId = t.listId
      /\ \A d \in Screens!Approving!Ids : d # c => u.calls[d] = t.calls[d]
      /\ \/ u.calls[c] = Screens!Approving!Over
         \/ Same(t.calls[c], u.calls[c]) /\ u.calls[c].client = "ended" /\ t.calls[c].server = "coming"
  BY <1>1, EndsIs
<1>3. /\ u.calls[c].kind # "decide" \/ u.calls[c].server # "done"
      /\ u.calls[c].kind # "list" \/ u.calls[c].server # "done"
      /\ (u.calls[c].kind = t.calls[c].kind /\ u.calls[c].of = t.calls[c].of)
           \/ u.calls[c].kind = "none"
  BY <1>2, NoCalls DEF Same
<1>4. c <= t.used
  <2>1. c \in Nat /\ t.used \in Nat
    BY <1>1, InboxIds DEF InboxLike
  <2>2. ~(c > t.used)
    BY <1>1, NoCalls DEF InboxSound
  <2>3. QED
    BY <2>1, <2>2
<1>5. InboxSound(u)
  <2>1. ASSUME NEW d \in Screens!Approving!Ids
        PROVE  /\ d > u.used => u.calls[d] = Screens!Approving!NoCall
               /\ u.calls[d].kind = "decide" => u.calls[d].of \in Numbers
    <3>1. CASE d = c
      <4>1. ~(d > u.used)
        BY <1>1, <1>2, <1>4, <3>1, InboxIds DEF InboxLike
      <4>2. QED
        BY <1>1, <1>3, <3>1, <4>1 DEF InboxSound
    <3>2. CASE d # c
      BY <1>1, <1>2, <3>2 DEF InboxSound
    <3>3. QED
      BY <3>1, <3>2
  <2>2. u.current \in Nat /\ u.current <= u.used
    BY <1>1, <1>2 DEF InboxSound
  <2>3. ASSUME u.current # 0
        PROVE  u.calls[u.current].kind # "decide"
    <3>1. t.current \in Screens!Approving!Ids
      BY <1>1, <1>2, <2>3, InboxConstants DEF InboxSound, InboxLike, Screens!Approving!Ids
    <3>2. t.calls[t.current].kind # "decide"
      BY <1>1, <1>2, <2>3 DEF InboxSound
    <3>3. QED
      BY <1>2, <1>3, <3>1, <3>2
  <2>4. QED
    BY <1>2, <2>1, <2>2, <2>3 DEF InboxSound
<1>6. InboxTruth(r, u)
  <2>1. ASSUME NEW d \in Screens!Approving!Ids, u.calls[d].kind = "decide", u.calls[d].server = "done",
               u.calls[d].answer.ok
        PROVE  r[u.calls[d].of] = [state |-> "decided", by |-> d, verdict |-> u.calls[d].verdict]
    <3>1. d # c /\ u.calls[d] = t.calls[d]
      BY <1>2, <1>3, <2>1
    <3>2. QED
      BY <1>1, <2>1, <3>1 DEF InboxTruth
  <2>2. \A a \in Numbers : u.submissions[a].phase = "confirmed" =>
          r[a] = [state |-> "decided", by |-> u.submissions[a].id, verdict |-> u.reasons[a]]
    BY <1>1, <1>2 DEF InboxTruth, SameBesides
  <2>3. ASSUME NEW d \in Screens!Approving!Ids, u.calls[d].kind = "list", u.calls[d].server = "done"
        PROVE  u.calls[d].answer.observedAt \in Nat /\ u.calls[d].answer.observedAt <= Clock(r)
    <3>1. d # c /\ u.calls[d] = t.calls[d]
      BY <1>2, <1>3, <2>3
    <3>2. QED
      BY <1>1, <2>3, <3>1 DEF InboxTruth
  <2>4. u.observedAt <= Clock(r)
    BY <1>1, <1>2 DEF InboxTruth, SameBesides
  <2>5. QED
    BY <2>1, <2>2, <2>3, <2>4 DEF InboxTruth
<1>7. InboxAlive(u)
  <2>1. ASSUME NEW a \in Numbers, u.submissions[a].phase = "deciding"
        PROVE  Submitted(u, a)
    <3>1. /\ t.submissions[a].phase = "deciding" /\ u.submissions[a] = t.submissions[a]
          /\ u.reasons[a] = t.reasons[a]
      BY <1>2, <2>1 DEF SameBesides
    <3>2. Submitted(t, a) /\ t.submissions[a].id # c
      BY <1>1, <3>1 DEF InboxAlive, Decides
    <3>3. QED
      BY <1>2, <3>1, <3>2 DEF Submitted
  <2>2. ASSUME u.listId # 0
        PROVE  Loading(u)
    <3>1. Loading(t)
      BY <1>1, <1>2, <2>2 DEF InboxAlive
    <3>2. u.calls[u.listId] = t.calls[t.listId]
      BY <1>2, <3>1 DEF Loading
    <3>3. ~Screens!Approving!Deciding(u)
      BY <1>2, <3>1 DEF Loading, Screens!Approving!Deciding, SameBesides
    <3>4. QED
      BY <1>2, <3>1, <3>2, <3>3 DEF Loading, SameBesides
  <2>3. QED
    BY <2>1, <2>2 DEF InboxAlive
<1>8. QED
  BY <1>2, <1>5, <1>6, <1>7 DEF InboxGood

(* A load, if there is one, starts a list that the page waits for; if      *)
(* there is none, the page is not seen or waits for a decision.            *)
LEMMA LoadHolds ==
  ASSUME NEW r, NEW t, InboxGood(r, t),
         t.used < InboxCalls \/ Screens!Approving!Deciding(t) \/ t.seen # "visible",
         NEW p, NEW u, u = Screens!Approving!Load(t, p)
  PROVE  /\ InboxGood(r, u) /\ u.observedAt = t.observedAt /\ u.seen = t.seen
         /\ u.seen = "visible" => Polls(u)
<1>1. InboxSound(t) /\ InboxTruth(r, t) /\ InboxAlive(t) /\ InboxLike(t)
  BY DEF InboxGood, InboxSound
<1>2. CASE t.seen # "visible" \/ Screens!Approving!Deciding(t)
  <2>1. u = t
    BY <1>2 DEF Screens!Approving!Load
  <2>2. ASSUME t.seen = "visible"
        PROVE  Polls(t)
    <3>1. PICK a \in Numbers : t.submissions[a].phase = "deciding"
      BY <1>2, <2>2 DEF Screens!Approving!Deciding
    <3>2. Submitted(t, a)
      BY <1>1, <3>1 DEF InboxAlive
    <3>3. QED
      BY <3>2 DEF Submitted, Polls, Opened
  <2>3. QED
    BY <2>1, <2>2
<1>3. CASE t.seen = "visible" /\ ~Screens!Approving!Deciding(t)
  <2>1. PICK v : v = Screens!Approving!Aborted(t, t.current)
    OBVIOUS
  <2>2. /\ InboxLike(v) /\ SameBesides(t, v) /\ v.used = t.used
        /\ \A d \in Screens!Approving!Ids : Same(t.calls[d], v.calls[d])
        /\ \A d \in Screens!Approving!Ids : t.calls[d].client # "waiting" => v.calls[d] = t.calls[d]
    <3>1. /\ InboxLike(v) /\ SameBesides(t, v) /\ v.timer = t.timer /\ v.current = t.current
          /\ v.used = t.used /\ v.listId = t.listId
          /\ CallsAborted(t, v, t.current)
      BY <1>1, <2>1, AbortedIs
    <3>2. QED
      BY <3>1 DEF CallsAborted
  <2>3. PICK n \in Nat : n = t.used + 1
    BY <1>1 DEF InboxLike
  <2>4. PICK w : w = [v EXCEPT !.timer = FALSE, !.current = n]
    OBVIOUS
  <2>5. /\ InboxLike(w) /\ SameBesides(v, w) /\ w.used = v.used /\ w.calls = v.calls /\ w.current = n
    <3>1. TabLike(v)
      BY <2>2 DEF InboxLike
    <3>2. TabLike(w) /\ SameBesides(v, w) /\ w.used = v.used /\ w.calls = v.calls /\ w.current = n
      BY <2>4, <3>1 DEF TabLike, SameBesides
    <3>3. QED
      BY <2>2, <3>2 DEF InboxLike, SameBesides
  <2>6. PICK x : x = [Screens!Approving!NoCall EXCEPT !.kind = "list", !.pages = p]
    OBVIOUS
  <2>7. CallLike(x) /\ x.kind = "list"
    BY <2>6 DEF Screens!Approving!NoCall, CallLike
  <2>8. PICK y : y = Screens!Approving!Sends(w, x)
    OBVIOUS
  <2>9. w.used < InboxCalls /\ w.used + 1 = n
    BY <1>3, <2>2, <2>3, <2>5
  <2>10. /\ InboxLike(y) /\ SameBesides(w, y) /\ y.current = n /\ y.used = n
         /\ n \in Screens!Approving!Ids
         /\ \A d \in Screens!Approving!Ids : d # n => y.calls[d] = w.calls[d]
         /\ y.calls[n].kind = "list" /\ y.calls[n].server = "coming" /\ y.calls[n].client = "waiting"
    <3>1. /\ InboxLike(y) /\ SameBesides(w, y) /\ y.current = w.current
          /\ y.used = w.used + 1 /\ y.used \in Screens!Approving!Ids
          /\ \A d \in Screens!Approving!Ids : d # y.used => y.calls[d] = w.calls[d]
          /\ y.calls[y.used].kind = x.kind
          /\ y.calls[y.used].server = "coming" /\ y.calls[y.used].client = "waiting"
      BY <2>5, <2>7, <2>8, <2>9, SendsIs
    <3>2. QED
      BY <2>5, <2>7, <2>9, <3>1
  <2>11. u = Screens!Approving!ListStart(y, n)
    BY <1>3, <2>1, <2>3, <2>4, <2>6, <2>8, <2>9, <2>2, <2>5 DEF Screens!Approving!Load
  <2>12. SameBesides(t, y) /\ ~Screens!Approving!Deciding(y)
    <3>1. SameBesides(t, y)
      BY <2>2, <2>5, <2>10 DEF SameBesides
    <3>2. QED
      BY <1>3, <3>1 DEF SameBesides, Screens!Approving!Deciding
  <2>13. u = [y EXCEPT !.listId = n]
    BY <2>11, <2>12 DEF Screens!Approving!ListStart
  <2>14. /\ InboxLike(u) /\ SameBesides(t, u) /\ u.used = n /\ u.current = n /\ u.listId = n
         /\ u.calls = y.calls
    <3>1. TabLike(y)
      BY <2>10 DEF InboxLike
    <3>2. /\ TabLike(u) /\ SameBesides(y, u) /\ u.used = y.used /\ u.calls = y.calls
          /\ u.current = y.current /\ u.listId = n
      BY <2>13, <3>1 DEF TabLike, SameBesides
    <3>3. InboxLike(u)
      BY <2>10, <3>2 DEF InboxLike, SameBesides
    <3>4. SameBesides(t, u)
      BY <2>12, <3>2 DEF SameBesides
    <3>5. QED
      BY <2>10, <3>2, <3>3, <3>4
  <2>15. ~Screens!Approving!Deciding(u)
    BY <1>3, <2>14 DEF SameBesides, Screens!Approving!Deciding
  <2>16. \A d \in Screens!Approving!Ids : d # n => Same(t.calls[d], u.calls[d])
    BY <2>2, <2>5, <2>10, <2>14 DEF Same
  <2>17. InboxSound(u)
    <3>1. ASSUME NEW d \in Screens!Approving!Ids
          PROVE  /\ d > u.used => u.calls[d] = Screens!Approving!NoCall
                 /\ u.calls[d].kind = "decide" => u.calls[d].of \in Numbers
      <4>1. CASE d = n
        BY <2>3, <2>10, <2>14, <4>1
      <4>2. CASE d # n
        <5>1. Same(t.calls[d], u.calls[d])
          BY <2>16, <4>2
        <5>2. u.calls[d].kind = "decide" => u.calls[d].of \in Numbers
          BY <1>1, <5>1 DEF Same, InboxSound
        <5>3. ASSUME d > u.used
              PROVE  u.calls[d] = Screens!Approving!NoCall
          <6>1. d > t.used
            BY <1>1, <2>3, <2>14, <5>3, InboxIds DEF InboxLike
          <6>2. t.calls[d] = Screens!Approving!NoCall /\ t.calls[d].client # "waiting"
            BY <1>1, <6>1, NoCalls DEF InboxSound
          <6>3. v.calls[d] = t.calls[d]
            BY <2>2, <6>2
          <6>4. QED
            BY <2>5, <2>10, <2>14, <4>2, <6>2, <6>3
        <5>4. QED
          BY <5>2, <5>3
      <4>3. QED
        BY <4>1, <4>2
    <3>2. u.current \in Nat /\ u.current <= u.used /\ u.calls[u.current].kind # "decide"
      BY <2>10, <2>14
    <3>3. QED
      BY <2>14, <3>1, <3>2 DEF InboxSound
  <2>18. InboxTruth(r, u)
    <3>1. ASSUME NEW d \in Screens!Approving!Ids, u.calls[d].kind = "decide",
                 u.calls[d].server = "done", u.calls[d].answer.ok
          PROVE  r[u.calls[d].of] = [state |-> "decided", by |-> d, verdict |-> u.calls[d].verdict]
      <4>1. d # n
        BY <2>10, <2>14, <3>1
      <4>2. Same(t.calls[d], u.calls[d])
        BY <2>16, <4>1
      <4>3. QED
        BY <1>1, <3>1, <4>2 DEF InboxTruth, Same
    <3>2. \A a \in Numbers : u.submissions[a].phase = "confirmed" =>
            r[a] = [state |-> "decided", by |-> u.submissions[a].id, verdict |-> u.reasons[a]]
      BY <1>1, <2>14 DEF InboxTruth, SameBesides
    <3>3. ASSUME NEW d \in Screens!Approving!Ids, u.calls[d].kind = "list", u.calls[d].server = "done"
          PROVE  u.calls[d].answer.observedAt \in Nat /\ u.calls[d].answer.observedAt <= Clock(r)
      <4>1. d # n
        BY <2>10, <2>14, <3>3
      <4>2. Same(t.calls[d], u.calls[d])
        BY <2>16, <4>1
      <4>3. QED
        BY <1>1, <3>3, <4>2 DEF InboxTruth, Same
    <3>4. u.observedAt <= Clock(r)
      BY <1>1, <2>14 DEF InboxTruth, SameBesides
    <3>5. QED
      BY <3>1, <3>2, <3>3, <3>4 DEF InboxTruth
  <2>19. InboxAlive(u)
    <3>1. \A a \in Numbers : u.submissions[a].phase # "deciding"
      BY <2>15 DEF Screens!Approving!Deciding
    <3>2. Loading(u)
      BY <2>10, <2>14, <2>15 DEF Loading
    <3>3. QED
      BY <3>1, <3>2 DEF InboxAlive
  <2>20. Polls(u)
    BY <2>10, <2>14 DEF Polls, Opened
  <2>21. QED
    BY <2>14, <2>17, <2>18, <2>19, <2>20 DEF InboxGood, SameBesides
<1>4. QED
  BY <1>2, <1>3

(* The answer of a list, or that there will be none.                       *)
LEMMA ListResultHolds ==
  ASSUME NEW r, NEW t, InboxSound(t), InboxTruth(r, t), NEW c \in Screens!Approving!Ids,
         \A a \in Numbers : t.submissions[a].phase = "deciding" => Submitted(t, a),
         t.listId # 0 /\ t.listId # c => Loading(t), NEW x,
         t.listId = c /\ x # Screens!Approving!NoPage =>
           x.observedAt \in Nat /\ t.observedAt <= x.observedAt /\ x.observedAt <= Clock(r),
         NEW u, u = Screens!Approving!ListResult(t, c, x)
  PROVE  /\ InboxGood(r, u) /\ u.calls = t.calls /\ u.seen = t.seen /\ u.timer = t.timer
         /\ u.current = t.current /\ u.used = t.used /\ u.submissions = t.submissions
         /\ t.observedAt <= u.observedAt /\ u.listId # c
<1>1. InboxLike(t) /\ TabLike(t) /\ t.observedAt \in Nat /\ c # 0
  BY InboxIds DEF InboxSound, InboxLike
<1>2. CASE t.listId # c
  <2>1. u = t
    BY <1>2 DEF Screens!Approving!ListResult, Screens!Approving!Accepts
  <2>2. InboxAlive(t)
    BY <1>2 DEF InboxAlive
  <2>3. QED
    BY <1>1, <1>2, <2>1, <2>2 DEF InboxGood
<1>3. CASE t.listId = c
  <2>1. /\ TabLike(u) /\ u.calls = t.calls /\ u.seen = t.seen /\ u.timer = t.timer
        /\ u.current = t.current /\ u.used = t.used /\ u.submissions = t.submissions
        /\ u.reasons = t.reasons /\ u.listId = 0
        /\ u.observedAt = t.observedAt \/ (u.observedAt = x.observedAt /\ x # Screens!Approving!NoPage)
    <3>1. CASE x = Screens!Approving!NoPage
      <4>1. u = [t EXCEPT !.listId = 0]
        BY <1>3, <3>1 DEF Screens!Approving!ListResult, Screens!Approving!Accepts
      <4>2. QED
        BY <1>1, <4>1 DEF TabLike
    <3>2. CASE x # Screens!Approving!NoPage
      <4>1. PICK i, m, o, p : i = x.items /\ m = x.next /\ o = x.observedAt /\ p = t.calls[c].pages
        OBVIOUS
      <4>2. u = [t EXCEPT !.listId = 0, !.items = i, !.next = m, !.observedAt = o, !.pages = p]
        BY <1>3, <3>2, <4>1 DEF Screens!Approving!ListResult, Screens!Approving!Accepts
      <4>3. /\ TabLike(u) /\ u.calls = t.calls /\ u.seen = t.seen /\ u.timer = t.timer
            /\ u.current = t.current /\ u.used = t.used /\ u.submissions = t.submissions
            /\ u.reasons = t.reasons /\ u.listId = 0 /\ u.observedAt = o
        BY <1>1, <4>2 DEF TabLike
      <4>4. QED
        BY <3>2, <4>1, <4>3
    <3>3. QED
      BY <3>1, <3>2
  <2>2. u.observedAt \in Nat /\ t.observedAt <= u.observedAt
    BY <1>1, <1>3, <2>1
  <2>3. InboxLike(u)
    BY <1>1, <2>1, <2>2 DEF InboxLike
  <2>4. InboxSound(u)
    BY <2>1, <2>3 DEF InboxSound
  <2>5. InboxTruth(r, u)
    <3>1. u.observedAt <= Clock(r)
      BY <1>3, <2>1 DEF InboxTruth
    <3>2. QED
      BY <2>1, <3>1 DEF InboxTruth
  <2>6. InboxAlive(u)
    BY <2>1 DEF InboxAlive, Submitted
  <2>7. QED
    BY <1>1, <1>3, <2>1, <2>2, <2>4, <2>5, <2>6 DEF InboxGood
<1>4. QED
  BY <1>2, <1>3

(* What the page learns of its decision.                                   *)
LEMMA DecideResultHolds ==
  ASSUME NEW r, NEW t, InboxSound(t), InboxTruth(r, t), NEW c \in Screens!Approving!Ids,
         t.calls[c].kind = "decide",
         \A a \in Numbers : t.submissions[a].phase = "deciding" /\ t.submissions[a].id # c =>
           Submitted(t, a),
         \A a \in Numbers : Decides(t, a, c) => t.calls[c].of = a /\ t.calls[c].verdict = t.reasons[a],
         t.listId # 0 => Loading(t), NEW phase \in {"confirmed", "failed", "unknown"},
         phase = "confirmed" =>
           r[t.calls[c].of] = [state |-> "decided", by |-> c, verdict |-> t.calls[c].verdict],
         NEW u, u = Screens!Approving!DecideResult(t, c, phase)
  PROVE  /\ InboxGood(r, u) /\ u.calls = t.calls /\ u.seen = t.seen /\ u.timer = t.timer
         /\ u.current = t.current /\ u.used = t.used /\ u.observedAt = t.observedAt
         /\ u.listId = t.listId
         /\ \A a \in Numbers : ~Decides(u, a, c)
<1>1. InboxLike(t) /\ TabLike(t) /\ t.calls[c].of \in Numbers
  BY DEF InboxSound, InboxLike
<1>2. PICK b \in Numbers : b = t.calls[c].of
  BY <1>1
<1>3. CASE ~Decides(t, b, c)
  <2>1. u = t
    BY <1>2, <1>3 DEF Screens!Approving!DecideResult, Screens!Approving!IsAbout, Decides
  <2>2. \A a \in Numbers : ~Decides(t, a, c)
    BY <1>2, <1>3
  <2>3. InboxAlive(t)
    BY <2>2 DEF InboxAlive, Decides
  <2>4. QED
    BY <2>1, <2>2, <2>3 DEF InboxGood
<1>4. CASE Decides(t, b, c)
  <2>1. u = [t EXCEPT !.submissions[b].phase = phase]
    BY <1>2, <1>4 DEF Screens!Approving!DecideResult, Screens!Approving!IsAbout, Decides
  <2>2. PICK y : y = [t.submissions[b] EXCEPT !.phase = phase]
    OBVIOUS
  <2>3. SubmissionLike(y) /\ y.phase = phase /\ y.id = t.submissions[b].id
    <3>1. SubmissionLike(t.submissions[b])
      BY <1>1 DEF InboxLike
    <3>2. QED
      BY <2>2, <3>1 DEF SubmissionLike
  <2>4. PICK ss : ss = [t.submissions EXCEPT ![b] = y]
    OBVIOUS
  <2>5. u = [t EXCEPT !.submissions = ss]
    BY <1>1, <2>1, <2>2, <2>4 DEF TabLike
  <2>6. /\ TabLike(u) /\ u.calls = t.calls /\ u.seen = t.seen /\ u.timer = t.timer
        /\ u.current = t.current /\ u.used = t.used /\ u.submissions = ss /\ u.observedAt = t.observedAt
        /\ u.reasons = t.reasons /\ u.listId = t.listId
    BY <1>1, <2>5 DEF TabLike
  <2>7. /\ ss = [a \in Numbers |-> ss[a]] /\ ss[b] = y
        /\ \A a \in Numbers : a # b => ss[a] = t.submissions[a]
    BY <1>1, <2>4 DEF InboxLike
  <2>8. \A a \in Numbers : SubmissionLike(ss[a])
    BY <1>1, <2>3, <2>7 DEF InboxLike
  <2>9. InboxLike(u)
    BY <1>1, <2>6, <2>7, <2>8 DEF InboxLike
  <2>10. InboxSound(u)
    BY <2>6, <2>9 DEF InboxSound
  <2>11. InboxTruth(r, u)
    <3>1. \A d \in Screens!Approving!Ids :
            u.calls[d].kind = "decide" /\ u.calls[d].server = "done" /\ u.calls[d].answer.ok =>
              r[u.calls[d].of] = [state |-> "decided", by |-> d, verdict |-> u.calls[d].verdict]
      BY <2>6 DEF InboxTruth
    <3>2. ASSUME NEW a \in Numbers, u.submissions[a].phase = "confirmed"
          PROVE  r[a] = [state |-> "decided", by |-> u.submissions[a].id, verdict |-> u.reasons[a]]
      <4>1. CASE a = b
        <5>1. phase = "confirmed" /\ u.submissions[a].id = c /\ t.calls[c].verdict = u.reasons[a]
          BY <1>4, <2>3, <2>6, <2>7, <3>2, <4>1 DEF Decides
        <5>2. QED
          BY <1>2, <4>1, <5>1
      <4>2. CASE a # b
        BY <2>6, <2>7, <3>2, <4>2 DEF InboxTruth
      <4>3. QED
        BY <4>1, <4>2
    <3>3. \A d \in Screens!Approving!Ids : u.calls[d].kind = "list" /\ u.calls[d].server = "done" =>
            u.calls[d].answer.observedAt \in Nat /\ u.calls[d].answer.observedAt <= Clock(r)
      BY <2>6 DEF InboxTruth
    <3>4. u.observedAt <= Clock(r)
      BY <2>6 DEF InboxTruth
    <3>5. QED
      BY <3>1, <3>2, <3>3, <3>4 DEF InboxTruth
  <2>12. \A a \in Numbers : ~Decides(u, a, c)
    <3>1. ASSUME NEW a \in Numbers, Decides(u, a, c)
          PROVE  FALSE
      <4>1. CASE a = b
        BY <2>3, <2>6, <2>7, <3>1, <4>1 DEF Decides
      <4>2. CASE a # b
        <5>1. Decides(t, a, c)
          BY <2>6, <2>7, <3>1, <4>2 DEF Decides
        <5>2. QED
          BY <1>2, <4>2, <5>1
      <4>3. QED
        BY <4>1, <4>2
    <3>2. QED
      BY <3>1
  <2>13. InboxAlive(u)
    <3>1. ASSUME NEW a \in Numbers, u.submissions[a].phase = "deciding"
          PROVE  Submitted(u, a)
      <4>1. a # b
        BY <2>3, <2>6, <2>7, <3>1
      <4>2. u.submissions[a] = t.submissions[a]
        BY <2>6, <2>7, <4>1
      <4>3. t.submissions[a].id # c
        BY <2>12, <3>1, <4>2 DEF Decides
      <4>4. Submitted(t, a)
        BY <3>1, <4>2, <4>3
      <4>5. QED
        BY <2>6, <4>2, <4>4 DEF Submitted
    <3>2. u.listId = 0
      BY <1>4, <2>6 DEF Loading, Screens!Approving!Deciding, Decides
    <3>3. QED
      BY <3>1, <3>2 DEF InboxAlive
  <2>14. QED
    BY <2>6, <2>10, <2>11, <2>12, <2>13 DEF InboxGood
<1>5. QED
  BY <1>3, <1>4

(* Approvals are made, and are closed once.                                *)
RowsGoOn(r, q) == \A a \in Numbers :
  /\ r[a].state # "none" => q[a].state # "none"
  /\ r[a].state \notin {"none", "open"} => q[a] = r[a]

LEMMA ClockGoesOn ==
  ASSUME NEW r, NEW q, RowsGoOn(r, q)
  PROVE  Clock(r) \in Nat /\ Clock(q) \in Nat /\ Clock(r) <= Clock(q)
<1>1. Made(r) \subseteq Made(q) /\ Made(q) \subseteq Numbers
  BY DEF Made, RowsGoOn
<1>2. Settled(r) \subseteq Settled(q) /\ Settled(q) \subseteq Numbers
  BY DEF Made, Settled, RowsGoOn
<1>3. IsFiniteSet(Made(q)) /\ IsFiniteSet(Settled(q))
  BY <1>1, <1>2, InboxConstants, FS_Subset
<1>4. /\ Cardinality(Made(r)) <= Cardinality(Made(q))
      /\ Cardinality(Settled(r)) <= Cardinality(Settled(q))
      /\ IsFiniteSet(Made(r)) /\ IsFiniteSet(Settled(r))
  BY <1>1, <1>2, <1>3, FS_Subset
<1>5. /\ Cardinality(Made(r)) \in Nat /\ Cardinality(Settled(r)) \in Nat
      /\ Cardinality(Made(q)) \in Nat /\ Cardinality(Settled(q)) \in Nat
  BY <1>3, <1>4, FS_CardinalityType
<1>6. PICK m \in Nat, n \in Nat, i \in Nat, j \in Nat :
        /\ m = Cardinality(Made(r)) /\ n = Cardinality(Settled(r))
        /\ i = Cardinality(Made(q)) /\ j = Cardinality(Settled(q))
  BY <1>5
<1>7. Clock(r) = m + n /\ Clock(q) = i + j /\ m <= i /\ n <= j
  BY <1>4, <1>6 DEF Clock
<1>8. QED
  BY <1>7

LEMMA TruthGoesOn ==
  ASSUME NEW r, NEW q, RowsGoOn(r, q), NEW t, InboxSound(t), InboxTruth(r, t)
  PROVE  InboxTruth(q, t)
<1>1. ASSUME NEW a \in Numbers, NEW i, NEW v, r[a] = [state |-> "decided", by |-> i, verdict |-> v]
      PROVE  q[a] = [state |-> "decided", by |-> i, verdict |-> v]
  <2>1. r[a].state = "decided"
    BY <1>1
  <2>2. q[a] = r[a]
    BY <2>1 DEF RowsGoOn
  <2>3. QED
    BY <1>1, <2>2
<1>2. Clock(r) \in Nat /\ Clock(q) \in Nat /\ Clock(r) <= Clock(q)
  BY ClockGoesOn
<1>3. \A n \in Nat : n <= Clock(r) => n <= Clock(q)
  BY <1>2
<1>4. \A c \in Screens!Approving!Ids :
        t.calls[c].kind = "decide" /\ t.calls[c].server = "done" /\ t.calls[c].answer.ok =>
          q[t.calls[c].of] = [state |-> "decided", by |-> c, verdict |-> t.calls[c].verdict]
  BY <1>1 DEF InboxTruth, InboxSound
<1>5. \A a \in Numbers : t.submissions[a].phase = "confirmed" =>
        q[a] = [state |-> "decided", by |-> t.submissions[a].id, verdict |-> t.reasons[a]]
  BY <1>1 DEF InboxTruth
<1>6. \A c \in Screens!Approving!Ids : t.calls[c].kind = "list" /\ t.calls[c].server = "done" =>
        t.calls[c].answer.observedAt \in Nat /\ t.calls[c].answer.observedAt <= Clock(q)
  BY <1>3 DEF InboxTruth
<1>7. t.observedAt <= Clock(q)
  BY <1>3 DEF InboxTruth, InboxSound, InboxLike
<1>8. QED
  BY <1>4, <1>5, <1>6, <1>7 DEF InboxTruth

LEMMA NowIs == Screens!Approving!Now = Clock(approvals)
<1>1. \A S : Screens!Approving!Cardinality(S) = Cardinality(S)
  BY DEF Screens!Approving!Cardinality, Cardinality
<1>2. QED
  BY <1>1 DEF Screens!Approving!Now, Clock, Settled, Made

(* The server answers a call: nobody hears it if the call has ended.       *)
LEMMA AnswersHold ==
  ASSUME NEW r, InboxSound(inbox), InboxTruth(r, inbox), NEW c \in Screens!Approving!Ids,
         inbox.calls[c].server = "coming", NEW x,
         inbox.calls[c].kind = "decide" /\ x.ok =>
           r[inbox.calls[c].of] = [state |-> "decided", by |-> c, verdict |-> inbox.calls[c].verdict],
         inbox.calls[c].kind = "list" =>
           x.observedAt \in Nat /\ inbox.observedAt <= x.observedAt /\ x.observedAt <= Clock(r),
         NEW u, u = Screens!Approving!Answers(c, x)
  PROVE  /\ InboxSound(u) /\ InboxTruth(r, u) /\ u.observedAt = inbox.observedAt /\ u.seen = inbox.seen
         /\ InboxAlive(inbox) => InboxAlive(u)
         /\ Polls(inbox) => Polls(u)
<1>1. InboxLike(inbox) /\ TabLike(inbox) /\ CallLike(inbox.calls[c])
  BY DEF InboxSound, InboxLike
<1>2. PICK y : y = IF inbox.calls[c].client = "ended" THEN Screens!Approving!Over
                   ELSE [inbox.calls[c] EXCEPT !.server = "done", !.answer = x]
  OBVIOUS
<1>3. PICK z : z = [inbox.calls[c] EXCEPT !.server = "done", !.answer = x]
  OBVIOUS
<1>4. /\ CallLike(z) /\ z.client = inbox.calls[c].client /\ z.kind = inbox.calls[c].kind
      /\ z.of = inbox.calls[c].of /\ z.verdict = inbox.calls[c].verdict
      /\ z.server = "done" /\ z.answer = x
  <2>1. PICK k : k = inbox.calls[c]
    OBVIOUS
  <2>2. CallLike(k) /\ z = [k EXCEPT !.server = "done", !.answer = x]
    BY <1>1, <1>3, <2>1
  <2>3. /\ CallLike(z) /\ z.client = k.client /\ z.kind = k.kind /\ z.of = k.of
        /\ z.verdict = k.verdict /\ z.server = "done" /\ z.answer = x
    BY <2>2 DEF CallLike
  <2>4. QED
    BY <2>1, <2>3
<1>5. CallLike(y) /\ y = IF inbox.calls[c].client = "ended" THEN Screens!Approving!Over ELSE z
  BY <1>2, <1>3, <1>4, NoCalls
<1>6. PICK cs : cs = [inbox.calls EXCEPT ![c] = y]
  OBVIOUS
<1>7. u = [inbox EXCEPT !.calls = cs]
  <2>1. u = [inbox EXCEPT !.calls[c] = y]
    BY <1>2 DEF Screens!Approving!Answers
  <2>2. QED
    BY <1>1, <1>6, <2>1 DEF TabLike
<1>8. /\ TabLike(u) /\ u.calls = cs /\ SameBesides(inbox, u) /\ u.timer = inbox.timer
      /\ u.current = inbox.current /\ u.used = inbox.used /\ u.listId = inbox.listId
  BY <1>1, <1>7 DEF TabLike, SameBesides
<1>9. /\ cs = [d \in Screens!Approving!Ids |-> cs[d]] /\ cs[c] = y
      /\ \A d \in Screens!Approving!Ids : d # c => cs[d] = inbox.calls[d]
  BY <1>1, <1>6 DEF InboxLike
<1>10. InboxLike(u)
  <2>1. \A d \in Screens!Approving!Ids : CallLike(cs[d])
    BY <1>1, <1>5, <1>9 DEF InboxLike
  <2>2. QED
    BY <1>1, <1>8, <1>9, <2>1 DEF InboxLike, SameBesides
<1>11. y.kind = "none"
         \/ (y.kind = inbox.calls[c].kind /\ y.of = inbox.calls[c].of
              /\ inbox.calls[c].client # "ended" /\ y = z)
  BY <1>4, <1>5, NoCalls
<1>12. InboxSound(u)
  <2>1. inbox.calls[c] # Screens!Approving!NoCall
    BY NoCalls
  <2>2. ASSUME NEW d \in Screens!Approving!Ids
        PROVE  /\ d > u.used => u.calls[d] = Screens!Approving!NoCall
               /\ u.calls[d].kind = "decide" => u.calls[d].of \in Numbers
    <3>1. CASE d = c
      <4>1. ~(d > u.used)
        BY <1>8, <2>1, <3>1 DEF InboxSound
      <4>2. QED
        BY <1>8, <1>9, <1>11, <3>1, <4>1 DEF InboxSound
    <3>2. CASE d # c
      BY <1>8, <1>9, <3>2 DEF InboxSound
    <3>3. QED
      BY <3>1, <3>2
  <2>3. u.current \in Nat /\ u.current <= u.used
    BY <1>8 DEF InboxSound
  <2>4. ASSUME u.current # 0
        PROVE  u.calls[u.current].kind # "decide"
    <3>1. inbox.current \in Screens!Approving!Ids
      BY <1>1, <1>8, <2>4, InboxConstants DEF InboxSound, InboxLike, Screens!Approving!Ids
    <3>2. inbox.calls[inbox.current].kind # "decide"
      BY <1>8, <2>4 DEF InboxSound
    <3>3. QED
      BY <1>8, <1>9, <1>11, <3>1, <3>2
  <2>5. QED
    BY <1>10, <2>2, <2>3, <2>4 DEF InboxSound
<1>13. InboxTruth(r, u)
  <2>1. ASSUME NEW d \in Screens!Approving!Ids, u.calls[d].kind = "decide", u.calls[d].server = "done",
               u.calls[d].answer.ok
        PROVE  r[u.calls[d].of] = [state |-> "decided", by |-> d, verdict |-> u.calls[d].verdict]
    <3>1. CASE d = c
      BY <1>4, <1>8, <1>9, <1>11, <2>1, <3>1
    <3>2. CASE d # c
      BY <1>8, <1>9, <2>1, <3>2 DEF InboxTruth
    <3>3. QED
      BY <3>1, <3>2
  <2>2. \A a \in Numbers : u.submissions[a].phase = "confirmed" =>
          r[a] = [state |-> "decided", by |-> u.submissions[a].id, verdict |-> u.reasons[a]]
    BY <1>8 DEF InboxTruth, SameBesides
  <2>3. ASSUME NEW d \in Screens!Approving!Ids, u.calls[d].kind = "list", u.calls[d].server = "done"
        PROVE  u.calls[d].answer.observedAt \in Nat /\ u.calls[d].answer.observedAt <= Clock(r)
    <3>1. CASE d = c
      BY <1>4, <1>8, <1>9, <1>11, <2>3, <3>1
    <3>2. CASE d # c
      BY <1>8, <1>9, <2>3, <3>2 DEF InboxTruth
    <3>3. QED
      BY <3>1, <3>2
  <2>4. u.observedAt <= Clock(r)
    BY <1>8 DEF InboxTruth, SameBesides
  <2>5. QED
    BY <2>1, <2>2, <2>3, <2>4 DEF InboxTruth
<1>14. ASSUME InboxAlive(inbox)
       PROVE  InboxAlive(u)
  <2>1. ASSUME NEW a \in Numbers, u.submissions[a].phase = "deciding"
        PROVE  Submitted(u, a)
    <3>1. Submitted(inbox, a) /\ u.submissions = inbox.submissions /\ u.reasons = inbox.reasons
      BY <1>8, <1>14, <2>1 DEF InboxAlive, SameBesides
    <3>2. PICK d \in Screens!Approving!Ids : d = inbox.submissions[a].id
      BY <3>1 DEF Submitted
    <3>3. /\ u.calls[d].kind = inbox.calls[d].kind /\ u.calls[d].of = inbox.calls[d].of
          /\ u.calls[d].verdict = inbox.calls[d].verdict /\ u.calls[d].client = inbox.calls[d].client
      <4>1. inbox.calls[d].client = "waiting"
        BY <3>1, <3>2 DEF Submitted
      <4>2. CASE d = c
        BY <1>4, <1>5, <1>8, <1>9, <4>1, <4>2
      <4>3. CASE d # c
        BY <1>8, <1>9, <4>3
      <4>4. QED
        BY <4>2, <4>3
    <3>4. QED
      BY <3>1, <3>2, <3>3 DEF Submitted
  <2>2. ASSUME u.listId # 0
        PROVE  Loading(u)
    <3>1. Loading(inbox) /\ u.listId = inbox.listId
      BY <1>8, <1>14, <2>2 DEF InboxAlive
    <3>2. ~Screens!Approving!Deciding(u)
      BY <1>8, <3>1 DEF Loading, Screens!Approving!Deciding, SameBesides
    <3>3. CASE inbox.listId = c
      <4>1. u.calls[c] = z /\ inbox.calls[c].kind = "list"
        BY <1>5, <1>8, <1>9, <3>1, <3>3 DEF Loading
      <4>2. QED
        BY <1>4, <1>8, <1>14, <3>1, <3>2, <3>3, <4>1 DEF Loading, SameBesides
    <3>4. CASE inbox.listId # c
      <4>1. u.calls[u.listId] = inbox.calls[inbox.listId]
        BY <1>8, <1>9, <3>1, <3>4 DEF Loading
      <4>2. QED
        BY <1>8, <3>1, <3>2, <4>1 DEF Loading, SameBesides
    <3>5. QED
      BY <3>3, <3>4
  <2>3. QED
    BY <2>1, <2>2 DEF InboxAlive
<1>15. ASSUME Polls(inbox)
       PROVE  Polls(u)
  <2>1. \A d \in Screens!Approving!Ids : \A k : Opened(inbox, d, k) => Opened(u, d, k)
    <3>1. ASSUME NEW d \in Screens!Approving!Ids, NEW k, Opened(inbox, d, k)
          PROVE  Opened(u, d, k)
      <4>1. CASE d = c
        BY <1>4, <1>5, <1>8, <1>9, <3>1, <4>1 DEF Opened
      <4>2. CASE d # c
        BY <1>8, <1>9, <3>1, <4>2 DEF Opened
      <4>3. QED
        BY <4>1, <4>2
    <3>2. QED
      BY <3>1
  <2>2. QED
    BY <1>8, <1>15, <2>1 DEF Polls
<1>16. QED
  BY <1>8, <1>12, <1>13, <1>14, <1>15 DEF SameBesides

-----------------------------------------------------------------------------
(* The steps of the server.                                                *)
LEMMA RowStep ==
  ASSUME NEW r, r = [a \in Numbers |-> r[a]], \A a \in Numbers : RowLike(r[a]), NEW b \in Numbers,
         r[b].state \in {"none", "open"}, NEW y, RowLike(y), y.state # "none", NEW q,
           q = [r EXCEPT ![b] = y]
  PROVE  /\ q = [a \in Numbers |-> q[a]] /\ \A a \in Numbers : RowLike(q[a])
         /\ q[b] = y /\ RowsGoOn(r, q)
<1>1. q = [a \in Numbers |-> q[a]] /\ q[b] = y /\ \A a \in Numbers : a # b => q[a] = r[a]
  OBVIOUS
<1>2. \A a \in Numbers : RowLike(q[a])
  BY <1>1
<1>3. RowsGoOn(r, q)
  BY <1>1 DEF RowsGoOn
<1>4. QED
  BY <1>1, <1>2, <1>3

LEMMA RowsStep ==
  ASSUME InboxInv, approvals' = [a \in Numbers |-> approvals'[a]],
         \A a \in Numbers : RowLike(approvals'[a]),
         RowsGoOn(approvals, approvals'), inbox' = inbox
  PROVE  InboxInv'
<1>1. InboxTruth(approvals', inbox)
  BY TruthGoesOn DEF InboxInv
<1>2. QED
  BY <1>1 DEF InboxInv

LEMMA StateStep ==
  ASSUME InboxInv, NEW b \in Numbers, approvals[b].state \in {"none", "open"}, NEW s, s # "none",
         approvals' = [approvals EXCEPT ![b].state = s], inbox' = inbox
  PROVE  InboxInv'
<1>1. approvals = [a \in Numbers |-> approvals[a]] /\ \A a \in Numbers : RowLike(approvals[a])
  BY DEF InboxInv
<1>2. PICK x : x = approvals[b]
  OBVIOUS
<1>3. PICK y : y = [x EXCEPT !.state = s]
  OBVIOUS
<1>4. RowLike(y) /\ y.state = s
  <2>1. RowLike(x)
    BY <1>1, <1>2
  <2>2. QED
    BY <1>3, <2>1 DEF RowLike
<1>5. approvals' = [approvals EXCEPT ![b] = y]
  BY <1>1, <1>2, <1>3
<1>6. /\ approvals' = [a \in Numbers |-> approvals'[a]] /\ \A a \in Numbers : RowLike(approvals'[a])
      /\ RowsGoOn(approvals, approvals')
  BY <1>1, <1>4, <1>5, RowStep
<1>7. QED
  BY <1>6, RowsStep

LEMMA DecidedRow ==
  ASSUME InboxInv, NEW b \in Numbers, approvals[b].state = "open", NEW c, NEW v,
         approvals' = Screens!Approving!Decided(b, c, v)
  PROVE  /\ approvals' = [a \in Numbers |-> approvals'[a]] /\ \A a \in Numbers : RowLike(approvals'[a])
         /\ RowsGoOn(approvals, approvals')
         /\ approvals'[b] = [state |-> "decided", by |-> c, verdict |-> v]
<1>1. approvals = [a \in Numbers |-> approvals[a]] /\ \A a \in Numbers : RowLike(approvals[a])
  BY DEF InboxInv
<1>2. PICK y : y = [state |-> "decided", by |-> c, verdict |-> v]
  OBVIOUS
<1>3. RowLike(y) /\ y.state = "decided"
  BY <1>2 DEF RowLike
<1>4. approvals' = [approvals EXCEPT ![b] = y]
  BY <1>2 DEF Screens!Approving!Decided
<1>5. QED
  BY <1>1, <1>2, <1>3, <1>4, RowStep

(* What a call of the page becomes when the server has answered it.        *)
LEMMA ServedStep ==
  ASSUME InboxInv, approvals' = [a \in Numbers |-> approvals'[a]],
         \A a \in Numbers : RowLike(approvals'[a]),
         RowsGoOn(approvals, approvals'), NEW c \in Screens!Approving!Ids,
         inbox.calls[c].server = "coming", NEW x,
         inbox.calls[c].kind = "decide" /\ x.ok =>
           approvals'[inbox.calls[c].of] = [state |-> "decided", by |-> c,
             verdict |-> inbox.calls[c].verdict],
         inbox.calls[c].kind = "list" =>
           /\ x.observedAt \in Nat /\ inbox.observedAt <= x.observedAt
           /\ x.observedAt <= Clock(approvals'),
         inbox' = Screens!Approving!Answers(c, x)
  PROVE  InboxInv' /\ inbox'.observedAt = inbox.observedAt
<1>1. InboxSound(inbox) /\ InboxTruth(approvals', inbox)
  BY TruthGoesOn DEF InboxInv
<1>2. PICK r, u : r = approvals' /\ u = inbox'
  OBVIOUS
<1>3. /\ InboxSound(u) /\ InboxTruth(r, u) /\ u.observedAt = inbox.observedAt /\ u.seen = inbox.seen
      /\ InboxAlive(inbox) => InboxAlive(u)
      /\ Polls(inbox) => Polls(u)
  BY <1>1, <1>2, AnswersHold
<1>4. QED
  BY <1>2, <1>3 DEF InboxInv

LEMMA ClockStays ==
  ASSUME InboxInv
  PROVE  /\ RowsGoOn(approvals, approvals) /\ Clock(approvals) \in Nat
         /\ inbox.observedAt \in Nat /\ inbox.observedAt <= Clock(approvals)
<1>1. RowsGoOn(approvals, approvals)
  BY DEF RowsGoOn
<1>2. QED
  BY <1>1, ClockGoesOn DEF InboxInv, InboxSound, InboxLike, InboxTruth

LEMMA ListedAt ==
  ASSUME NEW n
  PROVE  Screens!Approving!Listed(n).observedAt = Screens!Approving!Now
BY DEF Screens!Approving!Listed

LEMMA ServerStep ==
  ASSUME InboxInv, Screens!Approving!Server
  PROVE  InboxInv' /\ inbox'.observedAt = inbox.observedAt
<1>1. Judged \subseteq Numbers
  BY InboxConstants
<1>2. ASSUME NEW b \in Judged, Screens!Approving!Request(b)
      PROVE  InboxInv' /\ inbox'.observedAt = inbox.observedAt
  <2>1. /\ approvals[b].state = "none" /\ approvals' = [approvals EXCEPT ![b].state = "open"]
        /\ inbox' = inbox
    BY <1>2 DEF Screens!Approving!Request
  <2>2. QED
    BY <1>1, <2>1, StateStep
<1>3. ASSUME NEW b \in Judged, Screens!Approving!Expire(b)
      PROVE  InboxInv' /\ inbox'.observedAt = inbox.observedAt
  <2>1. /\ approvals[b].state = "open" /\ approvals' = [approvals EXCEPT ![b].state = "expired"]
        /\ inbox' = inbox
    BY <1>3 DEF Screens!Approving!Expire
  <2>2. QED
    BY <1>1, <2>1, StateStep
<1>4. ASSUME NEW b \in Judged, Screens!Approving!DecidedElsewhere(b)
      PROVE  InboxInv' /\ inbox'.observedAt = inbox.observedAt
  <2>1. PICK v : /\ approvals[b].state = "open" /\ approvals' = Screens!Approving!Decided(b, 0, v)
                 /\ inbox' = inbox
    BY <1>4 DEF Screens!Approving!DecidedElsewhere
  <2>2. b \in Numbers
    BY <1>1
  <2>3. QED
    BY <2>1, <2>2, DecidedRow, RowsStep
<1>5. ASSUME NEW c \in Screens!Approving!Ids, Screens!Approving!ServeList(c)
      PROVE  InboxInv' /\ inbox'.observedAt = inbox.observedAt
  <2>1. PICK n : n = inbox.calls[c].pages.cursors[inbox.calls[c].pages.page]
    OBVIOUS
  <2>2. PICK x : x = Screens!Approving!Listed(n)
    OBVIOUS
  <2>3. /\ inbox.calls[c].kind = "list" /\ inbox.calls[c].server = "coming"
        /\ inbox' = Screens!Approving!Answers(c, x) /\ approvals' = approvals
    BY <1>5, <2>1, <2>2 DEF Screens!Approving!ServeList, Screens!Approving!Coming
  <2>4. x.observedAt = Clock(approvals)
    BY <2>2, ListedAt, NowIs
  <2>5. approvals = [a \in Numbers |-> approvals[a]] /\ \A a \in Numbers : RowLike(approvals[a])
    BY DEF InboxInv
  <2>6. x.observedAt \in Nat /\ inbox.observedAt <= x.observedAt /\ x.observedAt <= Clock(approvals)
    BY <2>4, ClockStays
  <2>7. RowsGoOn(approvals, approvals')
    BY <2>3, ClockStays
  <2>8. inbox.calls[c].kind # "decide"
    BY <2>3
  <2>9. QED
    BY <2>3, <2>5, <2>6, <2>7, <2>8, ServedStep
<1>6. ASSUME NEW c \in Screens!Approving!Ids, Screens!Approving!ServeDecision(c)
      PROVE  InboxInv' /\ inbox'.observedAt = inbox.observedAt
  <2>1. PICK b : b = inbox.calls[c].of
    OBVIOUS
  <2>2. inbox.calls[c].kind = "decide" /\ inbox.calls[c].server = "coming" /\ b \in Numbers
    BY <1>6, <2>1 DEF Screens!Approving!ServeDecision, Screens!Approving!Coming, InboxInv, InboxSound
  <2>3. CASE inbox' = Screens!Approving!Answers(c, Screens!Approving!NoPage) /\ approvals' = approvals
    <3>1. PICK x : x = Screens!Approving!NoPage
      OBVIOUS
    <3>2. x.ok = FALSE
      BY <3>1 DEF Screens!Approving!NoPage
    <3>3. approvals = [a \in Numbers |-> approvals[a]] /\ \A a \in Numbers : RowLike(approvals[a])
      BY DEF InboxInv
    <3>4. RowsGoOn(approvals, approvals')
      BY <2>3, ClockStays
    <3>5. inbox.calls[c].kind # "list" /\ inbox' = Screens!Approving!Answers(c, x)
      BY <2>2, <2>3, <3>1
    <3>6. QED
      BY <2>2, <2>3, <3>2, <3>3, <3>4, <3>5, ServedStep
  <2>4. CASE /\ approvals[b].state = "open"
             /\ approvals' = Screens!Approving!Decided(b, c, inbox.calls[c].verdict)
             /\ \E ok \in BOOLEAN : inbox' = Screens!Approving!Answers(c,
                  [Screens!Approving!NoPage EXCEPT !.ok = ok])
    <3>1. PICK x : inbox' = Screens!Approving!Answers(c, x)
      BY <2>4
    <3>2. /\ approvals' = [a \in Numbers |-> approvals'[a]] /\ \A a \in Numbers : RowLike(approvals'[a])
          /\ RowsGoOn(approvals, approvals')
          /\ approvals'[b] = [state |-> "decided", by |-> c, verdict |-> inbox.calls[c].verdict]
      BY <2>2, <2>4, DecidedRow
    <3>3. approvals'[inbox.calls[c].of] = [state |-> "decided", by |-> c,
            verdict |-> inbox.calls[c].verdict]
      BY <2>1, <3>2
    <3>4. inbox.calls[c].kind # "list"
      BY <2>2
    <3>5. QED
      BY <2>2, <3>1, <3>2, <3>3, <3>4, ServedStep
  <2>5. QED
    BY <1>6, <2>1, <2>3, <2>4 DEF Screens!Approving!ServeDecision
<1>7. QED
  BY <1>2, <1>3, <1>4, <1>5, <1>6 DEF Screens!Approving!Server

-----------------------------------------------------------------------------
(* The steps of the page.                                                  *)
LEMMA PageStep ==
  ASSUME InboxInv, approvals' = approvals, NEW u, inbox' = u, InboxGood(approvals, u),
         u.seen = "visible" => Polls(u)
  PROVE  InboxInv'
BY DEF InboxInv, InboxGood

LEMMA InboxHere ==
  ASSUME InboxInv, Screens!Approving!Here
  PROVE  InboxGood(approvals, inbox) /\ (inbox.seen = "visible" => Polls(inbox))
BY DEF InboxInv, InboxGood, Screens!Approving!Here

LEMMA ClientStep ==
  ASSUME NEW t, Screens!Approving!Client(t)
  PROVE  Screens!Approving!Here /\ inbox' = t /\ approvals' = approvals
BY DEF Screens!Approving!Client

Retimed(t, u) ==
  /\ TabLike(u) /\ u.calls = t.calls /\ u.current = t.current /\ u.used = t.used
  /\ u.submissions = t.submissions /\ u.observedAt = t.observedAt /\ u.reasons = t.reasons
  /\ u.listId = t.listId /\ u.pages = t.pages

LEMMA RetimedHolds ==
  ASSUME NEW r, NEW t, InboxGood(r, t), NEW u, Retimed(t, u)
  PROVE  InboxGood(r, u)
<1>1. InboxLike(u)
  BY DEF InboxGood, InboxSound, InboxLike, Retimed
<1>2. InboxSound(u)
  BY <1>1 DEF InboxGood, InboxSound, Retimed
<1>3. InboxTruth(r, u)
  BY DEF InboxGood, InboxTruth, Retimed
<1>4. InboxAlive(u)
  BY DEF InboxGood, InboxAlive, Submitted, Loading, Screens!Approving!Deciding, Retimed
<1>5. QED
  BY <1>2, <1>3, <1>4 DEF InboxGood

LEMMA SeenHolds ==
  ASSUME NEW r, NEW t, InboxGood(r, t), NEW s, NEW b, NEW u, u = [t EXCEPT !.seen = s, !.timer = b]
  PROVE  InboxGood(r, u) /\ Retimed(t, u) /\ u.seen = s /\ u.timer = b
<1>1. TabLike(t)
  BY DEF InboxGood, InboxSound, InboxLike
<1>2. Retimed(t, u) /\ u.seen = s /\ u.timer = b
  BY <1>1 DEF TabLike, Retimed
<1>3. QED
  BY <1>2, RetimedHolds

LEMMA TimerHolds ==
  ASSUME NEW r, NEW t, InboxGood(r, t), NEW b, NEW u, u = [t EXCEPT !.timer = b]
  PROVE  InboxGood(r, u) /\ Retimed(t, u) /\ u.seen = t.seen /\ u.timer = b
<1>1. TabLike(t)
  BY DEF InboxGood, InboxSound, InboxLike
<1>2. Retimed(t, u) /\ u.seen = t.seen /\ u.timer = b
  BY <1>1 DEF TabLike, Retimed
<1>3. QED
  BY <1>2, RetimedHolds

LEMMA KnownCall ==
  ASSUME NEW t, InboxSound(t), NEW c \in Screens!Approving!Ids, t.calls[c].kind # "none"
  PROVE  c <= t.used /\ c \in Nat /\ t.used \in Nat
<1>1. c \in Nat /\ t.used \in Nat
  BY InboxIds DEF InboxSound, InboxLike
<1>2. ~(c > t.used)
  BY NoCalls DEF InboxSound
<1>3. QED
  BY <1>1, <1>2

(* A page gives up a call.                                                 *)
LEMMA AbortedHolds ==
  ASSUME NEW r, NEW t, InboxSound(t), InboxTruth(r, t), NEW c, NEW u,
         u = Screens!Approving!Aborted(t, c)
  PROVE  /\ InboxSound(u) /\ InboxTruth(r, u) /\ SameBesides(t, u) /\ u.timer = t.timer
         /\ u.current = t.current
         /\ u.used = t.used /\ u.listId = t.listId /\ CallsAborted(t, u, c)
         /\ Polls(t) => Polls(u)
<1>1. InboxLike(t)
  BY DEF InboxSound
<1>2. /\ InboxLike(u) /\ SameBesides(t, u) /\ u.timer = t.timer /\ u.current = t.current
      /\ u.used = t.used /\ u.listId = t.listId /\ CallsAborted(t, u, c)
  BY <1>1, AbortedIs
<1>3. InboxSound(u)
  <2>1. ASSUME NEW d \in Screens!Approving!Ids
        PROVE  /\ d > u.used => u.calls[d] = Screens!Approving!NoCall
               /\ u.calls[d].kind = "decide" => u.calls[d].of \in Numbers
    <3>1. Same(t.calls[d], u.calls[d])
      BY <1>2 DEF CallsAborted
    <3>2. u.calls[d].kind = "decide" => u.calls[d].of \in Numbers
      BY <3>1 DEF InboxSound, Same
    <3>3. ASSUME d > u.used
          PROVE  u.calls[d] = Screens!Approving!NoCall
      <4>1. t.calls[d] = Screens!Approving!NoCall
        BY <1>2, <3>3 DEF InboxSound
      <4>2. t.calls[d].client # "waiting"
        BY <4>1, NoCalls
      <4>3. QED
        BY <1>2, <4>1, <4>2 DEF CallsAborted
    <3>4. QED
      BY <3>2, <3>3
  <2>2. u.current \in Nat /\ u.current <= u.used
    BY <1>2 DEF InboxSound
  <2>3. ASSUME u.current # 0
        PROVE  u.calls[u.current].kind # "decide"
    <3>1. t.current \in Screens!Approving!Ids
      BY <1>1, <1>2, <2>3, InboxConstants DEF InboxSound, InboxLike, Screens!Approving!Ids
    <3>2. t.calls[t.current].kind # "decide"
      BY <1>2, <2>3 DEF InboxSound
    <3>3. QED
      BY <1>2, <3>1, <3>2 DEF CallsAborted, Same
  <2>4. QED
    BY <1>2, <2>1, <2>2, <2>3 DEF InboxSound
<1>4. InboxTruth(r, u)
  <2>1. \A d \in Screens!Approving!Ids : Same(t.calls[d], u.calls[d])
    BY <1>2 DEF CallsAborted
  <2>2. \A d \in Screens!Approving!Ids :
          u.calls[d].kind = "decide" /\ u.calls[d].server = "done" /\ u.calls[d].answer.ok =>
            r[u.calls[d].of] = [state |-> "decided", by |-> d, verdict |-> u.calls[d].verdict]
    BY <2>1 DEF InboxTruth, Same
  <2>3. \A a \in Numbers : u.submissions[a].phase = "confirmed" =>
          r[a] = [state |-> "decided", by |-> u.submissions[a].id, verdict |-> u.reasons[a]]
    BY <1>2 DEF InboxTruth, SameBesides
  <2>4. \A d \in Screens!Approving!Ids : u.calls[d].kind = "list" /\ u.calls[d].server = "done" =>
          u.calls[d].answer.observedAt \in Nat /\ u.calls[d].answer.observedAt <= Clock(r)
    BY <2>1 DEF InboxTruth, Same
  <2>5. u.observedAt <= Clock(r)
    BY <1>2 DEF InboxTruth, SameBesides
  <2>6. QED
    BY <2>2, <2>3, <2>4, <2>5 DEF InboxTruth
<1>5. ASSUME Polls(t)
      PROVE  Polls(u)
  <2>1. \A d \in Screens!Approving!Ids : \A k : Opened(t, d, k) => Opened(u, d, k)
    BY <1>2 DEF CallsAborted, Same, Opened
  <2>2. QED
    BY <1>2, <1>5, <2>1 DEF Polls
<1>6. QED
  BY <1>2, <1>3, <1>4, <1>5

LEMMA AbortedKeeps ==
  ASSUME NEW t, NEW u, NEW c, SameBesides(t, u), u.listId = t.listId, CallsAborted(t, u, c)
  PROVE  /\ \A a \in Numbers : Submitted(t, a) /\ t.submissions[a].id # c => Submitted(u, a)
         /\ Loading(t) /\ t.listId # c => Loading(u)
<1>1. ASSUME NEW a \in Numbers, Submitted(t, a), t.submissions[a].id # c
      PROVE  Submitted(u, a)
  BY <1>1 DEF Submitted, CallsAborted, SameBesides
<1>2. ASSUME Loading(t), t.listId # c
      PROVE  Loading(u)
  <2>1. ~Screens!Approving!Deciding(u)
    BY <1>2 DEF Loading, SameBesides, Screens!Approving!Deciding
  <2>2. u.calls[u.listId] = t.calls[t.listId]
    BY <1>2 DEF Loading, CallsAborted
  <2>3. QED
    BY <1>2, <2>1, <2>2 DEF Loading, SameBesides
<1>3. QED
  BY <1>1, <1>2

(* A list is over.                                                         *)
LEMMA AfterListHolds ==
  ASSUME NEW r, NEW t, InboxGood(r, t), NEW c \in Screens!Approving!Ids, t.calls[c].kind = "list",
         t.listId # c,
         t.seen = "visible" => Polls(t), NEW u, u = Screens!Approving!AfterList(t, c)
  PROVE  InboxGood(r, u) /\ u.observedAt = t.observedAt /\ (u.seen = "visible" => Polls(u))
<1>1. \A a \in Numbers : ~Decides(t, a, c)
  BY DEF InboxGood, InboxAlive, Submitted, Decides
<1>2. PICK w : w = Screens!Approving!Ends(t, c)
  OBVIOUS
<1>3. /\ InboxGood(r, w) /\ SameBesides(t, w) /\ w.timer = t.timer /\ w.current = t.current
      /\ w.used = t.used /\ w.listId = t.listId
      /\ \A d \in Screens!Approving!Ids : d # c => w.calls[d] = t.calls[d]
  BY <1>1, <1>2, CallEnds
<1>4. CASE t.current = c
  <2>1. PICK b : b = (w.seen = "visible")
    OBVIOUS
  <2>2. u = [w EXCEPT !.timer = b]
    BY <1>2, <1>4, <2>1, Zenon DEF Screens!Approving!AfterList, Screens!Approving!Schedule
  <2>3. InboxGood(r, u) /\ u.observedAt = w.observedAt /\ u.seen = w.seen /\ u.timer = b
    BY <1>3, <2>2, TimerHolds DEF Retimed
  <2>4. u.seen = "visible" => Polls(u)
    BY <2>1, <2>3 DEF Polls
  <2>5. QED
    BY <1>3, <2>3, <2>4 DEF SameBesides
<1>5. CASE t.current # c
  <2>1. u = w
    BY <1>2, <1>5 DEF Screens!Approving!AfterList
  <2>2. ASSUME Polls(t)
        PROVE  Polls(w)
    <3>1. CASE t.timer
      BY <1>3, <3>1 DEF Polls
    <3>2. CASE \E d \in Screens!Approving!Ids : Opened(t, d, "decide")
                 \/ (d = t.current /\ Opened(t, d, "list"))
      <4>1. PICK d \in Screens!Approving!Ids : Opened(t, d, "decide")
                                                 \/ (d = t.current /\ Opened(t, d, "list"))
        BY <3>2
      <4>2. d # c
        BY <1>5, <4>1 DEF Opened
      <4>3. Opened(w, d, "decide") \/ (d = w.current /\ Opened(w, d, "list"))
        BY <1>3, <4>1, <4>2 DEF Opened
      <4>4. QED
        BY <4>3 DEF Polls
    <3>3. QED
      BY <2>2, <3>1, <3>2 DEF Polls
  <2>3. QED
    BY <1>3, <2>1, <2>2 DEF SameBesides
<1>6. QED
  BY <1>4, <1>5

(* A decision is over, and the list is loaded again.                       *)
LEMMA AfterDecisionHolds ==
  ASSUME NEW r, NEW t, InboxGood(r, t), NEW c \in Screens!Approving!Ids, t.calls[c].kind = "decide",
         \A a \in Numbers : ~Decides(t, a, c),
         t.used < InboxCalls \/ Screens!Approving!Deciding(t) \/ t.seen # "visible",
         NEW u, u = Screens!Approving!AfterDecision(t, c)
  PROVE  InboxGood(r, u) /\ u.observedAt = t.observedAt /\ (u.seen = "visible" => Polls(u))
<1>1. c # t.listId
  BY InboxIds DEF InboxGood, InboxAlive, Loading
<1>2. PICK w : w = Screens!Approving!Ends(t, c)
  OBVIOUS
<1>3. /\ InboxGood(r, w) /\ SameBesides(t, w) /\ w.used = t.used
  BY <1>1, <1>2, CallEnds
<1>4. w.used < InboxCalls \/ Screens!Approving!Deciding(w) \/ w.seen # "visible"
  BY <1>3 DEF SameBesides, Screens!Approving!Deciding
<1>5. PICK p : p = t.pages
  OBVIOUS
<1>6. u = Screens!Approving!Load(w, p)
  BY <1>2, <1>5 DEF Screens!Approving!AfterDecision
<1>7. /\ InboxGood(r, u) /\ u.observedAt = w.observedAt /\ u.seen = w.seen
      /\ u.seen = "visible" => Polls(u)
  BY <1>3, <1>4, <1>6, LoadHolds
<1>8. QED
  BY <1>3, <1>7 DEF SameBesides

LEMMA ListAnsweredStep ==
  ASSUME InboxInv, NEW c \in Screens!Approving!Ids, Screens!Approving!ListAnswered(c)
  PROVE  InboxInv' /\ inbox.observedAt <= inbox'.observedAt
<1>1. PICK x : x = inbox.calls[c].answer
  OBVIOUS
<1>2. PICK t : t = Screens!Approving!ListResult(inbox, c, x)
  OBVIOUS
<1>3. PICK u : u = Screens!Approving!AfterList(t, c)
  OBVIOUS
<1>4. Screens!Approving!Here /\ inbox' = u /\ approvals' = approvals
  BY <1>1, <1>2, <1>3, ClientStep DEF Screens!Approving!ListAnswered
<1>5. inbox.calls[c].kind = "list" /\ inbox.calls[c].server = "done"
  BY DEF Screens!Approving!ListAnswered, Screens!Approving!Open
<1>6. InboxGood(approvals, inbox) /\ (inbox.seen = "visible" => Polls(inbox))
  BY <1>4, InboxHere
<1>7. InboxSound(inbox) /\ InboxTruth(approvals, inbox) /\ InboxAlive(inbox)
  BY <1>6 DEF InboxGood
<1>8. inbox.listId = c /\ x # Screens!Approving!NoPage =>
        x.observedAt \in Nat /\ inbox.observedAt <= x.observedAt /\ x.observedAt <= Clock(approvals)
  <2>1. ASSUME inbox.listId = c
        PROVE  x.observedAt \in Nat /\ inbox.observedAt <= x.observedAt
    BY <1>1, <1>5, <1>7, <2>1, InboxIds DEF InboxAlive, Loading
  <2>2. x.observedAt <= Clock(approvals)
    BY <1>1, <1>5, <1>7 DEF InboxTruth
  <2>3. QED
    BY <2>1, <2>2
<1>9. \A a \in Numbers : inbox.submissions[a].phase = "deciding" => Submitted(inbox, a)
  BY <1>7 DEF InboxAlive
<1>10. inbox.listId # 0 /\ inbox.listId # c => Loading(inbox)
  BY <1>7 DEF InboxAlive
<1>11. /\ InboxGood(approvals, t) /\ t.calls = inbox.calls /\ t.seen = inbox.seen
       /\ t.timer = inbox.timer
       /\ t.current = inbox.current /\ t.used = inbox.used /\ t.submissions = inbox.submissions
       /\ inbox.observedAt <= t.observedAt /\ t.listId # c
  BY <1>2, <1>7, <1>8, <1>9, <1>10, ListResultHolds
<1>12. t.seen = "visible" => Polls(t)
  BY <1>6, <1>11 DEF Polls, Opened
<1>13. InboxGood(approvals, u) /\ u.observedAt = t.observedAt /\ (u.seen = "visible" => Polls(u))
  BY <1>3, <1>5, <1>11, <1>12, AfterListHolds
<1>14. QED
  BY <1>4, <1>11, <1>13, PageStep

LEMMA ListFailedStep ==
  ASSUME InboxInv, NEW c \in Screens!Approving!Ids, Screens!Approving!ListFailed(c)
  PROVE  InboxInv' /\ inbox.observedAt <= inbox'.observedAt
<1>1. PICK x : x = Screens!Approving!NoPage
  OBVIOUS
<1>2. PICK t : t = Screens!Approving!ListResult(inbox, c, x)
  OBVIOUS
<1>3. PICK u : u = Screens!Approving!AfterList(t, c)
  OBVIOUS
<1>4. Screens!Approving!Here /\ inbox' = u /\ approvals' = approvals
  BY <1>1, <1>2, <1>3, ClientStep DEF Screens!Approving!ListFailed
<1>5. inbox.calls[c].kind = "list"
  BY DEF Screens!Approving!ListFailed, Screens!Approving!Open
<1>6. InboxGood(approvals, inbox) /\ (inbox.seen = "visible" => Polls(inbox))
  BY <1>4, InboxHere
<1>7. InboxSound(inbox) /\ InboxTruth(approvals, inbox) /\ InboxAlive(inbox)
  BY <1>6 DEF InboxGood
<1>8. ~(inbox.listId = c /\ x # Screens!Approving!NoPage)
  BY <1>1
<1>9. \A a \in Numbers : inbox.submissions[a].phase = "deciding" => Submitted(inbox, a)
  BY <1>7 DEF InboxAlive
<1>10. inbox.listId # 0 /\ inbox.listId # c => Loading(inbox)
  BY <1>7 DEF InboxAlive
<1>11. /\ InboxGood(approvals, t) /\ t.calls = inbox.calls /\ t.seen = inbox.seen
       /\ t.timer = inbox.timer
       /\ t.current = inbox.current /\ t.used = inbox.used /\ t.submissions = inbox.submissions
       /\ inbox.observedAt <= t.observedAt /\ t.listId # c
  BY <1>2, <1>7, <1>8, <1>9, <1>10, ListResultHolds
<1>12. t.seen = "visible" => Polls(t)
  BY <1>6, <1>11 DEF Polls, Opened
<1>13. InboxGood(approvals, u) /\ u.observedAt = t.observedAt /\ (u.seen = "visible" => Polls(u))
  BY <1>3, <1>5, <1>11, <1>12, AfterListHolds
<1>14. QED
  BY <1>4, <1>11, <1>13, PageStep

LEMMA ListTimedOutStep ==
  ASSUME InboxInv, NEW c \in Screens!Approving!Ids, Screens!Approving!ListTimedOut(c)
  PROVE  InboxInv' /\ inbox.observedAt <= inbox'.observedAt
<1>1. PICK x : x = Screens!Approving!NoPage
  OBVIOUS
<1>2. PICK t : t = Screens!Approving!Aborted(inbox, c)
  OBVIOUS
<1>3. PICK u : u = Screens!Approving!ListResult(t, c, x)
  OBVIOUS
<1>4. Screens!Approving!Here /\ inbox' = u /\ approvals' = approvals
  BY <1>1, <1>2, <1>3, ClientStep DEF Screens!Approving!ListTimedOut
<1>5. inbox.calls[c].kind = "list"
  BY DEF Screens!Approving!ListTimedOut, Screens!Approving!Waits
<1>6. InboxGood(approvals, inbox) /\ (inbox.seen = "visible" => Polls(inbox))
  BY <1>4, InboxHere
<1>7. InboxSound(inbox) /\ InboxTruth(approvals, inbox) /\ InboxAlive(inbox)
  BY <1>6 DEF InboxGood
<1>8. /\ InboxSound(t) /\ InboxTruth(approvals, t) /\ SameBesides(inbox, t) /\ t.timer = inbox.timer
      /\ t.current = inbox.current
      /\ t.used = inbox.used /\ t.listId = inbox.listId /\ CallsAborted(inbox, t, c)
      /\ Polls(inbox) => Polls(t)
  BY <1>2, <1>7, AbortedHolds
<1>9. /\ \A a \in Numbers : Submitted(inbox, a) /\ inbox.submissions[a].id # c => Submitted(t, a)
      /\ Loading(inbox) /\ inbox.listId # c => Loading(t)
  BY <1>8, AbortedKeeps
<1>10. \A a \in Numbers : t.submissions[a].phase = "deciding" => Submitted(t, a)
  <2>1. ASSUME NEW a \in Numbers, t.submissions[a].phase = "deciding"
        PROVE  Submitted(t, a)
    <3>1. Submitted(inbox, a)
      BY <1>7, <1>8, <2>1 DEF InboxAlive, SameBesides
    <3>2. inbox.submissions[a].id # c
      BY <1>5, <3>1 DEF Submitted
    <3>3. QED
      BY <1>9, <3>1, <3>2
  <2>2. QED
    BY <2>1
<1>11. t.listId # 0 /\ t.listId # c => Loading(t)
  BY <1>7, <1>8, <1>9 DEF InboxAlive
<1>12. ~(t.listId = c /\ x # Screens!Approving!NoPage)
  BY <1>1
<1>13. /\ InboxGood(approvals, u) /\ u.calls = t.calls /\ u.seen = t.seen /\ u.timer = t.timer
       /\ u.current = t.current /\ u.used = t.used /\ u.submissions = t.submissions
       /\ t.observedAt <= u.observedAt /\ u.listId # c
  BY <1>3, <1>8, <1>10, <1>11, <1>12, ListResultHolds
<1>14. u.seen = "visible" => Polls(u)
  BY <1>6, <1>8, <1>13 DEF Polls, Opened, SameBesides
<1>15. QED
  BY <1>4, <1>8, <1>13, <1>14, PageStep DEF SameBesides

(* The same for a decision.  What is known of its answer is true.          *)
LEMMA KnownDecision ==
  ASSUME InboxInv, Screens!Approving!Here, NEW c \in Screens!Approving!Ids,
         inbox.calls[c].kind = "decide"
  PROVE  /\ InboxSound(inbox) /\ InboxTruth(approvals, inbox) /\ InboxAlive(inbox)
         /\ \A a \in Numbers : inbox.submissions[a].phase = "deciding" => Submitted(inbox, a)
         /\ \A a \in Numbers : Decides(inbox, a, c) =>
              inbox.calls[c].of = a /\ inbox.calls[c].verdict = inbox.reasons[a]
         /\ inbox.listId # 0 => Loading(inbox)
         /\ inbox.listId # c
         /\ inbox.calls[c].server = "done" /\ inbox.calls[c].answer.ok =>
              approvals[inbox.calls[c].of] = [state |-> "decided", by |-> c,
                verdict |-> inbox.calls[c].verdict]
<1>1. InboxSound(inbox) /\ InboxTruth(approvals, inbox) /\ InboxAlive(inbox)
  BY InboxHere DEF InboxGood
<1>2. \A a \in Numbers : inbox.submissions[a].phase = "deciding" => Submitted(inbox, a)
  BY <1>1 DEF InboxAlive
<1>3. \A a \in Numbers : Decides(inbox, a, c) =>
        inbox.calls[c].of = a /\ inbox.calls[c].verdict = inbox.reasons[a]
  BY <1>2 DEF Decides, Submitted
<1>4. inbox.listId # 0 => Loading(inbox)
  BY <1>1 DEF InboxAlive
<1>5. inbox.listId # c
  BY <1>4, InboxIds DEF Loading
<1>6. inbox.calls[c].server = "done" /\ inbox.calls[c].answer.ok =>
        approvals[inbox.calls[c].of] = [state |-> "decided", by |-> c,
          verdict |-> inbox.calls[c].verdict]
  BY <1>1 DEF InboxTruth
<1>7. QED
  BY <1>1, <1>2, <1>3, <1>4, <1>5, <1>6

LEMMA DecisionOver ==
  ASSUME InboxInv, NEW c \in Screens!Approving!Ids, inbox.calls[c].kind = "decide",
         NEW phase \in {"confirmed", "failed", "unknown"},
         phase = "confirmed" => inbox.calls[c].server = "done" /\ inbox.calls[c].answer.ok,
         NEW t, t = Screens!Approving!DecideResult(inbox, c, phase), Screens!Approving!Fits(t),
           Screens!Approving!Client(Screens!Approving!AfterDecision(t, c))
  PROVE  InboxInv' /\ inbox.observedAt <= inbox'.observedAt
<1>1. PICK u : u = Screens!Approving!AfterDecision(t, c)
  OBVIOUS
<1>2. Screens!Approving!Here /\ inbox' = u /\ approvals' = approvals
  BY <1>1, ClientStep
<1>3. /\ InboxSound(inbox) /\ InboxTruth(approvals, inbox) /\ InboxAlive(inbox)
      /\ \A a \in Numbers : inbox.submissions[a].phase = "deciding" => Submitted(inbox, a)
      /\ \A a \in Numbers : Decides(inbox, a, c) =>
           inbox.calls[c].of = a /\ inbox.calls[c].verdict = inbox.reasons[a]
      /\ inbox.listId # 0 => Loading(inbox)
      /\ inbox.listId # c
      /\ inbox.calls[c].server = "done" /\ inbox.calls[c].answer.ok =>
           approvals[inbox.calls[c].of] = [state |-> "decided", by |-> c,
             verdict |-> inbox.calls[c].verdict]
  BY <1>2, KnownDecision
<1>4. /\ InboxGood(approvals, t) /\ t.calls = inbox.calls /\ t.seen = inbox.seen
      /\ t.timer = inbox.timer
      /\ t.current = inbox.current /\ t.used = inbox.used /\ t.observedAt = inbox.observedAt
      /\ t.listId = inbox.listId
      /\ \A a \in Numbers : ~Decides(t, a, c)
  BY <1>3, DecideResultHolds
<1>5. t.used < InboxCalls \/ Screens!Approving!Deciding(t) \/ t.seen # "visible"
  BY <1>4 DEF Screens!Approving!Fits, Screens!Approving!Room
<1>6. InboxGood(approvals, u) /\ u.observedAt = t.observedAt /\ (u.seen = "visible" => Polls(u))
  BY <1>1, <1>4, <1>5, AfterDecisionHolds
<1>7. inbox.observedAt <= u.observedAt
  BY <1>4, <1>6, ClockStays
<1>8. QED
  BY <1>2, <1>6, <1>7, PageStep

LEMMA DecisionAnsweredStep ==
  ASSUME InboxInv, NEW c \in Screens!Approving!Ids, Screens!Approving!DecisionAnswered(c)
  PROVE  InboxInv' /\ inbox.observedAt <= inbox'.observedAt
<1>1. PICK phase \in IF inbox.calls[c].answer.ok THEN {"confirmed"} ELSE {"failed", "unknown"} :
        /\ Screens!Approving!Fits(Screens!Approving!DecideResult(inbox, c, phase))
        /\ Screens!Approving!Client(Screens!Approving!AfterDecision(Screens!Approving!DecideResult(inbox, c, phase), c))
  BY DEF Screens!Approving!DecisionAnswered
<1>2. inbox.calls[c].kind = "decide" /\ inbox.calls[c].server = "done"
  BY DEF Screens!Approving!DecisionAnswered, Screens!Approving!Open
<1>3. /\ phase \in {"confirmed", "failed", "unknown"}
      /\ phase = "confirmed" => inbox.calls[c].server = "done" /\ inbox.calls[c].answer.ok
  BY <1>1, <1>2
<1>4. PICK t : t = Screens!Approving!DecideResult(inbox, c, phase)
  OBVIOUS
<1>5. Screens!Approving!Fits(t) /\ Screens!Approving!Client(Screens!Approving!AfterDecision(t, c))
  BY <1>1, <1>4
<1>6. QED
  BY <1>2, <1>3, <1>4, <1>5, DecisionOver

LEMMA DecisionFailedStep ==
  ASSUME InboxInv, NEW c \in Screens!Approving!Ids, Screens!Approving!DecisionFailed(c)
  PROVE  InboxInv' /\ inbox.observedAt <= inbox'.observedAt
<1>1. PICK phase : phase = "unknown"
  OBVIOUS
<1>2. PICK t : t = Screens!Approving!DecideResult(inbox, c, phase)
  OBVIOUS
<1>3. /\ Screens!Approving!Fits(t) /\ Screens!Approving!Client(Screens!Approving!AfterDecision(t, c))
      /\ inbox.calls[c].kind = "decide"
  BY <1>1, <1>2 DEF Screens!Approving!DecisionFailed, Screens!Approving!Open
<1>4. phase \in {"confirmed", "failed", "unknown"} /\ phase # "confirmed"
  BY <1>1
<1>5. QED
  BY <1>2, <1>3, <1>4, DecisionOver

LEMMA DecisionTimedOutStep ==
  ASSUME InboxInv, NEW c \in Screens!Approving!Ids, Screens!Approving!DecisionTimedOut(c)
  PROVE  InboxInv' /\ inbox.observedAt <= inbox'.observedAt
<1>1. PICK phase : phase = "unknown"
  OBVIOUS
<1>2. PICK t : t = Screens!Approving!Aborted(inbox, c)
  OBVIOUS
<1>3. PICK u : u = Screens!Approving!DecideResult(t, c, phase)
  OBVIOUS
<1>4. Screens!Approving!Here /\ inbox' = u /\ approvals' = approvals
  BY <1>1, <1>2, <1>3, ClientStep DEF Screens!Approving!DecisionTimedOut
<1>5. inbox.calls[c].kind = "decide"
  BY DEF Screens!Approving!DecisionTimedOut, Screens!Approving!Waits
<1>6. InboxGood(approvals, inbox) /\ (inbox.seen = "visible" => Polls(inbox))
  BY <1>4, InboxHere
<1>7. /\ InboxSound(inbox) /\ InboxTruth(approvals, inbox) /\ InboxAlive(inbox)
      /\ \A a \in Numbers : inbox.submissions[a].phase = "deciding" => Submitted(inbox, a)
      /\ \A a \in Numbers : Decides(inbox, a, c) =>
           inbox.calls[c].of = a /\ inbox.calls[c].verdict = inbox.reasons[a]
      /\ inbox.listId # 0 => Loading(inbox)
      /\ inbox.listId # c
      /\ inbox.calls[c].server = "done" /\ inbox.calls[c].answer.ok =>
           approvals[inbox.calls[c].of] = [state |-> "decided", by |-> c,
             verdict |-> inbox.calls[c].verdict]
  BY <1>4, <1>5, KnownDecision
<1>8. /\ InboxSound(t) /\ InboxTruth(approvals, t) /\ SameBesides(inbox, t) /\ t.timer = inbox.timer
      /\ t.current = inbox.current
      /\ t.used = inbox.used /\ t.listId = inbox.listId /\ CallsAborted(inbox, t, c)
      /\ Polls(inbox) => Polls(t)
  BY <1>2, <1>7, AbortedHolds
<1>9. /\ \A a \in Numbers : Submitted(inbox, a) /\ inbox.submissions[a].id # c => Submitted(t, a)
      /\ Loading(inbox) /\ inbox.listId # c => Loading(t)
  BY <1>8, AbortedKeeps
<1>10. /\ t.calls[c].kind = "decide" /\ t.calls[c].of = inbox.calls[c].of
       /\ t.calls[c].verdict = inbox.calls[c].verdict
  BY <1>5, <1>8 DEF CallsAborted, Same
<1>11. \A a \in Numbers : t.submissions[a].phase = "deciding" /\ t.submissions[a].id # c =>
         Submitted(t, a)
  BY <1>7, <1>8, <1>9 DEF SameBesides
<1>12. \A a \in Numbers : Decides(t, a, c) => t.calls[c].of = a /\ t.calls[c].verdict = t.reasons[a]
  BY <1>7, <1>8, <1>10 DEF SameBesides, Decides
<1>13. t.listId # 0 => Loading(t)
  BY <1>7, <1>8, <1>9
<1>14. phase \in {"confirmed", "failed", "unknown"} /\ phase # "confirmed"
  BY <1>1
<1>15. /\ InboxGood(approvals, u) /\ u.calls = t.calls /\ u.seen = t.seen /\ u.timer = t.timer
       /\ u.current = t.current /\ u.used = t.used /\ u.observedAt = t.observedAt
       /\ u.listId = t.listId
       /\ \A a \in Numbers : ~Decides(u, a, c)
  <2>1. InboxSound(t) /\ InboxTruth(approvals, t) /\ t.calls[c].kind = "decide"
    BY <1>8, <1>10
  <2>2. phase \in {"confirmed", "failed", "unknown"}
    BY <1>14
  <2>3. phase = "confirmed" =>
          approvals[t.calls[c].of] = [state |-> "decided", by |-> c, verdict |-> t.calls[c].verdict]
    BY <1>14
  <2>4. QED
    BY <1>3, <1>11, <1>12, <1>13, <2>1, <2>2, <2>3, DecideResultHolds
<1>16. u.seen = "visible" => Polls(u)
  BY <1>6, <1>8, <1>15 DEF Polls, Opened, SameBesides
<1>17. inbox.observedAt <= u.observedAt
  BY <1>8, <1>15, ClockStays DEF SameBesides
<1>18. QED
  BY <1>4, <1>15, <1>16, <1>17, PageStep

LEMMA DecideFields ==
  ASSUME NEW t, InboxLike(t), NEW b \in Numbers, NEW n, NEW u,
         u = Screens!Approving!DecideStart(t, n, b)
  PROVE  /\ InboxLike(u) /\ u.calls = t.calls /\ u.seen = t.seen /\ u.timer = t.timer
         /\ u.current = t.current /\ u.used = t.used /\ u.observedAt = t.observedAt
         /\ u.reasons = t.reasons /\ u.listId = 0
         /\ u.submissions[b].id = n /\ u.submissions[b].phase = "deciding"
         /\ \A a \in Numbers : a # b => u.submissions[a] = t.submissions[a]
<1>1. TabLike(t)
  BY DEF InboxLike
<1>2. PICK y : y = [id |-> n, phase |-> "deciding"]
  OBVIOUS
<1>3. PICK ss : ss = [t.submissions EXCEPT ![b] = y]
  OBVIOUS
<1>4. u = [t EXCEPT !.listId = 0, !.submissions = ss]
  <2>1. u = [t EXCEPT !.listId = 0, !.submissions[b] = y]
    BY <1>2 DEF Screens!Approving!DecideStart
  <2>2. QED
    BY <1>1, <1>3, <2>1 DEF TabLike
<1>5. /\ TabLike(u) /\ u.calls = t.calls /\ u.seen = t.seen /\ u.timer = t.timer
      /\ u.current = t.current /\ u.used = t.used /\ u.submissions = ss /\ u.observedAt = t.observedAt
      /\ u.reasons = t.reasons /\ u.listId = 0
  BY <1>1, <1>4 DEF TabLike
<1>6. /\ ss = [a \in Numbers |-> ss[a]] /\ ss[b] = y
      /\ \A a \in Numbers : a # b => ss[a] = t.submissions[a]
  BY <1>3 DEF InboxLike
<1>7. SubmissionLike(y) /\ y.id = n /\ y.phase = "deciding"
  BY <1>2 DEF SubmissionLike
<1>8. \A a \in Numbers : SubmissionLike(ss[a])
  BY <1>6, <1>7 DEF InboxLike
<1>9. InboxLike(u)
  BY <1>5, <1>6, <1>8 DEF InboxLike
<1>10. QED
  BY <1>5, <1>6, <1>7, <1>9

LEMMA DecideStep ==
  ASSUME InboxInv, NEW b \in Numbers, Screens!Approving!Decide(b)
  PROVE  InboxInv' /\ inbox.observedAt <= inbox'.observedAt
<1>1. PICK n : n = inbox.used + 1
  OBVIOUS
<1>2. PICK t : t = Screens!Approving!DecideStart(inbox, n, b)
  OBVIOUS
<1>3. PICK v : v = Screens!Approving!Aborted(t, inbox.current)
  OBVIOUS
<1>4. PICK w : w = [v EXCEPT !.timer = FALSE]
  OBVIOUS
<1>5. PICK x : x = [Screens!Approving!NoCall EXCEPT !.kind = "decide", !.of = b,
                 !.verdict = inbox.reasons[b]]
  OBVIOUS
<1>6. PICK u : u = Screens!Approving!Sends(w, x)
  OBVIOUS
<1>7. Screens!Approving!Here /\ inbox' = u /\ approvals' = approvals
  <2>1. Screens!Approving!Client(u)
    BY <1>1, <1>2, <1>3, <1>4, <1>5, <1>6 DEF Screens!Approving!Decide
  <2>2. QED
    BY <2>1, ClientStep
<1>8. inbox.used < InboxCalls /\ inbox.submissions[b].phase = "none"
  BY DEF Screens!Approving!Decide, Screens!Approving!Room
<1>9. InboxSound(inbox) /\ InboxTruth(approvals, inbox) /\ InboxAlive(inbox) /\ InboxLike(inbox)
  BY <1>7, InboxHere DEF InboxGood, InboxSound
<1>10. /\ InboxLike(t) /\ t.calls = inbox.calls /\ t.seen = inbox.seen /\ t.timer = inbox.timer
       /\ t.current = inbox.current /\ t.used = inbox.used /\ t.observedAt = inbox.observedAt
       /\ t.reasons = inbox.reasons /\ t.listId = 0
       /\ t.submissions[b].id = n /\ t.submissions[b].phase = "deciding"
       /\ \A a \in Numbers : a # b => t.submissions[a] = inbox.submissions[a]
  BY <1>2, <1>9, DecideFields
<1>11. /\ InboxLike(v) /\ SameBesides(t, v) /\ v.timer = t.timer /\ v.current = t.current
       /\ v.used = t.used /\ v.listId = t.listId /\ CallsAborted(t, v, inbox.current)
  BY <1>3, <1>10, AbortedIs
<1>12. /\ InboxLike(w) /\ SameBesides(v, w) /\ w.current = v.current /\ w.used = v.used
       /\ w.listId = v.listId /\ w.calls = v.calls
  <2>1. TabLike(v)
    BY <1>11 DEF InboxLike
  <2>2. /\ TabLike(w) /\ SameBesides(v, w) /\ w.current = v.current /\ w.used = v.used
        /\ w.listId = v.listId /\ w.calls = v.calls
    BY <1>4, <2>1 DEF TabLike, SameBesides
  <2>3. QED
    BY <1>11, <2>2 DEF InboxLike, SameBesides
<1>13. CallLike(x) /\ x.kind = "decide" /\ x.of = b /\ x.verdict = inbox.reasons[b]
  BY <1>5 DEF Screens!Approving!NoCall, CallLike
<1>14. w.used < InboxCalls /\ w.used + 1 = n
  BY <1>1, <1>8, <1>10, <1>11, <1>12
<1>15. /\ InboxLike(u) /\ SameBesides(w, u) /\ u.current = w.current /\ u.used = n
       /\ u.listId = w.listId
       /\ n \in Screens!Approving!Ids
       /\ \A d \in Screens!Approving!Ids : d # n => u.calls[d] = w.calls[d]
       /\ u.calls[n].kind = "decide" /\ u.calls[n].of = b /\ u.calls[n].verdict = inbox.reasons[b]
       /\ u.calls[n].server = "coming" /\ u.calls[n].client = "waiting"
  <2>1. /\ InboxLike(u) /\ SameBesides(w, u) /\ u.timer = w.timer /\ u.current = w.current
        /\ u.used = w.used + 1 /\ u.listId = w.listId /\ u.used \in Screens!Approving!Ids
        /\ \A d \in Screens!Approving!Ids : d # u.used => u.calls[d] = w.calls[d]
        /\ u.calls[u.used].kind = x.kind /\ u.calls[u.used].of = x.of
        /\ u.calls[u.used].verdict = x.verdict /\ u.calls[u.used].pages = x.pages
        /\ u.calls[u.used].server = "coming" /\ u.calls[u.used].client = "waiting"
    BY <1>6, <1>12, <1>13, <1>14, SendsIs
  <2>2. QED
    BY <1>13, <1>14, <2>1
<1>16. /\ u.seen = inbox.seen /\ u.current = inbox.current /\ u.observedAt = inbox.observedAt
       /\ u.reasons = inbox.reasons /\ u.listId = 0
       /\ u.submissions[b].id = n /\ u.submissions[b].phase = "deciding"
       /\ \A a \in Numbers : a # b => u.submissions[a] = inbox.submissions[a]
  BY <1>10, <1>11, <1>12, <1>15 DEF SameBesides
<1>17. \A d \in Screens!Approving!Ids : d # n => /\ Same(inbox.calls[d], u.calls[d])
                                  /\ \/ u.calls[d] = inbox.calls[d]
                                     \/ d = inbox.current /\ inbox.calls[d].client = "waiting"
  BY <1>10, <1>11, <1>12, <1>15 DEF CallsAborted
<1>18. inbox.used \in Nat /\ inbox.used < n /\ n \in Nat /\ n # 0
  BY <1>1, <1>9 DEF InboxLike
<1>19. InboxSound(u)
  <2>1. ASSUME NEW d \in Screens!Approving!Ids
        PROVE  /\ d > u.used => u.calls[d] = Screens!Approving!NoCall
               /\ u.calls[d].kind = "decide" => u.calls[d].of \in Numbers
    <3>1. CASE d = n
      BY <1>15, <1>18, <3>1
    <3>2. CASE d # n
      <4>1. Same(inbox.calls[d], u.calls[d])
        BY <1>17, <3>2
      <4>2. u.calls[d].kind = "decide" => u.calls[d].of \in Numbers
        BY <1>9, <4>1 DEF Same, InboxSound
      <4>3. ASSUME d > u.used
            PROVE  u.calls[d] = Screens!Approving!NoCall
        <5>1. d > inbox.used
          <6>1. PICK m \in Nat : m = inbox.used
            BY <1>18
          <6>2. d \in Nat /\ n \in Nat /\ m < n /\ d > n
            BY <1>15, <1>18, <4>3, <6>1, InboxIds
          <6>3. d > m
            BY <6>2
          <6>4. QED
            BY <6>1, <6>3
        <5>2. inbox.calls[d] = Screens!Approving!NoCall /\ inbox.calls[d].client # "waiting"
          BY <1>9, <5>1, NoCalls DEF InboxSound
        <5>3. QED
          BY <1>17, <3>2, <5>2
      <4>4. QED
        BY <4>2, <4>3
    <3>3. QED
      BY <3>1, <3>2
  <2>2. inbox.current \in Nat /\ inbox.current <= inbox.used
    BY <1>9 DEF InboxSound
  <2>3. u.current \in Nat /\ u.current <= u.used /\ u.current # n
    BY <1>15, <1>16, <1>18, <2>2
  <2>4. ASSUME u.current # 0
        PROVE  u.calls[u.current].kind # "decide"
    <3>1. inbox.current \in Screens!Approving!Ids
      BY <1>8, <1>9, <1>16, <2>2, <2>4, InboxConstants DEF InboxLike, Screens!Approving!Ids
    <3>2. inbox.calls[inbox.current].kind # "decide"
      BY <1>9, <1>16, <2>4 DEF InboxSound
    <3>3. QED
      BY <1>16, <1>17, <2>3, <3>1, <3>2 DEF Same
  <2>5. QED
    BY <1>15, <2>1, <2>3, <2>4 DEF InboxSound
<1>20. InboxTruth(approvals, u)
  <2>1. ASSUME NEW d \in Screens!Approving!Ids, u.calls[d].kind = "decide", u.calls[d].server = "done",
               u.calls[d].answer.ok
        PROVE  approvals[u.calls[d].of] = [state |-> "decided", by |-> d,
                 verdict |-> u.calls[d].verdict]
    <3>1. d # n
      BY <1>15, <2>1
    <3>2. Same(inbox.calls[d], u.calls[d])
      BY <1>17, <3>1
    <3>3. QED
      BY <1>9, <2>1, <3>2 DEF InboxTruth, Same
  <2>2. \A a \in Numbers : u.submissions[a].phase = "confirmed" =>
          approvals[a] = [state |-> "decided", by |-> u.submissions[a].id, verdict |-> u.reasons[a]]
    BY <1>9, <1>16 DEF InboxTruth
  <2>3. ASSUME NEW d \in Screens!Approving!Ids, u.calls[d].kind = "list", u.calls[d].server = "done"
        PROVE  u.calls[d].answer.observedAt \in Nat /\ u.calls[d].answer.observedAt <= Clock(approvals)
    <3>1. d # n
      BY <1>15, <2>3
    <3>2. Same(inbox.calls[d], u.calls[d])
      BY <1>17, <3>1
    <3>3. QED
      BY <1>9, <2>3, <3>2 DEF InboxTruth, Same
  <2>4. u.observedAt <= Clock(approvals)
    BY <1>9, <1>16 DEF InboxTruth
  <2>5. QED
    BY <2>1, <2>2, <2>3, <2>4 DEF InboxTruth
<1>21. InboxAlive(u)
  <2>1. ASSUME NEW a \in Numbers, u.submissions[a].phase = "deciding"
        PROVE  Submitted(u, a)
    <3>1. CASE a = b
      BY <1>15, <1>16, <3>1 DEF Submitted
    <3>2. CASE a # b
      <4>1. Submitted(inbox, a) /\ u.submissions[a] = inbox.submissions[a]
        BY <1>9, <1>16, <2>1, <3>2 DEF InboxAlive
      <4>2. PICK d \in Screens!Approving!Ids : d = inbox.submissions[a].id
        BY <4>1 DEF Submitted
      <4>3. inbox.calls[d].kind = "decide"
        BY <4>1, <4>2 DEF Submitted
      <4>4. d # n
        BY <1>9, <1>18, <4>3, KnownCall
      <4>5. d # inbox.current
        BY <1>9, <4>2, <4>3, InboxIds DEF InboxSound
      <4>6. u.calls[d] = inbox.calls[d]
        BY <1>17, <4>4, <4>5
      <4>7. QED
        BY <1>16, <4>1, <4>2, <4>6 DEF Submitted
    <3>3. QED
      BY <3>1, <3>2
  <2>2. QED
    BY <1>16, <2>1 DEF InboxAlive
<1>22. Polls(u)
  BY <1>15 DEF Polls, Opened
<1>23. inbox.observedAt <= u.observedAt
  BY <1>16, ClockStays
<1>24. QED
  BY <1>7, <1>19, <1>20, <1>21, <1>22, <1>23, PageStep DEF InboxGood

(* The person and the clock.                                               *)
LEMMA LoadsStep ==
  ASSUME InboxInv, NEW t, InboxGood(approvals, t), t.used = inbox.used,
         t.submissions = inbox.submissions,
         t.observedAt = inbox.observedAt, NEW p, Screens!Approving!Client(Screens!Approving!Load(t, p)),
         t.used < InboxCalls \/ Screens!Approving!Deciding(t) \/ t.seen # "visible"
  PROVE  InboxInv' /\ inbox.observedAt <= inbox'.observedAt
<1>1. PICK u : u = Screens!Approving!Load(t, p)
  OBVIOUS
<1>2. Screens!Approving!Here /\ inbox' = u /\ approvals' = approvals
  BY <1>1, ClientStep
<1>3. /\ InboxGood(approvals, u) /\ u.observedAt = t.observedAt /\ u.seen = t.seen
      /\ u.seen = "visible" => Polls(u)
  BY <1>1, LoadHolds
<1>4. inbox.observedAt <= u.observedAt
  BY <1>3, ClockStays
<1>5. QED
  BY <1>2, <1>3, <1>4, PageStep

LEMMA LoadsFromHere ==
  ASSUME InboxInv, NEW p, Screens!Approving!Client(Screens!Approving!Load(inbox, p)),
         Screens!Approving!Fits(inbox)
  PROVE  InboxInv' /\ inbox.observedAt <= inbox'.observedAt
<1>1. PICK t : t = inbox
  OBVIOUS
<1>2. Screens!Approving!Here
  BY DEF Screens!Approving!Client
<1>3. InboxGood(approvals, t)
  BY <1>1, <1>2, InboxHere
<1>4. t.used < InboxCalls \/ Screens!Approving!Deciding(t) \/ t.seen # "visible"
  BY <1>1 DEF Screens!Approving!Fits, Screens!Approving!Room
<1>5. Screens!Approving!Client(Screens!Approving!Load(t, p))
  BY <1>1
<1>6. QED
  BY <1>1, <1>3, <1>4, <1>5, LoadsStep

LEMMA ClockTicks ==
  ASSUME InboxInv, Screens!Approving!Tick
  PROVE  InboxInv' /\ inbox.observedAt <= inbox'.observedAt
<1>1. PICK t : t = [inbox EXCEPT !.timer = FALSE]
  OBVIOUS
<1>2. PICK p : p = inbox.pages
  OBVIOUS
<1>3. Screens!Approving!Client(Screens!Approving!Load(t, p)) /\ Screens!Approving!Fits(inbox)
  BY <1>1, <1>2 DEF Screens!Approving!Tick
<1>4. InboxGood(approvals, inbox)
  BY <1>3, InboxHere DEF Screens!Approving!Client
<1>5. InboxGood(approvals, t) /\ Retimed(inbox, t) /\ t.seen = inbox.seen
  BY <1>1, <1>4, TimerHolds
<1>6. t.used = inbox.used /\ t.submissions = inbox.submissions /\ t.observedAt = inbox.observedAt
  BY <1>5 DEF Retimed
<1>7. t.used < InboxCalls \/ Screens!Approving!Deciding(t) \/ t.seen # "visible"
  BY <1>3, <1>5, <1>6 DEF Screens!Approving!Fits, Screens!Approving!Room, Screens!Approving!Deciding
<1>8. QED
  BY <1>3, <1>5, <1>6, <1>7, LoadsStep

LEMMA ShowStep ==
  ASSUME InboxInv, Screens!Approving!Show
  PROVE  InboxInv' /\ inbox.observedAt <= inbox'.observedAt
<1>1. PICK t : t = [inbox EXCEPT !.seen = "visible", !.timer = FALSE]
  OBVIOUS
<1>2. PICK p : p = inbox.pages
  OBVIOUS
<1>3. /\ Screens!Approving!Client(Screens!Approving!Load(t, p))
      /\ (inbox.used < InboxCalls \/ Screens!Approving!Deciding(inbox))
  BY <1>1, <1>2 DEF Screens!Approving!Show, Screens!Approving!Room
<1>4. InboxGood(approvals, inbox)
  BY <1>3, InboxHere DEF Screens!Approving!Client
<1>5. InboxGood(approvals, t) /\ Retimed(inbox, t)
  <2>1. TabLike(inbox)
    BY <1>4 DEF InboxGood, InboxSound, InboxLike
  <2>2. Retimed(inbox, t)
    BY <1>1, <2>1 DEF TabLike, Retimed
  <2>3. QED
    BY <1>4, <2>2, RetimedHolds
<1>6. t.used = inbox.used /\ t.submissions = inbox.submissions /\ t.observedAt = inbox.observedAt
  BY <1>5 DEF Retimed
<1>7. t.used < InboxCalls \/ Screens!Approving!Deciding(t) \/ t.seen # "visible"
  BY <1>3, <1>6 DEF Screens!Approving!Deciding
<1>8. QED
  BY <1>3, <1>5, <1>6, <1>7, LoadsStep

LEMMA HideStep ==
  ASSUME InboxInv, Screens!Approving!Hide
  PROVE  InboxInv' /\ inbox.observedAt <= inbox'.observedAt
<1>1. PICK t : t = Screens!Approving!Aborted(inbox, inbox.current)
  OBVIOUS
<1>2. PICK u : u = [t EXCEPT !.seen = "hidden", !.timer = FALSE, !.listId = 0, !.current = 0]
  OBVIOUS
<1>3. Screens!Approving!Here /\ inbox' = u /\ approvals' = approvals
  BY <1>1, <1>2, ClientStep DEF Screens!Approving!Hide
<1>4. InboxSound(inbox) /\ InboxTruth(approvals, inbox) /\ InboxAlive(inbox)
  BY <1>3, InboxHere DEF InboxGood
<1>5. /\ InboxSound(t) /\ InboxTruth(approvals, t) /\ SameBesides(inbox, t) /\ t.timer = inbox.timer
      /\ t.current = inbox.current
      /\ t.used = inbox.used /\ t.listId = inbox.listId /\ CallsAborted(inbox, t, inbox.current)
      /\ Polls(inbox) => Polls(t)
  BY <1>1, <1>4, AbortedHolds
<1>6. /\ TabLike(u) /\ u.calls = t.calls /\ u.seen = "hidden" /\ u.current = 0 /\ u.used = t.used
      /\ u.submissions = t.submissions /\ u.observedAt = t.observedAt /\ u.reasons = t.reasons
      /\ u.listId = 0
  <2>1. TabLike(t)
    BY <1>5 DEF InboxSound, InboxLike
  <2>2. QED
    BY <1>2, <2>1 DEF TabLike
<1>7. InboxLike(u)
  BY <1>5, <1>6 DEF InboxSound, InboxLike
<1>8. InboxSound(u)
  BY <1>5, <1>6, <1>7 DEF InboxSound, InboxLike
<1>9. InboxTruth(approvals, u)
  BY <1>5, <1>6 DEF InboxTruth
<1>10. InboxAlive(u)
  <2>1. ASSUME NEW a \in Numbers, u.submissions[a].phase = "deciding"
        PROVE  Submitted(u, a)
    <3>1. Submitted(inbox, a)
      BY <1>4, <1>5, <1>6, <2>1 DEF InboxAlive, SameBesides
    <3>2. inbox.submissions[a].id # inbox.current
      BY <1>4, <3>1, InboxIds DEF Submitted, InboxSound
    <3>3. Submitted(t, a)
      BY <1>5, <3>1, <3>2, AbortedKeeps
    <3>4. QED
      BY <1>6, <3>3 DEF Submitted
  <2>2. QED
    BY <1>6, <2>1 DEF InboxAlive
<1>11. u.seen # "visible"
  BY <1>6
<1>12. inbox.observedAt <= u.observedAt
  BY <1>5, <1>6, ClockStays DEF SameBesides
<1>13. QED
  BY <1>3, <1>8, <1>9, <1>10, <1>11, <1>12, PageStep DEF InboxGood

LEMMA ReasonStep ==
  ASSUME InboxInv, NEW b \in Numbers, NEW v, Screens!Approving!Reason(b, v)
  PROVE  InboxInv' /\ inbox.observedAt <= inbox'.observedAt
<1>1. PICK rs : rs = [inbox.reasons EXCEPT ![b] = v]
  OBVIOUS
<1>2. PICK u : u = [inbox EXCEPT !.reasons[b] = v]
  OBVIOUS
<1>3. /\ Screens!Approving!Here /\ inbox' = u /\ approvals' = approvals
      /\ inbox.submissions[b].phase = "none"
  BY <1>2, ClientStep DEF Screens!Approving!Reason, Screens!Approving!ReasonOpen
<1>4. /\ InboxSound(inbox) /\ InboxTruth(approvals, inbox) /\ InboxAlive(inbox)
      /\ InboxLike(inbox) /\ TabLike(inbox) /\ (inbox.seen = "visible" => Polls(inbox))
  BY <1>3, InboxHere DEF InboxGood, InboxSound, InboxLike
<1>5. u = [inbox EXCEPT !.reasons = rs]
  BY <1>1, <1>2, <1>4 DEF TabLike
<1>6. /\ TabLike(u) /\ u.calls = inbox.calls /\ u.seen = inbox.seen /\ u.current = inbox.current
      /\ u.used = inbox.used /\ u.timer = inbox.timer
      /\ u.submissions = inbox.submissions /\ u.observedAt = inbox.observedAt /\ u.reasons = rs
      /\ u.listId = inbox.listId
  BY <1>4, <1>5 DEF TabLike
<1>7. rs = [a \in Numbers |-> rs[a]] /\ \A a \in Numbers : a # b => rs[a] = inbox.reasons[a]
  BY <1>1, <1>4 DEF InboxLike
<1>8. InboxLike(u)
  BY <1>4, <1>6, <1>7 DEF InboxLike
<1>9. InboxSound(u)
  BY <1>4, <1>6, <1>8 DEF InboxSound
<1>10. InboxTruth(approvals, u)
  BY <1>3, <1>4, <1>6, <1>7 DEF InboxTruth
<1>11. InboxAlive(u)
  BY <1>3, <1>4, <1>6, <1>7 DEF InboxAlive, Submitted, Loading, Screens!Approving!Deciding
<1>12. u.seen = "visible" => Polls(u)
  BY <1>4, <1>6 DEF Polls, Opened
<1>13. inbox.observedAt <= u.observedAt
  BY <1>6, ClockStays
<1>14. QED
  BY <1>3, <1>9, <1>10, <1>11, <1>12, <1>13, PageStep DEF InboxGood

LEMMA DismissStep ==
  ASSUME InboxInv, NEW b \in Numbers, Screens!Approving!Dismiss(b)
  PROVE  InboxInv' /\ inbox.observedAt <= inbox'.observedAt
<1>1. PICK y : y = Screens!Approving!NoSubmission
  OBVIOUS
<1>2. PICK ss : ss = [inbox.submissions EXCEPT ![b] = y]
  OBVIOUS
<1>3. PICK u : u = [inbox EXCEPT !.submissions[b] = y]
  OBVIOUS
<1>4. /\ Screens!Approving!Here /\ inbox' = u /\ approvals' = approvals
      /\ inbox.submissions[b].phase \in {"failed", "unknown"}
  BY <1>1, <1>3, ClientStep DEF Screens!Approving!Dismiss
<1>5. /\ InboxSound(inbox) /\ InboxTruth(approvals, inbox) /\ InboxAlive(inbox)
      /\ InboxLike(inbox) /\ TabLike(inbox) /\ (inbox.seen = "visible" => Polls(inbox))
  BY <1>4, InboxHere DEF InboxGood, InboxSound, InboxLike
<1>6. u = [inbox EXCEPT !.submissions = ss]
  BY <1>2, <1>3, <1>5 DEF TabLike
<1>7. /\ TabLike(u) /\ u.calls = inbox.calls /\ u.seen = inbox.seen /\ u.current = inbox.current
      /\ u.used = inbox.used /\ u.timer = inbox.timer
      /\ u.submissions = ss /\ u.observedAt = inbox.observedAt /\ u.reasons = inbox.reasons
      /\ u.listId = inbox.listId
  BY <1>5, <1>6 DEF TabLike
<1>8. /\ ss = [a \in Numbers |-> ss[a]] /\ ss[b] = y
      /\ \A a \in Numbers : a # b => ss[a] = inbox.submissions[a]
  BY <1>2, <1>5 DEF InboxLike
<1>9. SubmissionLike(y) /\ y.phase = "none"
  BY <1>1 DEF SubmissionLike, Screens!Approving!NoSubmission
<1>10. \A a \in Numbers : SubmissionLike(ss[a])
  BY <1>5, <1>8, <1>9 DEF InboxLike
<1>11. InboxLike(u)
  BY <1>5, <1>7, <1>8, <1>10 DEF InboxLike
<1>12. InboxSound(u)
  BY <1>5, <1>7, <1>11 DEF InboxSound
<1>13. InboxTruth(approvals, u)
  <2>1. \A a \in Numbers : u.submissions[a].phase = "confirmed" => a # b
    BY <1>7, <1>8, <1>9
  <2>2. \A a \in Numbers : u.submissions[a].phase = "confirmed" =>
          u.submissions[a] = inbox.submissions[a]
    BY <1>7, <1>8, <2>1
  <2>3. QED
    BY <1>5, <1>7, <2>2 DEF InboxTruth
<1>14. \A a \in Numbers : u.submissions[a].phase = "deciding" => u.submissions[a] = inbox.submissions[a]
  BY <1>7, <1>8, <1>9
<1>15. InboxAlive(u)
  BY <1>5, <1>7, <1>14 DEF InboxAlive, Submitted, Loading, Screens!Approving!Deciding
<1>16. u.seen = "visible" => Polls(u)
  BY <1>5, <1>7 DEF Polls, Opened
<1>17. inbox.observedAt <= u.observedAt
  BY <1>7, ClockStays
<1>18. QED
  BY <1>4, <1>12, <1>13, <1>15, <1>16, <1>17, PageStep DEF InboxGood

LEMMA DisposeStep ==
  ASSUME InboxInv, Screens!Approving!Dispose
  PROVE  InboxInv' /\ inbox.observedAt <= inbox'.observedAt
<1>1. PICK cs : cs = [c \in Screens!Approving!Ids |-> IF inbox.calls[c].client = "waiting"
                                       THEN [inbox.calls[c] EXCEPT !.client = "aborted"] ELSE inbox.calls[c]]
  OBVIOUS
<1>2. PICK u : u = [inbox EXCEPT !.seen = "gone", !.timer = FALSE, !.calls = cs]
  OBVIOUS
<1>3. inbox' = u /\ approvals' = approvals
  BY <1>1, <1>2 DEF Screens!Approving!Dispose, Screens!Approving!Client
<1>4. /\ InboxSound(inbox) /\ InboxTruth(approvals, inbox) /\ InboxLike(inbox) /\ TabLike(inbox)
  BY DEF InboxInv, InboxSound, InboxLike
<1>5. /\ TabLike(u) /\ u.calls = cs /\ u.seen = "gone" /\ u.current = inbox.current
      /\ u.used = inbox.used
      /\ u.submissions = inbox.submissions /\ u.observedAt = inbox.observedAt
      /\ u.reasons = inbox.reasons
  BY <1>2, <1>4 DEF TabLike
<1>6. ASSUME NEW c \in Screens!Approving!Ids
      PROVE  /\ CallLike(cs[c]) /\ Same(inbox.calls[c], cs[c])
             /\ inbox.calls[c].client # "waiting" => cs[c] = inbox.calls[c]
  <2>1. PICK x, y : x = inbox.calls[c] /\ y = [x EXCEPT !.client = "aborted"]
    OBVIOUS
  <2>2. CallLike(x)
    BY <1>4, <2>1 DEF InboxLike
  <2>3. CallLike(y) /\ Same(x, y)
    BY <2>1, <2>2, ClientIs
  <2>4. cs[c] = IF x.client = "waiting" THEN y ELSE x
    BY <1>1, <2>1
  <2>5. Same(x, x)
    BY DEF Same
  <2>6. QED
    BY <2>1, <2>2, <2>3, <2>4, <2>5
<1>7. cs = [c \in Screens!Approving!Ids |-> cs[c]]
  BY <1>1
<1>8. InboxLike(u)
  BY <1>4, <1>5, <1>6, <1>7 DEF InboxLike
<1>9. InboxSound(u)
  <2>1. ASSUME NEW d \in Screens!Approving!Ids
        PROVE  /\ d > u.used => u.calls[d] = Screens!Approving!NoCall
               /\ u.calls[d].kind = "decide" => u.calls[d].of \in Numbers
    <3>1. Same(inbox.calls[d], u.calls[d])
      BY <1>5, <1>6
    <3>2. u.calls[d].kind = "decide" => u.calls[d].of \in Numbers
      BY <1>4, <3>1 DEF InboxSound, Same
    <3>3. ASSUME d > u.used
          PROVE  u.calls[d] = Screens!Approving!NoCall
      <4>1. inbox.calls[d] = Screens!Approving!NoCall
        BY <1>4, <1>5, <3>3 DEF InboxSound
      <4>2. inbox.calls[d].client # "waiting"
        BY <4>1, NoCalls
      <4>3. QED
        BY <1>5, <1>6, <4>1, <4>2
    <3>4. QED
      BY <3>2, <3>3
  <2>2. u.current \in Nat /\ u.current <= u.used
    BY <1>4, <1>5 DEF InboxSound
  <2>3. ASSUME u.current # 0
        PROVE  u.calls[u.current].kind # "decide"
    <3>1. inbox.current \in Screens!Approving!Ids
      BY <1>4, <1>5, <2>3, InboxConstants DEF InboxSound, InboxLike, Screens!Approving!Ids
    <3>2. inbox.calls[inbox.current].kind # "decide"
      BY <1>4, <1>5, <2>3 DEF InboxSound
    <3>3. QED
      BY <1>5, <1>6, <3>1, <3>2 DEF Same
  <2>4. QED
    BY <1>8, <2>1, <2>2, <2>3 DEF InboxSound
<1>10. InboxTruth(approvals, u)
  <2>1. \A d \in Screens!Approving!Ids : Same(inbox.calls[d], u.calls[d])
    BY <1>5, <1>6
  <2>2. QED
    BY <1>4, <1>5, <2>1 DEF InboxTruth, Same
<1>11. inbox.observedAt <= u.observedAt
  BY <1>5, ClockStays
<1>12. InboxInv'
  BY <1>3, <1>5, <1>9, <1>10 DEF InboxInv
<1>13. QED
  BY <1>3, <1>11, <1>12

LEMMA RefreshStep ==
  ASSUME InboxInv, Screens!Approving!Refresh
  PROVE  InboxInv' /\ inbox.observedAt <= inbox'.observedAt
<1>1. PICK p : p = Screens!Approving!First
  OBVIOUS
<1>2. Screens!Approving!Client(Screens!Approving!Load(inbox, p)) /\ Screens!Approving!Fits(inbox)
  BY <1>1 DEF Screens!Approving!Refresh
<1>3. QED
  BY <1>2, LoadsFromHere

LEMMA PreviousStep ==
  ASSUME InboxInv, Screens!Approving!Previous
  PROVE  InboxInv' /\ inbox.observedAt <= inbox'.observedAt
<1>1. PICK p : p = [inbox.pages EXCEPT !.page = @ - 1]
  OBVIOUS
<1>2. Screens!Approving!Client(Screens!Approving!Load(inbox, p)) /\ Screens!Approving!Fits(inbox)
  BY <1>1 DEF Screens!Approving!Previous
<1>3. QED
  BY <1>2, LoadsFromHere

LEMMA FurtherStep ==
  ASSUME InboxInv, Screens!Approving!Further
  PROVE  InboxInv' /\ inbox.observedAt <= inbox'.observedAt
<1>1. PICK p : p = [cursors |-> Append(SubSeq(inbox.pages.cursors, 1, inbox.pages.page), inbox.next),
                    page |-> inbox.pages.page + 1]
  OBVIOUS
<1>2. Screens!Approving!Client(Screens!Approving!Load(inbox, p)) /\ Screens!Approving!Fits(inbox)
  BY <1>1 DEF Screens!Approving!Further
<1>3. QED
  BY <1>2, LoadsFromHere

LEMMA InboxBegins == Screens!Approving!Init => InboxInv
<1> SUFFICES ASSUME Screens!Approving!Init PROVE InboxInv
  OBVIOUS
<1>1. approvals = [a \in Numbers |-> approvals[a]] /\ \A a \in Numbers : RowLike(approvals[a])
  <2>1. approvals \in [Numbers -> {Screens!Approving!NoRow,
          [Screens!Approving!NoRow EXCEPT !.state = "open"]}]
    BY DEF Screens!Approving!Init
  <2>2. RowLike(Screens!Approving!NoRow) /\ RowLike([Screens!Approving!NoRow EXCEPT !.state = "open"])
    BY DEF RowLike, Screens!Approving!NoRow
  <2>3. ASSUME NEW a \in Numbers
        PROVE  RowLike(approvals[a])
    <3>1. approvals[a] \in {Screens!Approving!NoRow, [Screens!Approving!NoRow EXCEPT !.state = "open"]}
      BY <2>1
    <3>2. QED
      BY <2>2, <3>1
  <2>4. QED
    BY <2>1, <2>3
<1>2. PICK t : t = Screens!Approving!Blank
  OBVIOUS
<1>3. TabLike(t)
  BY <1>2 DEF Screens!Approving!Blank, TabLike
<1>4. /\ t.seen = "hidden" /\ t.current = 0 /\ t.used = 0 /\ t.observedAt = 0 /\ t.listId = 0
      /\ t.calls = [c \in Screens!Approving!Ids |-> Screens!Approving!NoCall]
      /\ t.submissions = [a \in Numbers |-> Screens!Approving!NoSubmission]
      /\ t.reasons = [a \in Numbers |-> Missing]
  BY <1>2 DEF Screens!Approving!Blank
<1>5. SubmissionLike(Screens!Approving!NoSubmission) /\ Screens!Approving!NoSubmission.phase = "none"
  BY DEF Screens!Approving!NoSubmission, SubmissionLike
<1>6. InboxLike(t)
  BY <1>3, <1>4, <1>5, NoCalls, InboxConstants DEF InboxLike
<1>7. InboxSound(t)
  BY <1>4, <1>6, NoCalls DEF InboxSound
<1>8. InboxTruth(approvals, t)
  <2>1. t.observedAt <= Clock(approvals)
    <3>1. Clock(approvals) \in Nat
      <4>1. RowsGoOn(approvals, approvals)
        BY DEF RowsGoOn
      <4>2. QED
        BY <4>1, ClockGoesOn
    <3>2. QED
      BY <1>4, <3>1
  <2>2. QED
    BY <1>4, <1>5, <2>1, NoCalls DEF InboxTruth
<1>9. InboxAlive(t)
  BY <1>4, <1>5 DEF InboxAlive
<1>10. InboxGood(approvals, t)
  BY <1>7, <1>8, <1>9 DEF InboxGood
<1>11. CASE inbox = Screens!Approving!Blank
  BY <1>1, <1>2, <1>4, <1>7, <1>8, <1>9, <1>11 DEF InboxInv
<1>12. CASE inbox = Screens!Approving!Load([Screens!Approving!Blank EXCEPT !.seen = "visible"],
              Screens!Approving!First)
  <2>1. PICK v : v = [t EXCEPT !.seen = "visible"]
    OBVIOUS
  <2>2. Retimed(t, v)
    BY <1>3, <2>1 DEF TabLike, Retimed
  <2>3. InboxGood(approvals, v) /\ v.used = 0
    BY <1>4, <1>10, <2>2, RetimedHolds DEF Retimed
  <2>4. v.used < InboxCalls \/ Screens!Approving!Deciding(v) \/ v.seen # "visible"
    BY <2>3, InboxConstants
  <2>5. PICK p : p = Screens!Approving!First
    OBVIOUS
  <2>6. PICK u : u = Screens!Approving!Load(v, p)
    OBVIOUS
  <2>7. InboxGood(approvals, u) /\ (u.seen = "visible" => Polls(u))
    BY <2>3, <2>4, <2>6, LoadHolds
  <2>8. inbox = u
    BY <1>2, <1>12, <2>1, <2>5, <2>6
  <2>9. QED
    BY <1>1, <2>7, <2>8 DEF InboxInv, InboxGood
<1>13. QED
  BY <1>11, <1>12 DEF Screens!Approving!Init

(* Every step.                                                             *)
LEMMA InboxStep ==
  ASSUME InboxInv, Screens!Approving!Next \/ UNCHANGED Screens!Approving!vars
  PROVE  InboxInv' /\ Screens!Approving!Onward
<1> SUFFICES InboxInv' /\ inbox.observedAt <= inbox'.observedAt
  <2>1. inbox.observedAt \in Nat
    BY DEF InboxInv, InboxSound, InboxLike
  <2>2. QED
    BY <2>1 DEF Screens!Approving!Onward, InboxInv, InboxSound, InboxLike
<1>1. CASE UNCHANGED Screens!Approving!vars
  <2>1. approvals' = approvals /\ inbox' = inbox
    BY <1>1 DEF Screens!Approving!vars
  <2>2. InboxInv'
    BY <2>1 DEF InboxInv
  <2>3. inbox.observedAt <= inbox.observedAt
    BY DEF InboxInv, InboxSound, InboxLike
  <2>4. QED
    BY <2>1, <2>2, <2>3
<1>2. CASE Screens!Approving!Server
  <2>1. InboxInv' /\ inbox'.observedAt = inbox.observedAt
    BY <1>2, ServerStep
  <2>2. inbox.observedAt \in Nat
    BY DEF InboxInv, InboxSound, InboxLike
  <2>3. QED
    BY <2>1, <2>2
<1>3. CASE Screens!Approving!Calls
  <2>1. PICK c \in Screens!Approving!Ids :
          \/ Screens!Approving!ListAnswered(c) \/ Screens!Approving!ListTimedOut(c)
               \/ Screens!Approving!ListFailed(c)
          \/ Screens!Approving!DecisionAnswered(c) \/ Screens!Approving!DecisionTimedOut(c)
               \/ Screens!Approving!DecisionFailed(c)
    BY <1>3 DEF Screens!Approving!Calls
  <2>2. QED
    BY <2>1, ListAnsweredStep, ListTimedOutStep, ListFailedStep,
       DecisionAnsweredStep, DecisionTimedOutStep, DecisionFailedStep
<1>4. CASE Screens!Approving!Person
  <2>1. CASE \E a \in Judged : Screens!Approving!Decide(a) \/ Screens!Approving!Dismiss(a)
               \/ \E v \in Screens!Approving!Verdicts \cup {Missing} : Screens!Approving!Reason(a, v)
    <3>1. PICK a \in Numbers :
            Screens!Approving!Decide(a) \/ Screens!Approving!Dismiss(a)
              \/ \E v \in Screens!Approving!Verdicts \cup {Missing} : Screens!Approving!Reason(a, v)
      BY <2>1, InboxConstants
    <3>2. CASE Screens!Approving!Decide(a)
      BY <3>2, DecideStep
    <3>3. CASE Screens!Approving!Dismiss(a)
      BY <3>3, DismissStep
    <3>4. CASE \E v \in Screens!Approving!Verdicts \cup {Missing} : Screens!Approving!Reason(a, v)
      <4>1. PICK v : Screens!Approving!Reason(a, v)
        BY <3>4
      <4>2. QED
        BY <4>1, ReasonStep
    <3>5. QED
      BY <3>1, <3>2, <3>3, <3>4
  <2>2. QED
    BY <1>4, <2>1, RefreshStep, PreviousStep, FurtherStep, HideStep, ShowStep, DisposeStep
       DEF Screens!Approving!Person
<1>5. CASE Screens!Approving!Tick
  BY <1>5, ClockTicks
<1>6. QED
  BY <1>1, <1>2, <1>3, <1>4, <1>5 DEF Screens!Approving!Next

-----------------------------------------------------------------------------
(* PrincipalScreen.  The shapes of the page and of a call, as before.      *)
RequestLike(x) ==
  x = [kind |-> x.kind, of |-> x.of, pages |-> x.pages, server |-> x.server,
       answer |-> x.answer, client |-> x.client]
PageLike(t) ==
  t = [gone |-> t.gone, current |-> t.current, used |-> t.used, calls |-> t.calls,
       items |-> t.items, next |-> t.next, listId |-> t.listId, pages |-> t.pages,
       revocation |-> t.revocation, confirmed |-> t.confirmed]
ScreenLike(t) ==
  /\ PageLike(t)
  /\ t.calls = [c \in Screens!Revoking!Ids |-> t.calls[c]]
  /\ \A c \in Screens!Revoking!Ids : RequestLike(t.calls[c])
  /\ t.revocation = [of |-> t.revocation.of, phase |-> t.revocation.phase, id |-> t.revocation.id]
  /\ t.used \in Nat /\ t.used <= ScreenCalls

(* What an answer says is so, s being who is revoked, and goes on being so.*)
RequestTrue(s, x) ==
  /\ x.kind = "revoke" => x.of \in Numbers
  /\ x.kind = "revoke" /\ x.server = "done" /\ x.answer.ok => x.of \in s
  /\ x.kind = "list" /\ x.server = "done" =>
       \A p \in DOMAIN x.answer.items : x.answer.items[p] = "revoked" => p \in s

(* So is what the page shows.                                              *)
ShowsTrue(s, t) ==
  /\ t.revocation.phase # "none" => t.revocation.of \in Numbers
  /\ t.revocation.phase = "confirmed" => t.revocation.of \in s
  /\ \A p \in t.confirmed : p \in s /\ (p \in DOMAIN t.items => t.items[p] = "revoked")
  /\ \A p \in DOMAIN t.items : t.items[p] = "revoked" => p \in s

(* Calls are numbered as they are made, and the current one is of a list.  *)
Numbered(t) ==
  /\ \A c \in Screens!Revoking!Ids : c > t.used => t.calls[c] = Screens!Revoking!NoCall
  /\ t.current \in Nat /\ t.current <= t.used
  /\ t.current # 0 => t.calls[t.current].kind # "revoke"

(* A revocation under way has its call, and so has a list that is loading; *)
(* what it will show as active was not shown as revoked.                   *)
Underway(t) ==
  LET c == t.revocation.id IN
  /\ c \in Screens!Revoking!Ids
  /\ t.calls[c].kind = "revoke" /\ t.calls[c].of = t.revocation.of /\ t.calls[c].client = "waiting"
StillShows(i, j) == \A p \in DOMAIN i \cap DOMAIN j : i[p] = "revoked" => j[p] = "revoked"
Listing(t) ==
  /\ t.listId \in Screens!Revoking!Ids /\ ~Screens!Revoking!Pending(t)
  /\ t.calls[t.listId].kind = "list" /\ t.calls[t.listId].client = "waiting"
  /\ t.calls[t.listId].server = "done" => StillShows(t.items, t.calls[t.listId].answer.items)

ScreenSound(s, t) ==
  ScreenLike(t) /\ (\A c \in Screens!Revoking!Ids : RequestTrue(s, t.calls[c])) /\ ShowsTrue(s, t)
ScreenGood(s, t) ==
  /\ ScreenSound(s, t) /\ Numbered(t)
  /\ Screens!Revoking!Pending(t) => Underway(t)
  /\ t.listId # 0 => Listing(t)

Revoked == {p \in Numbers : principals[p] = "revoked"}
ScreenInv ==
  /\ principals = [p \in Numbers |-> principals[p]]
  /\ ScreenSound(Revoked, screen)
  /\ ~screen.gone => ScreenGood(Revoked, screen)

LEMMA ScreenConstants ==
  /\ Acted \subseteq Numbers /\ Numbers \subseteq Nat \ {0} /\ ScreenCalls \in Nat \ {0}
BY ScreensGiven DEF Screens!Assumptions, Screens!Revoking!PrincipalScreenAssumption

LEMMA RequestIds == \A c \in Screens!Revoking!Ids : c \in Nat /\ c # 0 /\ c <= ScreenCalls
BY ScreenConstants DEF Screens!Revoking!Ids

LEMMA NoRequests ==
  /\ RequestLike(Screens!Revoking!NoCall) /\ Screens!Revoking!NoCall.kind = "none"
  /\ Screens!Revoking!NoCall.client = "none"
  /\ RequestLike(Screens!Revoking!Over) /\ Screens!Revoking!Over.kind = "none"
  /\ Screens!Revoking!Over.client = "ended"
BY DEF Screens!Revoking!NoCall, Screens!Revoking!Over, RequestLike

(* The invariant is what the page promises.                                *)
LEMMA ScreenShown == ScreenInv => Screens!Revoking!ScreenTrue
<1> SUFFICES ASSUME ScreenInv PROVE Screens!Revoking!ScreenTrue
  OBVIOUS
<1>1. Screens!Revoking!ConfirmedIsTrue
  BY DEF ScreenInv, ScreenSound, ShowsTrue, Revoked, Screens!Revoking!ConfirmedIsTrue
<1>2. Screens!Revoking!NotStuck
  BY DEF ScreenInv, ScreenGood, Underway, Listing, Screens!Revoking!NotStuck
<1>3. QED
  BY <1>1, <1>2 DEF Screens!Revoking!ScreenTrue

(* What each function of the page leaves as it is.                         *)
Besides(t, u) ==
  /\ u.items = t.items /\ u.next = t.next /\ u.pages = t.pages /\ u.gone = t.gone
  /\ u.revocation = t.revocation /\ u.confirmed = t.confirmed
Alike(x, y) ==
  /\ y.kind = x.kind /\ y.of = x.of /\ y.pages = x.pages /\ y.server = x.server /\ y.answer = x.answer

LEMMA RequestClient ==
  ASSUME NEW x, RequestLike(x), NEW v, NEW y, y = [x EXCEPT !.client = v]
  PROVE  RequestLike(y) /\ y.client = v /\ Alike(x, y)
BY DEF RequestLike, Alike

LEMMA RequestOf ==
  ASSUME NEW t, NEW c, NEW v, PageLike(t)
  PROVE  [t EXCEPT !.calls[c].client = v] = [t EXCEPT !.calls = [t.calls EXCEPT ![c].client = v]]
BY DEF PageLike

LEMMA AlikeTrue ==
  ASSUME NEW s, NEW x, NEW y, RequestTrue(s, x), Alike(x, y)
  PROVE  RequestTrue(s, y)
BY DEF RequestTrue, Alike

RequestAborted(t, u, c) == \A d \in Screens!Revoking!Ids :
  /\ Alike(t.calls[d], u.calls[d])
  /\ d # c => u.calls[d] = t.calls[d]
  /\ u.calls[d] # t.calls[d] => t.calls[d].client = "waiting" /\ u.calls[d].client = "aborted"

LEMMA ScreenAborted ==
  ASSUME NEW t, ScreenLike(t), NEW c, NEW u, u = Screens!Revoking!Aborted(t, c)
  PROVE  /\ ScreenLike(u) /\ Besides(t, u) /\ u.current = t.current
         /\ u.used = t.used /\ u.listId = t.listId
         /\ RequestAborted(t, u, c)
<1>1. CASE c \in Screens!Revoking!Ids /\ t.calls[c].client = "waiting"
  <2>1. u = [t EXCEPT !.calls[c].client = "aborted"]
    BY <1>1 DEF Screens!Revoking!Aborted
  <2>2. PICK cs : cs = [t.calls EXCEPT ![c].client = "aborted"]
    OBVIOUS
  <2>3. PageLike(t)
    BY DEF ScreenLike
  <2>4. /\ PageLike(u) /\ u.calls = cs /\ Besides(t, u) /\ u.current = t.current
        /\ u.used = t.used /\ u.listId = t.listId
    <3>1. u = [t EXCEPT !.calls = cs]
      BY <2>1, <2>2, <2>3, RequestOf
    <3>2. QED
      BY <2>3, <3>1 DEF PageLike, Besides
  <2>5. PICK y : y = [t.calls[c] EXCEPT !.client = "aborted"]
    OBVIOUS
  <2>6. RequestLike(y) /\ y.client = "aborted" /\ Alike(t.calls[c], y)
    <3>1. RequestLike(t.calls[c])
      BY <1>1 DEF ScreenLike
    <3>2. QED
      BY <2>5, <3>1, RequestClient
  <2>7. /\ cs = [d \in Screens!Revoking!Ids |-> cs[d]] /\ cs[c] = y
        /\ \A d \in Screens!Revoking!Ids : d # c => cs[d] = t.calls[d]
    BY <1>1, <2>2, <2>5 DEF ScreenLike
  <2>8. ASSUME NEW d \in Screens!Revoking!Ids
        PROVE  /\ RequestLike(cs[d]) /\ Alike(t.calls[d], cs[d]) /\ (d # c => cs[d] = t.calls[d])
               /\ cs[d] # t.calls[d] => t.calls[d].client = "waiting" /\ cs[d].client = "aborted"
    <3>1. CASE d = c
      BY <1>1, <2>6, <2>7, <3>1
    <3>2. CASE d # c
      BY <2>7, <3>2 DEF ScreenLike, Alike
    <3>3. QED
      BY <3>1, <3>2
  <2>9. ScreenLike(u)
    BY <2>4, <2>7, <2>8 DEF ScreenLike, Besides
  <2>10. QED
    BY <2>4, <2>8, <2>9 DEF RequestAborted
<1>2. CASE ~(c \in Screens!Revoking!Ids /\ t.calls[c].client = "waiting")
  <2>1. u = t
    BY <1>2 DEF Screens!Revoking!Aborted
  <2>2. QED
    BY <2>1 DEF Besides, Alike, RequestAborted
<1>3. QED
  BY <1>1, <1>2

LEMMA ScreenSends ==
  ASSUME NEW t, ScreenLike(t), t.used < ScreenCalls, NEW x, RequestLike(x), NEW u,
         u = Screens!Revoking!Sends(t, x)
  PROVE  /\ ScreenLike(u) /\ Besides(t, u) /\ u.current = t.current
         /\ u.used = t.used + 1 /\ u.listId = t.listId /\ u.used \in Screens!Revoking!Ids
         /\ \A d \in Screens!Revoking!Ids : d # u.used => u.calls[d] = t.calls[d]
         /\ u.calls[u.used].kind = x.kind /\ u.calls[u.used].of = x.of
         /\ u.calls[u.used].server = "coming" /\ u.calls[u.used].client = "waiting"
<1>1. PICK n \in Nat : n = t.used + 1
  BY DEF ScreenLike
<1>2. n \in Screens!Revoking!Ids /\ n <= ScreenCalls
  BY <1>1, ScreenConstants DEF ScreenLike, Screens!Revoking!Ids
<1>3. PICK y : y = [x EXCEPT !.server = "coming", !.client = "waiting"]
  OBVIOUS
<1>4. /\ RequestLike(y) /\ y.kind = x.kind /\ y.of = x.of
      /\ y.server = "coming" /\ y.client = "waiting"
  BY <1>3 DEF RequestLike
<1>5. PICK cs : cs = [t.calls EXCEPT ![n] = y]
  OBVIOUS
<1>6. u = [t EXCEPT !.used = n, !.calls = cs]
  <2>1. u = [t EXCEPT !.used = t.used + 1,
                      !.calls[t.used + 1] = [x EXCEPT !.server = "coming", !.client = "waiting"]]
    BY DEF Screens!Revoking!Sends
  <2>2. u = [t EXCEPT !.used = n, !.calls[n] = y]
    BY <1>1, <1>3, <2>1
  <2>3. QED
    BY <1>5, <2>2
<1>7. /\ PageLike(u) /\ u.calls = cs /\ Besides(t, u) /\ u.current = t.current
      /\ u.used = n /\ u.listId = t.listId
  BY <1>6 DEF ScreenLike, PageLike, Besides
<1>8. /\ cs = [d \in Screens!Revoking!Ids |-> cs[d]] /\ cs[n] = y
      /\ \A d \in Screens!Revoking!Ids : d # n => cs[d] = t.calls[d]
  BY <1>2, <1>5 DEF ScreenLike
<1>9. \A d \in Screens!Revoking!Ids : RequestLike(cs[d])
  BY <1>4, <1>8 DEF ScreenLike
<1>10. ScreenLike(u)
  BY <1>2, <1>7, <1>8, <1>9 DEF ScreenLike, Besides
<1>11. QED
  BY <1>1, <1>2, <1>4, <1>7, <1>8, <1>10

LEMMA ScreenEnds ==
  ASSUME NEW t, ScreenLike(t), NEW c \in Screens!Revoking!Ids, NEW u, u = Screens!Revoking!Ends(t, c)
  PROVE  /\ ScreenLike(u) /\ Besides(t, u) /\ u.current = t.current
         /\ u.used = t.used /\ u.listId = t.listId
         /\ \A d \in Screens!Revoking!Ids : d # c => u.calls[d] = t.calls[d]
         /\ u.calls[c] = Screens!Revoking!Over \/ Alike(t.calls[c], u.calls[c])
<1>1. PICK y : y = IF t.calls[c].kind = "revoke" /\ t.calls[c].server = "coming"
                   THEN [t.calls[c] EXCEPT !.client = "ended"] ELSE Screens!Revoking!Over
  OBVIOUS
<1>2. RequestLike(y) /\ (y = Screens!Revoking!Over \/ Alike(t.calls[c], y))
  <2>1. CASE y = Screens!Revoking!Over
    BY <2>1, NoRequests
  <2>2. CASE y = [t.calls[c] EXCEPT !.client = "ended"]
    <3>1. RequestLike(t.calls[c])
      BY DEF ScreenLike
    <3>2. RequestLike(y) /\ Alike(t.calls[c], y)
      BY <2>2, <3>1, RequestClient
    <3>3. QED
      BY <3>2
  <2>3. QED
    BY <1>1, <2>1, <2>2
<1>3. PICK cs : cs = [t.calls EXCEPT ![c] = y]
  OBVIOUS
<1>4. u = [t EXCEPT !.calls = cs]
  <2>1. CASE t.calls[c].kind = "revoke" /\ t.calls[c].server = "coming"
    <3>1. u = [t EXCEPT !.calls[c].client = "ended"] /\ y = [t.calls[c] EXCEPT !.client = "ended"]
      BY <1>1, <2>1 DEF Screens!Revoking!Ends
    <3>2. cs = [t.calls EXCEPT ![c].client = "ended"]
      BY <1>3, <3>1
    <3>3. QED
      BY <3>1, <3>2
  <2>2. CASE ~(t.calls[c].kind = "revoke" /\ t.calls[c].server = "coming")
    BY <1>1, <1>3, <2>2 DEF Screens!Revoking!Ends
  <2>3. QED
    BY <2>1, <2>2
<1>5. /\ PageLike(u) /\ u.calls = cs /\ Besides(t, u) /\ u.current = t.current
      /\ u.used = t.used /\ u.listId = t.listId
  BY <1>4 DEF ScreenLike, PageLike, Besides
<1>6. /\ cs = [d \in Screens!Revoking!Ids |-> cs[d]] /\ cs[c] = y
      /\ \A d \in Screens!Revoking!Ids : d # c => cs[d] = t.calls[d]
  BY <1>3 DEF ScreenLike
<1>7. \A d \in Screens!Revoking!Ids : RequestLike(cs[d])
  BY <1>2, <1>6 DEF ScreenLike
<1>8. ScreenLike(u)
  BY <1>5, <1>6, <1>7 DEF ScreenLike, Besides
<1>9. QED
  BY <1>2, <1>5, <1>6, <1>8

LEMMA OverTrue == \A s : RequestTrue(s, Screens!Revoking!Over)
  /\ RequestTrue(s, Screens!Revoking!NoCall)
BY NoRequests DEF RequestTrue

LEMMA ShownSame ==
  ASSUME NEW s, NEW t, NEW u, ShowsTrue(s, t), Besides(t, u)
  PROVE  ShowsTrue(s, u)
BY DEF ShowsTrue, Besides

LEMMA PendingSame ==
  ASSUME NEW t, NEW u, Besides(t, u)
  PROVE  Screens!Revoking!Pending(u) = Screens!Revoking!Pending(t)
BY DEF Screens!Revoking!Pending, Besides

(* What may be found false of a page only when a call is over.             *)
LEMMA SoundSame ==
  ASSUME NEW s, NEW t, NEW u, ScreenSound(s, t), ScreenLike(u), Besides(t, u),
         \A d \in Screens!Revoking!Ids : u.calls[d] = Screens!Revoking!Over
           \/ Alike(t.calls[d], u.calls[d])
  PROVE  ScreenSound(s, u)
<1>1. ShowsTrue(s, u)
  BY ShownSame DEF ScreenSound
<1>2. ASSUME NEW d \in Screens!Revoking!Ids
      PROVE  RequestTrue(s, u.calls[d])
  <2>1. PICK x, y : x = t.calls[d] /\ y = u.calls[d]
    OBVIOUS
  <2>2. RequestTrue(s, x) /\ (y = Screens!Revoking!Over \/ Alike(x, y))
    BY <2>1 DEF ScreenSound
  <2>3. RequestTrue(s, y)
    BY <2>2, OverTrue, AlikeTrue
  <2>4. QED
    BY <2>1, <2>3
<1>3. QED
  BY <1>1, <1>2 DEF ScreenSound

LEMMA KnownRequest ==
  ASSUME NEW t, ScreenLike(t), Numbered(t), NEW c \in Screens!Revoking!Ids, t.calls[c].kind # "none"
  PROVE  c <= t.used /\ c \in Nat /\ t.used \in Nat /\ c # 0
<1>1. c \in Nat /\ t.used \in Nat /\ c # 0
  BY RequestIds DEF ScreenLike
<1>2. ~(c > t.used)
  BY NoRequests DEF Numbered
<1>3. QED
  BY <1>1, <1>2

(* A call is over that nothing waits for.                                  *)
LEMMA RequestEnds ==
  ASSUME NEW s, NEW t, ScreenGood(s, t), NEW c \in Screens!Revoking!Ids, t.calls[c].kind # "none",
         c # t.listId,
         ~(Screens!Revoking!Pending(t) /\ t.revocation.id = c), NEW u, u = Screens!Revoking!Ends(t, c)
  PROVE  ScreenGood(s, u) /\ Besides(t, u) /\ u.used = t.used
<1>1. /\ ScreenLike(t) /\ ScreenSound(s, t) /\ Numbered(t)
  BY DEF ScreenGood, ScreenSound
<1>2. /\ ScreenLike(u) /\ Besides(t, u) /\ u.current = t.current
      /\ u.used = t.used /\ u.listId = t.listId
      /\ \A d \in Screens!Revoking!Ids : d # c => u.calls[d] = t.calls[d]
      /\ u.calls[c] = Screens!Revoking!Over \/ Alike(t.calls[c], u.calls[c])
  BY <1>1, ScreenEnds
<1>3. ScreenSound(s, u)
  <2>1. \A d \in Screens!Revoking!Ids : u.calls[d] = Screens!Revoking!Over
          \/ Alike(t.calls[d], u.calls[d])
    BY <1>2 DEF Alike
  <2>2. QED
    BY <1>1, <1>2, <2>1, SoundSame
<1>4. Numbered(u)
  <2>1. c <= t.used /\ c \in Nat /\ t.used \in Nat
    BY <1>1, KnownRequest
  <2>2. ASSUME NEW d \in Screens!Revoking!Ids, d > u.used
        PROVE  u.calls[d] = Screens!Revoking!NoCall
    <3>1. d # c
      BY <1>2, <2>1, <2>2
    <3>2. QED
      BY <1>1, <1>2, <2>2, <3>1 DEF Numbered
  <2>3. u.current \in Nat /\ u.current <= u.used
    BY <1>1, <1>2 DEF Numbered
  <2>4. ASSUME u.current # 0
        PROVE  u.calls[u.current].kind # "revoke"
    <3>1. t.current \in Screens!Revoking!Ids
      BY <1>1, <1>2, <2>4, ScreenConstants DEF Numbered, ScreenLike, Screens!Revoking!Ids
    <3>2. t.calls[t.current].kind # "revoke"
      BY <1>1, <1>2, <2>4 DEF Numbered
    <3>3. QED
      BY <1>2, <3>1, <3>2, NoRequests DEF Alike
  <2>5. QED
    BY <2>2, <2>3, <2>4 DEF Numbered
<1>5. ASSUME Screens!Revoking!Pending(u)
      PROVE  Underway(u)
  <2>1. Screens!Revoking!Pending(t) /\ u.revocation = t.revocation
    BY <1>2, <1>5, PendingSame DEF Besides
  <2>2. Underway(t) /\ t.revocation.id # c
    BY <2>1 DEF ScreenGood
  <2>3. QED
    BY <1>2, <2>1, <2>2 DEF Underway
<1>6. ASSUME u.listId # 0
      PROVE  Listing(u)
  <2>1. Listing(t)
    BY <1>2, <1>6 DEF ScreenGood
  <2>2. u.calls[u.listId] = t.calls[t.listId]
    BY <1>2, <2>1 DEF Listing
  <2>3. QED
    BY <1>2, <2>1, <2>2, PendingSame DEF Listing, Besides
<1>7. QED
  BY <1>2, <1>3, <1>4, <1>5, <1>6 DEF ScreenGood

(* A load starts a list that the page waits for, unless it waits for a     *)
(* revocation.                                                             *)
LEMMA ScreenLoad ==
  ASSUME NEW s, NEW t, ScreenGood(s, t), t.used < ScreenCalls \/ Screens!Revoking!Pending(t),
         NEW p, NEW u, u = Screens!Revoking!Load(t, p)
  PROVE  ScreenGood(s, u) /\ Besides(t, u)
<1>1. /\ ScreenLike(t) /\ ScreenSound(s, t) /\ Numbered(t)
  BY DEF ScreenGood, ScreenSound
<1>2. CASE Screens!Revoking!Pending(t)
  BY <1>2 DEF Screens!Revoking!Load, Besides
<1>3. CASE ~Screens!Revoking!Pending(t)
  <2>1. PICK v : v = Screens!Revoking!Aborted(t, t.current)
    OBVIOUS
  <2>2. /\ ScreenLike(v) /\ Besides(t, v) /\ v.used = t.used
        /\ \A d \in Screens!Revoking!Ids : Alike(t.calls[d], v.calls[d])
        /\ \A d \in Screens!Revoking!Ids : t.calls[d].client # "waiting" => v.calls[d] = t.calls[d]
    <3>1. /\ ScreenLike(v) /\ Besides(t, v) /\ v.current = t.current
          /\ v.used = t.used /\ v.listId = t.listId
          /\ RequestAborted(t, v, t.current)
      BY <1>1, <2>1, ScreenAborted
    <3>2. QED
      BY <3>1 DEF RequestAborted
  <2>3. PICK n \in Nat : n = t.used + 1
    BY <1>1 DEF ScreenLike
  <2>4. PICK w : w = [v EXCEPT !.current = n]
    OBVIOUS
  <2>5. /\ ScreenLike(w) /\ Besides(v, w) /\ w.used = v.used /\ w.calls = v.calls /\ w.current = n
    <3>1. PageLike(v)
      BY <2>2 DEF ScreenLike
    <3>2. PageLike(w) /\ Besides(v, w) /\ w.used = v.used /\ w.calls = v.calls /\ w.current = n
      BY <2>4, <3>1 DEF PageLike, Besides
    <3>3. QED
      BY <2>2, <3>2 DEF ScreenLike, Besides
  <2>6. PICK x : x = [Screens!Revoking!NoCall EXCEPT !.kind = "list", !.pages = p]
    OBVIOUS
  <2>7. RequestLike(x) /\ x.kind = "list"
    BY <2>6 DEF Screens!Revoking!NoCall, RequestLike
  <2>8. PICK y : y = Screens!Revoking!Sends(w, x)
    OBVIOUS
  <2>9. w.used < ScreenCalls /\ w.used + 1 = n
    BY <1>3, <2>2, <2>3, <2>5
  <2>10. /\ ScreenLike(y) /\ Besides(w, y) /\ y.current = n /\ y.used = n /\ n \in Screens!Revoking!Ids
         /\ \A d \in Screens!Revoking!Ids : d # n => y.calls[d] = w.calls[d]
         /\ y.calls[n].kind = "list" /\ y.calls[n].server = "coming" /\ y.calls[n].client = "waiting"
    <3>1. /\ ScreenLike(y) /\ Besides(w, y) /\ y.current = w.current
          /\ y.used = w.used + 1 /\ y.used \in Screens!Revoking!Ids
          /\ \A d \in Screens!Revoking!Ids : d # y.used => y.calls[d] = w.calls[d]
          /\ y.calls[y.used].kind = x.kind
          /\ y.calls[y.used].server = "coming" /\ y.calls[y.used].client = "waiting"
      BY <2>5, <2>7, <2>8, <2>9, ScreenSends
    <3>2. QED
      BY <2>5, <2>7, <2>9, <3>1
  <2>11. u = Screens!Revoking!ListStart(y, n)
    BY <1>3, <2>1, <2>3, <2>4, <2>6, <2>8 DEF Screens!Revoking!Load
  <2>12. Besides(t, y) /\ ~Screens!Revoking!Pending(y)
    <3>1. Besides(t, y)
      BY <2>2, <2>5, <2>10 DEF Besides
    <3>2. QED
      BY <1>3, <3>1, PendingSame
  <2>13. u = [y EXCEPT !.listId = n]
    BY <2>11, <2>12 DEF Screens!Revoking!ListStart
  <2>14. /\ ScreenLike(u) /\ Besides(t, u) /\ u.used = n /\ u.current = n /\ u.listId = n
         /\ u.calls = y.calls
    <3>1. PageLike(y)
      BY <2>10 DEF ScreenLike
    <3>2. /\ PageLike(u) /\ Besides(y, u) /\ u.used = y.used /\ u.calls = y.calls
          /\ u.current = y.current
          /\ u.listId = n
      BY <2>13, <3>1 DEF PageLike, Besides
    <3>3. ScreenLike(u)
      BY <2>10, <3>2 DEF ScreenLike, Besides
    <3>4. Besides(t, u)
      BY <2>12, <3>2 DEF Besides
    <3>5. QED
      BY <2>10, <3>2, <3>3, <3>4
  <2>15. ~Screens!Revoking!Pending(u)
    BY <1>3, <2>14, PendingSame
  <2>16. \A d \in Screens!Revoking!Ids : d # n => Alike(t.calls[d], u.calls[d])
    BY <2>2, <2>5, <2>10, <2>14 DEF Alike
  <2>17. ScreenSound(s, u)
    <3>1. ASSUME NEW d \in Screens!Revoking!Ids
          PROVE  RequestTrue(s, u.calls[d])
      <4>1. CASE d = n
        BY <2>10, <2>14, <4>1 DEF RequestTrue
      <4>2. CASE d # n
        <5>1. PICK a, b : a = t.calls[d] /\ b = u.calls[d]
          OBVIOUS
        <5>2. RequestTrue(s, a) /\ Alike(a, b)
          BY <1>1, <2>16, <4>2, <5>1 DEF ScreenSound
        <5>3. QED
          BY <5>1, <5>2, AlikeTrue
      <4>3. QED
        BY <4>1, <4>2
    <3>2. ShowsTrue(s, u)
      BY <1>1, <2>14, ShownSame DEF ScreenSound
    <3>3. QED
      BY <2>14, <3>1, <3>2 DEF ScreenSound
  <2>18. Numbered(u)
    <3>1. ASSUME NEW d \in Screens!Revoking!Ids, d > u.used
          PROVE  u.calls[d] = Screens!Revoking!NoCall
      <4>1. d > t.used /\ d # n
        BY <1>1, <2>3, <2>14, <3>1, RequestIds DEF ScreenLike
      <4>2. t.calls[d] = Screens!Revoking!NoCall /\ t.calls[d].client # "waiting"
        BY <1>1, <4>1, NoRequests DEF Numbered
      <4>3. v.calls[d] = t.calls[d]
        BY <2>2, <4>2
      <4>4. QED
        BY <2>5, <2>10, <2>14, <4>1, <4>2, <4>3
    <3>2. u.current \in Nat /\ u.current <= u.used /\ u.calls[u.current].kind # "revoke"
      BY <2>10, <2>14
    <3>3. QED
      BY <3>1, <3>2 DEF Numbered
  <2>19. Listing(u)
    BY <2>10, <2>14, <2>15 DEF Listing
  <2>20. QED
    BY <2>14, <2>15, <2>17, <2>18, <2>19 DEF ScreenGood
<1>4. QED
  BY <1>2, <1>3

(* The answer of a list, or that there will be none.                       *)
LEMMA ScreenListed ==
  ASSUME NEW s, NEW t, ScreenSound(s, t), Numbered(t), NEW c \in Screens!Revoking!Ids,
         Screens!Revoking!Pending(t) => Underway(t), t.listId # 0 /\ t.listId # c => Listing(t), NEW x,
         t.listId = c /\ x # Screens!Revoking!NoPage =>
           /\ ~Screens!Revoking!Pending(t) /\ StillShows(t.items, x.items)
           /\ \A p \in DOMAIN x.items : x.items[p] = "revoked" => p \in s,
         NEW u, u = Screens!Revoking!ListResult(t, c, x)
  PROVE  /\ ScreenGood(s, u) /\ u.calls = t.calls /\ u.revocation = t.revocation /\ u.listId # c
         /\ StillShows(t.items, u.items)
<1>1. ScreenLike(t) /\ PageLike(t) /\ c # 0 /\ ShowsTrue(s, t)
  BY RequestIds DEF ScreenSound, ScreenLike
<1>2. CASE t.listId # c
  <2>1. u = t
    BY <1>2 DEF Screens!Revoking!ListResult, Screens!Revoking!Accepts
  <2>2. QED
    BY <1>2, <2>1 DEF ScreenGood, StillShows
<1>3. CASE t.listId = c /\ x = Screens!Revoking!NoPage
  <2>1. u = [t EXCEPT !.listId = 0]
    BY <1>3 DEF Screens!Revoking!ListResult, Screens!Revoking!Accepts
  <2>2. /\ PageLike(u) /\ u.calls = t.calls /\ u.current = t.current /\ u.used = t.used /\ u.listId = 0
        /\ Besides(t, u)
    BY <1>1, <2>1 DEF PageLike, Besides
  <2>3. ScreenLike(u)
    BY <1>1, <2>2 DEF ScreenLike, Besides
  <2>4. ScreenSound(s, u)
    <3>1. ShowsTrue(s, u)
      BY <1>1, <2>2, ShownSame
    <3>2. QED
      BY <2>2, <2>3, <3>1 DEF ScreenSound
  <2>5. Numbered(u) /\ (Screens!Revoking!Pending(u) => Underway(u))
    BY <2>2 DEF Numbered, Screens!Revoking!Pending, Underway, Besides
  <2>6. QED
    BY <1>1, <2>2, <2>4, <2>5 DEF ScreenGood, StillShows, Besides
<1>4. CASE t.listId = c /\ x # Screens!Revoking!NoPage
  <2>1. PICK i : i = [p \in DOMAIN x.items |-> IF p \in t.confirmed THEN "revoked" ELSE x.items[p]]
    OBVIOUS
  <2>2. PICK m, g : m = x.next /\ g = t.calls[c].pages
    OBVIOUS
  <2>3. u = [t EXCEPT !.listId = 0, !.next = m, !.pages = g, !.items = i]
    BY <1>4, <2>1, <2>2 DEF Screens!Revoking!ListResult, Screens!Revoking!Accepts
  <2>4. /\ PageLike(u) /\ u.calls = t.calls /\ u.current = t.current /\ u.used = t.used /\ u.listId = 0
        /\ u.items = i /\ u.revocation = t.revocation /\ u.confirmed = t.confirmed
    BY <1>1, <2>3 DEF PageLike
  <2>5. ScreenLike(u)
    BY <1>1, <2>4 DEF ScreenLike
  <2>6. ShowsTrue(s, u)
    <3>1. ASSUME NEW p \in DOMAIN i, i[p] = "revoked"
          PROVE  p \in s
      <4>1. CASE p \in t.confirmed
        BY <1>1, <4>1 DEF ShowsTrue
      <4>2. CASE p \notin t.confirmed
        BY <1>4, <2>1, <3>1, <4>2
      <4>3. QED
        BY <4>1, <4>2
    <3>2. ASSUME NEW p \in t.confirmed
          PROVE  p \in s /\ (p \in DOMAIN i => i[p] = "revoked")
      BY <1>1, <2>1, <3>2 DEF ShowsTrue
    <3>3. QED
      BY <1>1, <2>4, <3>1, <3>2 DEF ShowsTrue
  <2>7. ScreenSound(s, u)
    BY <2>4, <2>5, <2>6 DEF ScreenSound
  <2>8. Numbered(u) /\ ~Screens!Revoking!Pending(u)
    BY <1>4, <2>4 DEF Numbered, Screens!Revoking!Pending
  <2>9. StillShows(t.items, i)
    <3>1. ASSUME NEW p \in DOMAIN t.items \cap DOMAIN i, t.items[p] = "revoked"
          PROVE  i[p] = "revoked"
      <4>1. p \in DOMAIN x.items /\ i[p] = IF p \in t.confirmed THEN "revoked" ELSE x.items[p]
        BY <2>1
      <4>2. x.items[p] = "revoked"
        BY <1>4, <3>1, <4>1 DEF StillShows
      <4>3. QED
        BY <4>1, <4>2
    <3>2. QED
      BY <3>1 DEF StillShows
  <2>10. QED
    BY <1>1, <2>4, <2>7, <2>8, <2>9 DEF ScreenGood
<1>5. QED
  BY <1>2, <1>3, <1>4

(* What the page learns of its revocation.                                 *)
Concerns(t, c) == Screens!Revoking!Pending(t) /\ t.revocation.id = c

LEMMA ScreenRevoked ==
  ASSUME NEW s, NEW t, ScreenSound(s, t), Numbered(t), NEW c \in Screens!Revoking!Ids,
         t.calls[c].kind = "revoke",
         Screens!Revoking!Pending(t) /\ t.revocation.id # c => Underway(t),
         Concerns(t, c) => t.revocation.of = t.calls[c].of,
         t.listId # 0 => Listing(t), NEW phase \in {"confirmed", "failed", "outcome-unknown"},
         phase = "confirmed" => t.calls[c].of \in s,
         NEW u, u = Screens!Revoking!RevokeResult(t, c, phase)
  PROVE  /\ ScreenGood(s, u) /\ u.calls = t.calls /\ u.used = t.used /\ u.listId = t.listId
         /\ ~Concerns(u, c) /\ StillShows(t.items, u.items)
<1>1. ScreenLike(t) /\ PageLike(t) /\ ShowsTrue(s, t) /\ t.calls[c].of \in Numbers
  BY DEF ScreenSound, ScreenLike, RequestTrue
<1>2. CASE ~Concerns(t, c)
  <2>1. u = t
    BY <1>2 DEF Screens!Revoking!RevokeResult, Screens!Revoking!IsAbout, Concerns
  <2>2. QED
    BY <1>2, <2>1 DEF ScreenGood, StillShows, Concerns
<1>3. CASE Concerns(t, c)
  <2>1. PICK b : b = t.calls[c].of
    OBVIOUS
  <2>2. Screens!Revoking!IsAbout(t, c) /\ t.revocation.of = b /\ t.listId = 0 /\ b \in Numbers
    BY <1>1, <1>3, <2>1 DEF Concerns, Screens!Revoking!IsAbout, Listing
  <2>3. PICK y : y = [of |-> b, phase |-> phase, id |-> 0]
    OBVIOUS
  <2>4. PICK v : v = [t EXCEPT !.revocation.phase = phase, !.revocation.id = 0]
    OBVIOUS
  <2>5. v = [t EXCEPT !.revocation = y]
    <3>1. PICK w : w = [t EXCEPT !.revocation.phase = phase]
      OBVIOUS
    <3>2. PICK a : a = [t.revocation EXCEPT !.phase = phase]
      OBVIOUS
    <3>3. w = [t EXCEPT !.revocation = a]
      BY <3>1, <3>2
    <3>4. v = [w EXCEPT !.revocation.id = 0]
      BY <2>4, <3>1
    <3>5. w.revocation = a
      BY <1>1, <3>3 DEF PageLike
    <3>6. [a EXCEPT !.id = 0] = y
      <4>1. PICK q : q = t.revocation
        OBVIOUS
      <4>2. q = [of |-> q.of, phase |-> q.phase, id |-> q.id] /\ q.of = b
        BY <1>1, <2>2, <4>1 DEF ScreenLike
      <4>3. a = [q EXCEPT !.phase = phase]
        BY <3>2, <4>1
      <4>4. a = [of |-> b, phase |-> phase, id |-> q.id]
        BY <4>2, <4>3
      <4>5. QED
        BY <2>3, <4>4
    <3>7. v = [w EXCEPT !.revocation = y]
      BY <3>4, <3>5, <3>6
    <3>8. QED
      BY <1>1, <3>3, <3>7 DEF PageLike
  <2>6. /\ PageLike(v) /\ v.calls = t.calls /\ v.current = t.current /\ v.used = t.used /\ v.listId = 0
        /\ v.items = t.items /\ v.revocation = y /\ v.confirmed = t.confirmed
    BY <1>1, <2>2, <2>5 DEF PageLike
  <2>7. CASE phase # "confirmed"
    <3>1. u = v
      BY <2>2, <2>4, <2>7 DEF Screens!Revoking!RevokeResult
    <3>2. ScreenLike(u)
      BY <1>1, <2>3, <2>6, <3>1 DEF ScreenLike
    <3>3. ShowsTrue(s, u)
      BY <1>1, <2>2, <2>3, <2>6, <2>7, <3>1 DEF ShowsTrue
    <3>4. ScreenSound(s, u)
      BY <2>6, <3>1, <3>2, <3>3 DEF ScreenSound
    <3>5. Numbered(u) /\ ~Screens!Revoking!Pending(u)
      BY <2>3, <2>6, <3>1 DEF Numbered, Screens!Revoking!Pending
    <3>6. QED
      BY <2>2, <2>6, <3>1, <3>4, <3>5 DEF ScreenGood, StillShows, Concerns
  <2>8. CASE phase = "confirmed"
    <3>1. PICK i, k : i = [p \in DOMAIN t.items |-> IF p = b THEN "revoked" ELSE t.items[p]]
                      /\ k = t.confirmed \cup {b}
      OBVIOUS
    <3>2. u = [v EXCEPT !.confirmed = k, !.items = i]
      <4>1. u = [v EXCEPT !.confirmed = v.confirmed \cup {b},
                          !.items = [p \in DOMAIN v.items |-> IF p = b THEN "revoked" ELSE v.items[p]]]
        BY <2>1, <2>2, <2>4, <2>6, <2>8 DEF Screens!Revoking!RevokeResult
      <4>2. QED
        BY <2>6, <3>1, <4>1
    <3>3. /\ PageLike(u) /\ u.calls = t.calls /\ u.current = t.current /\ u.used = t.used
          /\ u.listId = 0
          /\ u.items = i /\ u.revocation = y /\ u.confirmed = k
      BY <2>6, <3>2 DEF PageLike
    <3>4. ScreenLike(u)
      BY <1>1, <2>3, <3>3 DEF ScreenLike
    <3>5. /\ DOMAIN i = DOMAIN t.items
          /\ \A p \in DOMAIN i : i[p] = IF p = b THEN "revoked" ELSE t.items[p]
      BY <3>1
    <3>6. b \in s
      BY <2>1, <2>8
    <3>7. ShowsTrue(s, u)
      <4>1. \A p \in k : p = b \/ p \in t.confirmed
        BY <3>1
      <4>2. \A p \in k : p \in s /\ (p \in DOMAIN i => i[p] = "revoked")
        BY <1>1, <3>5, <3>6, <4>1 DEF ShowsTrue
      <4>3. \A p \in DOMAIN i : i[p] = "revoked" => p \in s
        BY <1>1, <3>5, <3>6 DEF ShowsTrue
      <4>4. QED
        BY <2>2, <2>3, <3>3, <3>6, <4>2, <4>3 DEF ShowsTrue
    <3>8. ScreenSound(s, u)
      BY <3>3, <3>4, <3>7 DEF ScreenSound
    <3>9. Numbered(u) /\ ~Screens!Revoking!Pending(u)
      BY <2>3, <2>8, <3>3 DEF Numbered, Screens!Revoking!Pending
    <3>10. StillShows(t.items, u.items)
      BY <3>3, <3>5 DEF StillShows
    <3>11. QED
      BY <2>2, <3>3, <3>8, <3>9, <3>10 DEF ScreenGood, Concerns
  <2>9. QED
    BY <2>7, <2>8
<1>4. QED
  BY <1>2, <1>3

(* An aborted call is one that the page no longer waits for.               *)
LEMMA ScreenGivesUp ==
  ASSUME NEW s, NEW t, ScreenSound(s, t), Numbered(t), NEW c, NEW u, u = Screens!Revoking!Aborted(t, c)
  PROVE  /\ ScreenSound(s, u) /\ Numbered(u) /\ Besides(t, u) /\ u.current = t.current
         /\ u.used = t.used /\ u.listId = t.listId /\ RequestAborted(t, u, c)
<1>1. ScreenLike(t)
  BY DEF ScreenSound
<1>2. /\ ScreenLike(u) /\ Besides(t, u) /\ u.current = t.current
      /\ u.used = t.used /\ u.listId = t.listId
      /\ RequestAborted(t, u, c)
  BY <1>1, ScreenAborted
<1>3. ScreenSound(s, u)
  <2>1. \A d \in Screens!Revoking!Ids : u.calls[d] = Screens!Revoking!Over
          \/ Alike(t.calls[d], u.calls[d])
    BY <1>2 DEF RequestAborted
  <2>2. QED
    BY <1>2, <2>1, SoundSame
<1>4. Numbered(u)
  <2>1. ASSUME NEW d \in Screens!Revoking!Ids, d > u.used
        PROVE  u.calls[d] = Screens!Revoking!NoCall
    <3>1. t.calls[d] = Screens!Revoking!NoCall
      BY <1>2, <2>1 DEF Numbered
    <3>2. QED
      BY <1>2, <3>1, NoRequests DEF RequestAborted
  <2>2. ASSUME u.current # 0
        PROVE  u.calls[u.current].kind # "revoke"
    <3>1. t.current \in Screens!Revoking!Ids
      BY <1>1, <1>2, <2>2, ScreenConstants DEF Numbered, ScreenLike, Screens!Revoking!Ids
    <3>2. QED
      BY <1>2, <2>2, <3>1 DEF Numbered, RequestAborted, Alike
  <2>3. QED
    BY <1>2, <2>1, <2>2 DEF Numbered
<1>5. QED
  BY <1>2, <1>3, <1>4

(* What other calls wait for stays so.                                     *)
LEMMA GivesUpUnderway ==
  ASSUME NEW t, NEW c, NEW u, RequestAborted(t, u, c), Besides(t, u),
         Underway(t), t.revocation.id # c
  PROVE  Underway(u)
BY DEF RequestAborted, Besides, Underway

LEMMA GivesUpListing ==
  ASSUME NEW t, NEW c, NEW u, RequestAborted(t, u, c), Besides(t, u), u.listId = t.listId,
         Listing(t), t.listId # c
  PROVE  Listing(u)
BY DEF RequestAborted, Besides, Listing, Screens!Revoking!Pending

-----------------------------------------------------------------------------
(* The server of the Principals.  A revocation is for good.                *)
LEMMA StaysTrue ==
  ASSUME NEW s, NEW q, s \subseteq q, NEW t
  PROVE  /\ ScreenSound(s, t) => ScreenSound(q, t)
         /\ ScreenGood(s, t) => ScreenGood(q, t)
<1>1. ScreenSound(s, t) => ScreenSound(q, t)
  BY DEF ScreenSound, RequestTrue, ShowsTrue
<1>2. QED
  BY <1>1 DEF ScreenGood

LEMMA RevokedStep ==
  ASSUME ScreenInv, NEW b \in Numbers, principals' = Screens!Revoking!Revoked(b)
  PROVE  /\ principals' = [p \in Numbers |-> principals'[p]]
         /\ Revoked \subseteq Revoked' /\ b \in Revoked'
<1>1. PICK s : s = [principals EXCEPT ![b] = "revoked"]
  OBVIOUS
<1>2. principals' = s
  BY <1>1 DEF Screens!Revoking!Revoked
<1>3. principals = [p \in Numbers |-> principals[p]]
  BY DEF ScreenInv
<1>4. /\ s = [p \in Numbers |-> s[p]] /\ s[b] = "revoked"
      /\ \A p \in Numbers : p # b => s[p] = principals[p]
  BY <1>1, <1>3
<1>5. \A p : p \in Revoked' <=> p \in Numbers /\ s[p] = "revoked"
  BY <1>2 DEF Revoked
<1>6. \A p : p \in Revoked <=> p \in Numbers /\ principals[p] = "revoked"
  BY DEF Revoked
<1>7. Revoked \subseteq Revoked' /\ b \in Revoked'
  BY <1>4, <1>5, <1>6
<1>8. QED
  BY <1>2, <1>4, <1>7

LEMMA RequestServed ==
  ASSUME ScreenInv, NEW q, Revoked \subseteq q, NEW c \in Screens!Revoking!Ids, NEW x,
         screen.calls[c].server = "coming",
         screen.calls[c].kind = "revoke" /\ x.ok => screen.calls[c].of \in q,
         screen.calls[c].kind = "list" => \A p \in DOMAIN x.items : x.items[p] = "revoked" <=> p \in q,
         NEW u, u = Screens!Revoking!Answers(c, x)
  PROVE  /\ ScreenSound(q, u) /\ u.gone = screen.gone /\ u.items = screen.items
         /\ ~u.gone => ScreenGood(q, u)
<1>1. PICK t : t = screen
  OBVIOUS
<1>2. /\ ScreenSound(q, t) /\ ScreenLike(t) /\ PageLike(t) /\ t.calls[c].server = "coming"
      /\ ~t.gone => ScreenGood(q, t)
  BY <1>1, StaysTrue DEF ScreenInv, ScreenSound, ScreenLike
<1>3. PICK z : z = [t.calls[c] EXCEPT !.server = "done", !.answer = x]
  OBVIOUS
<1>4. RequestLike(t.calls[c])
  BY <1>2 DEF ScreenLike
<1>5. /\ RequestLike(z) /\ z.kind = t.calls[c].kind /\ z.of = t.calls[c].of
      /\ z.client = t.calls[c].client
      /\ z.server = "done" /\ z.answer = x
  BY <1>3, <1>4 DEF RequestLike
<1>6. PICK y : y = IF t.calls[c].client = "ended" THEN Screens!Revoking!Over ELSE z
  OBVIOUS
<1>7. PICK cs : cs = [t.calls EXCEPT ![c] = y]
  OBVIOUS
<1>8. u = [t EXCEPT !.calls = cs]
  <2>1. u = [t EXCEPT !.calls[c] = IF t.calls[c].client = "ended" THEN Screens!Revoking!Over
                                   ELSE [t.calls[c] EXCEPT !.server = "done", !.answer = x]]
    BY <1>1, <1>2 DEF Screens!Revoking!Answers, PageLike
  <2>2. u = [t EXCEPT !.calls[c] = y]
    BY <1>3, <1>6, <2>1
  <2>3. QED
    BY <1>7, <2>2
<1>9. /\ PageLike(u) /\ u.calls = cs /\ Besides(t, u) /\ u.current = t.current /\ u.used = t.used
      /\ u.listId = t.listId
  BY <1>2, <1>8 DEF PageLike, Besides
<1>10. /\ cs = [d \in Screens!Revoking!Ids |-> cs[d]] /\ cs[c] = y
       /\ \A d \in Screens!Revoking!Ids : d # c => cs[d] = t.calls[d]
  BY <1>2, <1>7 DEF ScreenLike
<1>11. RequestLike(y) /\ RequestTrue(q, y)
  <2>1. RequestTrue(q, z)
    <3>1. z.kind = "revoke" => z.of \in Numbers
      BY <1>2, <1>5 DEF ScreenSound, RequestTrue
    <3>2. QED
      BY <1>1, <1>5, <3>1 DEF RequestTrue
  <2>2. CASE y = z
    BY <1>5, <2>1, <2>2
  <2>3. CASE y = Screens!Revoking!Over
    BY <2>3, OverTrue, NoRequests
  <2>4. QED
    BY <1>6, <2>2, <2>3
<1>12. ScreenLike(u)
  <2>1. \A d \in Screens!Revoking!Ids : RequestLike(cs[d])
    BY <1>2, <1>10, <1>11 DEF ScreenLike
  <2>2. QED
    BY <1>2, <1>9, <1>10, <2>1 DEF ScreenLike, Besides
<1>13. ScreenSound(q, u)
  <2>1. ASSUME NEW d \in Screens!Revoking!Ids
        PROVE  RequestTrue(q, u.calls[d])
    <3>1. CASE d = c
      BY <1>9, <1>10, <1>11, <3>1
    <3>2. CASE d # c
      BY <1>2, <1>9, <1>10, <3>2 DEF ScreenSound
    <3>3. QED
      BY <3>1, <3>2
  <2>2. ShowsTrue(q, u)
    BY <1>2, <1>9, ShownSame DEF ScreenSound
  <2>3. QED
    BY <1>12, <2>1, <2>2 DEF ScreenSound
<1>14. u.gone = t.gone /\ u.items = t.items
  BY <1>9 DEF Besides
<1>15. ASSUME ~u.gone
       PROVE  ScreenGood(q, u)
  <2>1. ScreenGood(q, t) /\ Numbered(t)
    BY <1>2, <1>14, <1>15 DEF ScreenGood
  <2>2. Numbered(u)
    <3>1. ASSUME NEW d \in Screens!Revoking!Ids, d > u.used
          PROVE  u.calls[d] = Screens!Revoking!NoCall
      <4>1. t.calls[d] = Screens!Revoking!NoCall
        BY <1>9, <2>1, <3>1 DEF Numbered
      <4>2. Screens!Revoking!NoCall.server # "coming"
        BY DEF Screens!Revoking!NoCall
      <4>3. d # c
        BY <1>2, <4>1, <4>2
      <4>4. QED
        BY <1>9, <1>10, <4>1, <4>3
    <3>2. ASSUME u.current # 0
          PROVE  u.calls[u.current].kind # "revoke"
      <4>1. t.current \in Screens!Revoking!Ids
        BY <1>2, <1>9, <2>1, <3>2, ScreenConstants DEF Numbered, ScreenLike, Screens!Revoking!Ids
      <4>2. t.calls[t.current].kind # "revoke"
        BY <1>9, <2>1, <3>2 DEF Numbered
      <4>3. y.kind = t.calls[c].kind \/ y.kind = "none"
        BY <1>5, <1>6, NoRequests
      <4>4. QED
        BY <1>9, <1>10, <4>1, <4>2, <4>3
    <3>3. QED
      BY <1>9, <2>1, <3>1, <3>2 DEF Numbered
  <2>3. ASSUME Screens!Revoking!Pending(u)
        PROVE  Underway(u)
    <3>1. Underway(t) /\ u.revocation = t.revocation
      BY <1>9, <2>1, <2>3, PendingSame DEF ScreenGood, Besides
    <3>2. CASE t.revocation.id = c
      <4>1. y = z
        BY <1>6, <3>1, <3>2 DEF Underway
      <4>2. QED
        BY <1>5, <1>9, <1>10, <3>1, <3>2, <4>1 DEF Underway
    <3>3. CASE t.revocation.id # c
      BY <1>9, <1>10, <3>1, <3>3 DEF Underway
    <3>4. QED
      BY <3>2, <3>3
  <2>4. ASSUME u.listId # 0
        PROVE  Listing(u)
    <3>1. Listing(t)
      BY <1>9, <2>1, <2>4 DEF ScreenGood
    <3>2. ~Screens!Revoking!Pending(u) /\ u.items = t.items
      BY <1>9, <3>1, PendingSame DEF Listing, Besides
    <3>3. CASE t.listId = c
      <4>1. y = z /\ t.calls[c].kind = "list" /\ t.calls[c].client = "waiting"
        BY <1>6, <3>1, <3>3 DEF Listing
      <4>2. StillShows(t.items, x.items)
        <5>1. \A p \in DOMAIN t.items : t.items[p] = "revoked" => p \in q
          BY <1>2 DEF ScreenSound, ShowsTrue
        <5>2. QED
          BY <1>1, <4>1, <5>1 DEF StillShows
      <4>3. QED
        BY <1>5, <1>9, <1>10, <3>1, <3>2, <3>3, <4>1, <4>2 DEF Listing
    <3>4. CASE t.listId # c
      BY <1>9, <1>10, <3>1, <3>2, <3>4 DEF Listing
    <3>5. QED
      BY <3>3, <3>4
  <2>5. QED
    BY <1>13, <2>2, <2>3, <2>4 DEF ScreenGood
<1>16. QED
  BY <1>1, <1>13, <1>14, <1>15

LEMMA ScreenKeeps ==
  ASSUME screen'.items = screen.items
  PROVE  Screens!Revoking!Onward
BY DEF Screens!Revoking!Onward

LEMMA ListStands ==
  ASSUME ScreenInv, NEW n, NEW x, x = Screens!Revoking!Listed(n)
  PROVE  \A p \in DOMAIN x.items : x.items[p] = "revoked" <=> p \in Revoked
<1>1. PICK i : i \subseteq Numbers /\ x.items = [p \in i |-> principals[p]]
  <2>1. PICK r : r = {p \in Numbers : p > n}
    OBVIOUS
  <2>2. PICK i : i = {p \in r : Screens!Revoking!Cardinality({z \in r : z <= p}) <= Size}
    OBVIOUS
  <2>3. x.items = [p \in i |-> principals[p]]
    BY <2>1, <2>2 DEF Screens!Revoking!Listed
  <2>4. QED
    BY <2>1, <2>2, <2>3
<1>2. QED
  BY <1>1 DEF Revoked

LEMMA ScreenServer ==
  ASSUME ScreenInv, Screens!Revoking!Server
  PROVE  ScreenInv' /\ Screens!Revoking!Onward
<1>1. ASSUME NEW b \in Acted, Screens!Revoking!RevokedElsewhere(b)
      PROVE  ScreenInv' /\ Screens!Revoking!Onward
  <2>1. b \in Numbers /\ principals' = Screens!Revoking!Revoked(b) /\ screen' = screen
    BY <1>1, ScreenConstants DEF Screens!Revoking!RevokedElsewhere
  <2>2. principals' = [p \in Numbers |-> principals'[p]] /\ Revoked \subseteq Revoked'
    BY <2>1, RevokedStep
  <2>3. PICK q : q = Revoked'
    OBVIOUS
  <2>4. ScreenSound(q, screen) /\ (~screen.gone => ScreenGood(q, screen))
    BY <2>2, <2>3, StaysTrue DEF ScreenInv
  <2>5. ScreenInv'
    BY <2>1, <2>2, <2>3, <2>4 DEF ScreenInv
  <2>6. QED
    BY <2>1, <2>5, ScreenKeeps
<1>2. ASSUME NEW c \in Screens!Revoking!Ids, Screens!Revoking!ServeList(c)
      PROVE  ScreenInv' /\ Screens!Revoking!Onward
  <2>1. PICK n : n = screen.calls[c].pages.cursors[screen.calls[c].pages.page]
    OBVIOUS
  <2>2. PICK x : x = Screens!Revoking!Listed(n)
    OBVIOUS
  <2>3. PICK u : u = Screens!Revoking!Answers(c, x)
    OBVIOUS
  <2>4. /\ screen.calls[c].kind = "list" /\ screen.calls[c].server = "coming"
        /\ screen' = u /\ principals' = principals
    BY <1>2, <2>1, <2>2, <2>3 DEF Screens!Revoking!ServeList, Screens!Revoking!Coming
  <2>5. PICK q : q = Revoked
    OBVIOUS
  <2>6. Revoked' = q
    BY <2>4, <2>5 DEF Revoked
  <2>7. \A p \in DOMAIN x.items : x.items[p] = "revoked" <=> p \in q
    BY <2>2, <2>5, ListStands
  <2>8. Revoked \subseteq q
    BY <2>5
  <2>9. /\ ScreenSound(q, u) /\ u.gone = screen.gone /\ u.items = screen.items
        /\ ~u.gone => ScreenGood(q, u)
    BY <2>3, <2>4, <2>7, <2>8, RequestServed
  <2>10. ScreenInv'
    BY <2>4, <2>6, <2>9 DEF ScreenInv
  <2>11. QED
    BY <2>4, <2>9, <2>10, ScreenKeeps
<1>3. ASSUME NEW c \in Screens!Revoking!Ids, Screens!Revoking!ServeRevocation(c)
      PROVE  ScreenInv' /\ Screens!Revoking!Onward
  <2>1. PICK b : b = screen.calls[c].of
    OBVIOUS
  <2>2. screen.calls[c].kind = "revoke" /\ screen.calls[c].server = "coming" /\ b \in Numbers
    BY <1>3, <2>1
       DEF Screens!Revoking!ServeRevocation, Screens!Revoking!Coming, ScreenInv, ScreenSound,
         RequestTrue
  <2>3. PICK x : /\ screen' = Screens!Revoking!Answers(c, x)
                 /\ \/ principals' = Screens!Revoking!Revoked(b)
                    \/ principals' = principals /\ x = Screens!Revoking!NoPage
    BY <1>3, <2>1 DEF Screens!Revoking!ServeRevocation
  <2>4. PICK u : u = Screens!Revoking!Answers(c, x)
    OBVIOUS
  <2>5. PICK q : q = Revoked'
    OBVIOUS
  <2>6. /\ principals' = [p \in Numbers |-> principals'[p]] /\ Revoked \subseteq q
        /\ x.ok => b \in q
    <3>1. CASE principals' = Screens!Revoking!Revoked(b)
      BY <2>2, <2>5, <3>1, RevokedStep
    <3>2. CASE principals' = principals /\ x = Screens!Revoking!NoPage
      <4>1. ~x.ok
        BY <3>2 DEF Screens!Revoking!NoPage
      <4>2. Revoked' = Revoked
        BY <3>2 DEF Revoked
      <4>3. QED
        BY <2>5, <3>2, <4>1, <4>2 DEF ScreenInv
    <3>3. QED
      BY <2>3, <3>1, <3>2
  <2>7. screen.calls[c].kind # "list"
    BY <2>2
  <2>8. /\ ScreenSound(q, u) /\ u.gone = screen.gone /\ u.items = screen.items
        /\ ~u.gone => ScreenGood(q, u)
    BY <2>1, <2>2, <2>4, <2>6, <2>7, RequestServed
  <2>9. ScreenInv'
    BY <2>3, <2>4, <2>5, <2>6, <2>8 DEF ScreenInv
  <2>10. QED
    BY <2>3, <2>4, <2>8, <2>9, ScreenKeeps
<1>4. QED
  BY <1>1, <1>2, <1>3 DEF Screens!Revoking!Server

-----------------------------------------------------------------------------
(* The calls of the page of Principals.                                    *)
LEMMA ScreenMoves ==
  ASSUME ScreenInv, NEW u, Screens!Revoking!Client(u), ScreenGood(Revoked, u),
         StillShows(screen.items, u.items)
  PROVE  ScreenInv' /\ Screens!Revoking!Onward
<1>1. screen' = u /\ principals' = principals
  BY DEF Screens!Revoking!Client
<1>2. PICK q : q = Revoked
  OBVIOUS
<1>3. Revoked' = q
  BY <1>1, <1>2 DEF Revoked
<1>4. ScreenSound(q, u) /\ ScreenGood(q, u)
  BY <1>2 DEF ScreenGood
<1>5. ScreenInv'
  BY <1>1, <1>3, <1>4 DEF ScreenInv
<1>6. Screens!Revoking!Onward
  BY <1>1 DEF Screens!Revoking!Onward, StillShows
<1>7. QED
  BY <1>5, <1>6

LEMMA ScreenHere ==
  ASSUME ScreenInv, NEW u, Screens!Revoking!Client(u)
  PROVE  /\ ScreenGood(Revoked, screen) /\ ScreenSound(Revoked, screen) /\ Numbered(screen)
         /\ ScreenLike(screen) /\ PageLike(screen)
         /\ Screens!Revoking!Pending(screen) => Underway(screen)
         /\ screen.listId # 0 => Listing(screen)
BY DEF ScreenInv, ScreenGood, ScreenSound, ScreenLike, Screens!Revoking!Client

LEMMA ListOver ==
  ASSUME NEW s, NEW t, ScreenGood(s, t), NEW c \in Screens!Revoking!Ids, t.calls[c].kind = "list",
         t.listId # c,
         NEW u, u = Screens!Revoking!Ends(t, c)
  PROVE  ScreenGood(s, u) /\ u.items = t.items
<1>1. ~(Screens!Revoking!Pending(t) /\ t.revocation.id = c)
  BY DEF ScreenGood, Underway
<1>2. ScreenGood(s, u) /\ Besides(t, u)
  BY <1>1, RequestEnds
<1>3. QED
  BY <1>2 DEF Besides

LEMMA PageListAnswered ==
  ASSUME ScreenInv, NEW c \in Screens!Revoking!Ids, Screens!Revoking!ListAnswered(c)
  PROVE  ScreenInv' /\ Screens!Revoking!Onward
<1>1. PICK x : x = screen.calls[c].answer
  OBVIOUS
<1>2. PICK u : u = Screens!Revoking!ListResult(screen, c, x)
  OBVIOUS
<1>3. PICK v : v = Screens!Revoking!Ends(u, c)
  OBVIOUS
<1>4. Screens!Revoking!Client(v) /\ screen.calls[c].kind = "list" /\ screen.calls[c].server = "done"
  BY <1>1, <1>2, <1>3 DEF Screens!Revoking!ListAnswered, Screens!Revoking!Open
<1>5. PICK s, t : s = Revoked /\ t = screen
  OBVIOUS
<1>6. /\ ScreenSound(s, t) /\ Numbered(t)
      /\ Screens!Revoking!Pending(t) => Underway(t)
      /\ t.listId # 0 => Listing(t)
  BY <1>4, <1>5, ScreenHere
<1>7. t.listId = c /\ x # Screens!Revoking!NoPage =>
        /\ ~Screens!Revoking!Pending(t) /\ StillShows(t.items, x.items)
        /\ \A p \in DOMAIN x.items : x.items[p] = "revoked" => p \in s
  <2>1. \A p \in DOMAIN x.items : x.items[p] = "revoked" => p \in s
    BY <1>1, <1>4, <1>5, <1>6 DEF ScreenSound, RequestTrue
  <2>2. c # 0
    BY RequestIds
  <2>3. t.listId = c => ~Screens!Revoking!Pending(t) /\ StillShows(t.items, x.items)
    BY <1>1, <1>4, <1>5, <1>6, <2>2 DEF Listing
  <2>4. QED
    BY <2>1, <2>3
<1>8. u = Screens!Revoking!ListResult(t, c, x)
  BY <1>2, <1>5
<1>9. t.listId # 0 /\ t.listId # c => Listing(t)
  BY <1>6
<1>10. /\ ScreenGood(s, u) /\ u.calls = t.calls /\ u.revocation = t.revocation /\ u.listId # c
       /\ StillShows(t.items, u.items)
  BY <1>6, <1>7, <1>8, <1>9, ScreenListed
<1>11. u.calls[c].kind = "list"
  BY <1>4, <1>5, <1>10
<1>12. ScreenGood(s, v) /\ v.items = u.items
  BY <1>3, <1>10, <1>11, ListOver
<1>13. ScreenGood(Revoked, v) /\ StillShows(screen.items, v.items)
  BY <1>5, <1>10, <1>12
<1>14. QED
  BY <1>4, <1>13, ScreenMoves

LEMMA PageListFailed ==
  ASSUME ScreenInv, NEW c \in Screens!Revoking!Ids, Screens!Revoking!ListFailed(c)
  PROVE  ScreenInv' /\ Screens!Revoking!Onward
<1>1. PICK x : x = Screens!Revoking!NoPage
  OBVIOUS
<1>2. PICK u : u = Screens!Revoking!ListResult(screen, c, x)
  OBVIOUS
<1>3. PICK v : v = Screens!Revoking!Ends(u, c)
  OBVIOUS
<1>4. Screens!Revoking!Client(v) /\ screen.calls[c].kind = "list"
  BY <1>1, <1>2, <1>3 DEF Screens!Revoking!ListFailed, Screens!Revoking!Open
<1>5. PICK s, t : s = Revoked /\ t = screen
  OBVIOUS
<1>6. /\ ScreenSound(s, t) /\ Numbered(t)
      /\ Screens!Revoking!Pending(t) => Underway(t)
      /\ t.listId # 0 => Listing(t)
  BY <1>4, <1>5, ScreenHere
<1>7. t.listId = c /\ x # Screens!Revoking!NoPage =>
        /\ ~Screens!Revoking!Pending(t) /\ StillShows(t.items, x.items)
        /\ \A p \in DOMAIN x.items : x.items[p] = "revoked" => p \in s
  BY <1>1
<1>8. u = Screens!Revoking!ListResult(t, c, x)
  BY <1>2, <1>5
<1>9. t.listId # 0 /\ t.listId # c => Listing(t)
  BY <1>6
<1>10. /\ ScreenGood(s, u) /\ u.calls = t.calls /\ u.revocation = t.revocation /\ u.listId # c
       /\ StillShows(t.items, u.items)
  BY <1>6, <1>7, <1>8, <1>9, ScreenListed
<1>11. u.calls[c].kind = "list"
  BY <1>4, <1>5, <1>10
<1>12. ScreenGood(s, v) /\ v.items = u.items
  BY <1>3, <1>10, <1>11, ListOver
<1>13. ScreenGood(Revoked, v) /\ StillShows(screen.items, v.items)
  BY <1>5, <1>10, <1>12
<1>14. QED
  BY <1>4, <1>13, ScreenMoves

LEMMA PageListTimedOut ==
  ASSUME ScreenInv, NEW c \in Screens!Revoking!Ids, Screens!Revoking!ListTimedOut(c)
  PROVE  ScreenInv' /\ Screens!Revoking!Onward
<1>1. PICK x : x = Screens!Revoking!NoPage
  OBVIOUS
<1>2. PICK t : t = Screens!Revoking!Aborted(screen, c)
  OBVIOUS
<1>3. PICK u : u = Screens!Revoking!ListResult(t, c, x)
  OBVIOUS
<1>4. Screens!Revoking!Client(u) /\ screen.calls[c].kind = "list"
  BY <1>1, <1>2, <1>3 DEF Screens!Revoking!ListTimedOut, Screens!Revoking!Waits
<1>5. PICK s : s = Revoked
  OBVIOUS
<1>6. /\ ScreenSound(s, screen) /\ Numbered(screen)
      /\ Screens!Revoking!Pending(screen) => Underway(screen)
      /\ screen.listId # 0 => Listing(screen)
  BY <1>4, <1>5, ScreenHere
<1>7. /\ ScreenSound(s, t) /\ Numbered(t) /\ Besides(screen, t) /\ t.current = screen.current
      /\ t.used = screen.used /\ t.listId = screen.listId /\ RequestAborted(screen, t, c)
  BY <1>2, <1>6, ScreenGivesUp
<1>8. ASSUME Screens!Revoking!Pending(t)
      PROVE  Underway(t)
  <2>1. Underway(screen)
    BY <1>6, <1>7, <1>8, PendingSame
  <2>2. screen.revocation.id # c
    BY <1>4, <2>1 DEF Underway
  <2>3. QED
    BY <1>7, <2>1, <2>2, GivesUpUnderway
<1>9. ASSUME t.listId # 0 /\ t.listId # c
      PROVE  Listing(t)
  <2>1. Listing(screen) /\ screen.listId # c
    BY <1>6, <1>7, <1>9
  <2>2. QED
    BY <1>7, <2>1, GivesUpListing
<1>10. t.listId = c /\ x # Screens!Revoking!NoPage =>
        /\ ~Screens!Revoking!Pending(t) /\ StillShows(t.items, x.items)
        /\ \A p \in DOMAIN x.items : x.items[p] = "revoked" => p \in s
  BY <1>1
<1>11. Screens!Revoking!Pending(t) => Underway(t)
  BY <1>8
<1>12. t.listId # 0 /\ t.listId # c => Listing(t)
  BY <1>9
<1>13. ScreenGood(s, u) /\ StillShows(t.items, u.items)
  BY <1>3, <1>7, <1>10, <1>11, <1>12, ScreenListed
<1>14. ScreenGood(Revoked, u) /\ StillShows(screen.items, u.items)
  BY <1>5, <1>7, <1>13 DEF Besides
<1>15. QED
  BY <1>4, <1>14, ScreenMoves

(* A call of a revocation that is done: what the page learns of it.        *)
LEMMA RevocationKnown ==
  ASSUME ScreenInv, NEW v, Screens!Revoking!Client(v), NEW c \in Screens!Revoking!Ids,
         screen.calls[c].kind = "revoke",
         NEW phase \in {"confirmed", "failed", "outcome-unknown"},
         phase = "confirmed" => screen.calls[c].of \in Revoked,
         NEW u, u = Screens!Revoking!RevokeResult(screen, c, phase), NEW y,
           y = Screens!Revoking!Ends(u, c)
  PROVE  /\ ScreenGood(Revoked, y) /\ y.used = screen.used
         /\ StillShows(screen.items, u.items) /\ Besides(u, y)
<1>1. PICK s, t : s = Revoked /\ t = screen
  OBVIOUS
<1>2. /\ ScreenSound(s, t) /\ Numbered(t)
      /\ Screens!Revoking!Pending(t) => Underway(t)
      /\ t.listId # 0 => Listing(t)
  BY <1>1, ScreenHere
<1>3. t.calls[c].kind = "revoke" /\ (phase = "confirmed" => t.calls[c].of \in s)
  BY <1>1
<1>4. Screens!Revoking!Pending(t) /\ t.revocation.id # c => Underway(t)
  BY <1>2
<1>5. Concerns(t, c) => t.revocation.of = t.calls[c].of
  BY <1>2 DEF Concerns, Underway
<1>6. u = Screens!Revoking!RevokeResult(t, c, phase)
  BY <1>1
<1>7. /\ ScreenGood(s, u) /\ u.calls = t.calls /\ u.used = t.used /\ u.listId = t.listId
      /\ ~Concerns(u, c) /\ StillShows(t.items, u.items)
  BY <1>2, <1>3, <1>4, <1>5, <1>6, ScreenRevoked
<1>8. c # u.listId
  <2>1. c # 0
    BY RequestIds
  <2>2. u.listId = c => Listing(t) /\ t.listId = c
    BY <1>2, <1>7, <2>1
  <2>3. QED
    BY <1>3, <2>2 DEF Listing
<1>9. u.calls[c].kind # "none" /\ ~(Screens!Revoking!Pending(u) /\ u.revocation.id = c)
  BY <1>3, <1>7 DEF Concerns
<1>10. ScreenGood(s, y) /\ Besides(u, y) /\ y.used = u.used
  BY <1>7, <1>8, <1>9, RequestEnds
<1>11. QED
  BY <1>1, <1>7, <1>10

LEMMA PageRevokeConfirmed ==
  ASSUME ScreenInv, NEW c \in Screens!Revoking!Ids, Screens!Revoking!RevokeConfirmed(c)
  PROVE  ScreenInv' /\ Screens!Revoking!Onward
<1>1. PICK phase : phase = "confirmed"
  OBVIOUS
<1>2. PICK u : u = Screens!Revoking!RevokeResult(screen, c, phase)
  OBVIOUS
<1>3. PICK v : v = Screens!Revoking!AfterAnswer(u, c)
  OBVIOUS
<1>4. /\ Screens!Revoking!Client(v) /\ screen.calls[c].kind = "revoke"
      /\ screen.calls[c].server = "done"
      /\ screen.calls[c].answer.ok /\ (screen.used < ScreenCalls \/ u.revocation.phase # "confirmed")
  BY <1>1, <1>2, <1>3 DEF Screens!Revoking!RevokeConfirmed, Screens!Revoking!Open, Screens!Revoking!Room
<1>5. phase = "confirmed" => screen.calls[c].of \in Revoked
  BY <1>4 DEF ScreenInv, ScreenSound, RequestTrue
<1>6. PICK y : y = Screens!Revoking!Ends(u, c)
  OBVIOUS
<1>7. phase \in {"confirmed", "failed", "outcome-unknown"}
  BY <1>1
<1>8. /\ ScreenGood(Revoked, y) /\ y.used = screen.used
      /\ StillShows(screen.items, u.items) /\ Besides(u, y)
  BY <1>2, <1>4, <1>5, <1>6, <1>7, RevocationKnown
<1>9. PICK p : p = u.pages
  OBVIOUS
<1>10. (v = Screens!Revoking!Load(y, p) /\ y.used < ScreenCalls) \/ v = y
  BY <1>3, <1>4, <1>6, <1>8, <1>9 DEF Screens!Revoking!AfterAnswer
<1>11. ScreenGood(Revoked, v) /\ v.items = u.items
  <2>1. CASE v = y
    BY <1>8, <2>1 DEF Besides
  <2>2. CASE v = Screens!Revoking!Load(y, p) /\ y.used < ScreenCalls
    <3>1. PICK s : s = Revoked
      OBVIOUS
    <3>2. ScreenGood(s, y)
      BY <1>8, <3>1
    <3>3. ScreenGood(s, v) /\ Besides(y, v)
      BY <2>2, <3>2, ScreenLoad
    <3>4. QED
      BY <1>8, <3>1, <3>3 DEF Besides
  <2>3. QED
    BY <1>10, <2>1, <2>2
<1>12. StillShows(screen.items, v.items)
  BY <1>8, <1>11
<1>13. QED
  BY <1>4, <1>11, <1>12, ScreenMoves

LEMMA PageRevokeUnsure ==
  ASSUME ScreenInv, NEW c \in Screens!Revoking!Ids,
         Screens!Revoking!RevokeRefused(c) \/ Screens!Revoking!RevokeFailed(c)
  PROVE  ScreenInv' /\ Screens!Revoking!Onward
<1>1. PICK phase \in {"failed", "outcome-unknown"} :
        Screens!Revoking!Client(Screens!Revoking!Ends(Screens!Revoking!RevokeResult(screen, c, phase),
          c))
  BY DEF Screens!Revoking!RevokeRefused, Screens!Revoking!RevokeFailed
<1>2. PICK u : u = Screens!Revoking!RevokeResult(screen, c, phase)
  OBVIOUS
<1>3. PICK y : y = Screens!Revoking!Ends(u, c)
  OBVIOUS
<1>4. Screens!Revoking!Client(y)
  BY <1>1, <1>2, <1>3
<1>5. screen.calls[c].kind = "revoke"
  BY DEF Screens!Revoking!RevokeRefused, Screens!Revoking!RevokeFailed, Screens!Revoking!Open
<1>6. phase \in {"confirmed", "failed", "outcome-unknown"} /\ phase # "confirmed"
  BY <1>1
<1>7. /\ ScreenGood(Revoked, y) /\ y.used = screen.used
      /\ StillShows(screen.items, u.items) /\ Besides(u, y)
  BY <1>2, <1>3, <1>4, <1>5, <1>6, RevocationKnown
<1>8. StillShows(screen.items, y.items)
  BY <1>7 DEF Besides
<1>9. QED
  BY <1>4, <1>7, <1>8, ScreenMoves

LEMMA PageRevokeTimedOut ==
  ASSUME ScreenInv, NEW c \in Screens!Revoking!Ids, Screens!Revoking!RevokeTimedOut(c)
  PROVE  ScreenInv' /\ Screens!Revoking!Onward
<1>1. PICK phase : phase = "outcome-unknown"
  OBVIOUS
<1>2. PICK t : t = Screens!Revoking!Aborted(screen, c)
  OBVIOUS
<1>3. PICK u : u = Screens!Revoking!RevokeResult(t, c, phase)
  OBVIOUS
<1>4. Screens!Revoking!Client(u) /\ screen.calls[c].kind = "revoke"
  BY <1>1, <1>2, <1>3 DEF Screens!Revoking!RevokeTimedOut, Screens!Revoking!Waits
<1>5. PICK s : s = Revoked
  OBVIOUS
<1>6. /\ ScreenSound(s, screen) /\ Numbered(screen)
      /\ Screens!Revoking!Pending(screen) => Underway(screen)
      /\ screen.listId # 0 => Listing(screen)
  BY <1>4, <1>5, ScreenHere
<1>7. /\ ScreenSound(s, t) /\ Numbered(t) /\ Besides(screen, t) /\ t.current = screen.current
      /\ t.used = screen.used /\ t.listId = screen.listId /\ RequestAborted(screen, t, c)
  BY <1>2, <1>6, ScreenGivesUp
<1>8. ASSUME Screens!Revoking!Pending(t), t.revocation.id # c
      PROVE  Underway(t)
  <2>1. Underway(screen) /\ screen.revocation.id # c
    BY <1>6, <1>7, <1>8, PendingSame DEF Besides
  <2>2. QED
    BY <1>7, <2>1, GivesUpUnderway
<1>9. ASSUME t.listId # 0
      PROVE  Listing(t)
  <2>1. Listing(screen) /\ screen.listId # c
    BY <1>4, <1>6, <1>7, <1>9 DEF Listing
  <2>2. QED
    BY <1>7, <2>1, GivesUpListing
<1>10. t.calls[c].kind = "revoke"
  BY <1>4, <1>7 DEF RequestAborted, Alike
<1>11. Concerns(t, c) => t.revocation.of = t.calls[c].of
  <2>1. ASSUME Concerns(t, c)
        PROVE  t.revocation.of = t.calls[c].of
    <3>1. Underway(screen) /\ screen.revocation.id = c /\ t.revocation = screen.revocation
      BY <1>6, <1>7, <2>1, PendingSame DEF Besides, Concerns
    <3>2. QED
      BY <1>7, <3>1 DEF RequestAborted, Alike, Underway
  <2>2. QED
    BY <2>1
<1>12. phase \in {"confirmed", "failed", "outcome-unknown"} /\ phase # "confirmed"
  BY <1>1
<1>13. Screens!Revoking!Pending(t) /\ t.revocation.id # c => Underway(t)
  BY <1>8
<1>14. t.listId # 0 => Listing(t)
  BY <1>9
<1>15. ScreenGood(s, u) /\ StillShows(t.items, u.items)
  BY <1>3, <1>7, <1>10, <1>11, <1>12, <1>13, <1>14, ScreenRevoked
<1>16. ScreenGood(Revoked, u) /\ StillShows(screen.items, u.items)
  BY <1>5, <1>7, <1>15 DEF Besides
<1>17. QED
  BY <1>4, <1>16, ScreenMoves

-----------------------------------------------------------------------------
(* The person on the page of Principals.                                   *)
LEMMA OtherRevocation ==
  ASSUME NEW s, NEW t, ScreenGood(s, t), ~Screens!Revoking!Pending(t), NEW y,
         y = [of |-> y.of, phase |-> y.phase, id |-> y.id], y.phase \notin {"pending", "confirmed"},
         y.phase # "none" => y.of \in Numbers, NEW u, u = [t EXCEPT !.revocation = y]
  PROVE  ScreenGood(s, u) /\ u.items = t.items
<1>1. ScreenLike(t) /\ PageLike(t) /\ ShowsTrue(s, t) /\ ScreenSound(s, t) /\ Numbered(t)
  BY DEF ScreenGood, ScreenSound, ScreenLike
<1>2. /\ PageLike(u) /\ u.calls = t.calls /\ u.current = t.current /\ u.used = t.used
      /\ u.listId = t.listId /\ u.items = t.items /\ u.revocation = y /\ u.confirmed = t.confirmed
  BY <1>1 DEF PageLike
<1>3. ScreenLike(u)
  BY <1>1, <1>2 DEF ScreenLike
<1>4. ShowsTrue(s, u)
  BY <1>1, <1>2 DEF ShowsTrue
<1>5. ScreenSound(s, u)
  BY <1>1, <1>2, <1>3, <1>4 DEF ScreenSound
<1>6. Numbered(u) /\ ~Screens!Revoking!Pending(u)
  BY <1>1, <1>2 DEF Numbered, Screens!Revoking!Pending
<1>7. u.listId # 0 => Listing(u)
  BY <1>2, <1>6 DEF ScreenGood, Listing
<1>8. QED
  BY <1>2, <1>5, <1>6, <1>7 DEF ScreenGood

LEMMA PageChooses ==
  ASSUME ScreenInv, (\E p \in Acted : Screens!Revoking!Select(p)) \/ Screens!Revoking!Cancel
  PROVE  ScreenInv' /\ Screens!Revoking!Onward
<1>1. PICK y : /\ ~Screens!Revoking!Pending(screen)
               /\ Screens!Revoking!Client([screen EXCEPT !.revocation = y])
               /\ y = [of |-> y.of, phase |-> y.phase, id |-> y.id]
               /\ y.phase \notin {"pending", "confirmed"}
               /\ y.phase # "none" => y.of \in Numbers
  <2>1. CASE \E p \in Acted : Screens!Revoking!Select(p)
    <3>1. PICK p \in Numbers : Screens!Revoking!Select(p)
      BY <2>1, ScreenConstants
    <3>2. PICK y : y = [of |-> p, phase |-> "confirming", id |-> 0]
      OBVIOUS
    <3>3. ~Screens!Revoking!Pending(screen) /\ Screens!Revoking!Client([screen EXCEPT !.revocation = y])
      BY <3>1, <3>2 DEF Screens!Revoking!Select
    <3>4. /\ y = [of |-> y.of, phase |-> y.phase, id |-> y.id]
          /\ y.phase \notin {"pending", "confirmed"} /\ (y.phase # "none" => y.of \in Numbers)
      BY <3>2
    <3>5. QED
      BY <3>3, <3>4
  <2>2. CASE Screens!Revoking!Cancel
    <3>1. PICK y : y = Screens!Revoking!NoRevocation
      OBVIOUS
    <3>2. ~Screens!Revoking!Pending(screen) /\ Screens!Revoking!Client([screen EXCEPT !.revocation = y])
      BY <2>2, <3>1 DEF Screens!Revoking!Cancel
    <3>3. y = [of |-> y.of, phase |-> y.phase, id |-> y.id] /\ y.phase = "none"
      BY <3>1 DEF Screens!Revoking!NoRevocation
    <3>4. QED
      BY <3>2, <3>3
  <2>3. QED
    BY <2>1, <2>2
<1>2. PICK u : u = [screen EXCEPT !.revocation = y]
  OBVIOUS
<1>3. Screens!Revoking!Client(u)
  BY <1>1, <1>2
<1>4. PICK s, t : s = Revoked /\ t = screen
  OBVIOUS
<1>5. ScreenGood(s, t) /\ ~Screens!Revoking!Pending(t) /\ u = [t EXCEPT !.revocation = y]
  BY <1>1, <1>2, <1>3, <1>4, ScreenHere
<1>6. ScreenGood(s, u) /\ u.items = t.items
  BY <1>1, <1>5, OtherRevocation
<1>7. ScreenGood(Revoked, u) /\ StillShows(screen.items, u.items)
  BY <1>4, <1>6 DEF StillShows
<1>8. QED
  BY <1>3, <1>7, ScreenMoves

LEMMA PageLoads ==
  ASSUME ScreenInv, NEW p, Screens!Revoking!Client(Screens!Revoking!Load(screen, p)),
         Screens!Revoking!Room
  PROVE  ScreenInv' /\ Screens!Revoking!Onward
<1>1. PICK s, t : s = Revoked /\ t = screen
  OBVIOUS
<1>2. PICK u : u = Screens!Revoking!Load(t, p)
  OBVIOUS
<1>3. Screens!Revoking!Client(u)
  BY <1>1, <1>2
<1>4. ScreenGood(s, t)
  BY <1>1, <1>3, ScreenHere
<1>5. t.used < ScreenCalls \/ Screens!Revoking!Pending(t)
  BY <1>1 DEF Screens!Revoking!Room
<1>6. ScreenGood(s, u) /\ Besides(t, u)
  BY <1>2, <1>4, <1>5, ScreenLoad
<1>7. ScreenGood(Revoked, u) /\ StillShows(screen.items, u.items)
  BY <1>1, <1>6 DEF StillShows, Besides
<1>8. QED
  BY <1>3, <1>7, ScreenMoves

LEMMA PageTurns ==
  ASSUME ScreenInv, Screens!Revoking!Refresh \/ Screens!Revoking!Previous \/ Screens!Revoking!Further
  PROVE  ScreenInv' /\ Screens!Revoking!Onward
<1>1. PICK p : Screens!Revoking!Client(Screens!Revoking!Load(screen, p)) /\ Screens!Revoking!Room
  BY DEF Screens!Revoking!Refresh, Screens!Revoking!Previous, Screens!Revoking!Further
<1>2. QED
  BY <1>1, PageLoads

LEMMA PageConfirms ==
  ASSUME ScreenInv, Screens!Revoking!Confirm
  PROVE  ScreenInv' /\ Screens!Revoking!Onward
<1>1. PICK c : c = screen.current
  OBVIOUS
<1>2. PICK v : v = Screens!Revoking!Aborted(screen, c)
  OBVIOUS
<1>3. PICK n : n = screen.used + 1
  OBVIOUS
<1>4. PICK w : w = [v EXCEPT !.listId = 0, !.revocation.phase = "pending", !.revocation.id = n]
  OBVIOUS
<1>5. PICK b : b = screen.revocation.of
  OBVIOUS
<1>6. PICK x : x = [Screens!Revoking!NoCall EXCEPT !.kind = "revoke", !.of = b]
  OBVIOUS
<1>7. PICK u : u = Screens!Revoking!Sends(w, x)
  OBVIOUS
<1>8. Screens!Revoking!Client(u) /\ screen.used < ScreenCalls /\ screen.revocation.phase = "confirming"
  BY <1>1, <1>2, <1>3, <1>4, <1>5, <1>6, <1>7 DEF Screens!Revoking!Confirm, Screens!Revoking!Room
<1>9. PICK s : s = Revoked
  OBVIOUS
<1>10. /\ ScreenSound(s, screen) /\ Numbered(screen) /\ ScreenLike(screen) /\ ShowsTrue(s, screen)
  BY <1>8, <1>9, ScreenHere DEF ScreenSound
<1>11. /\ ScreenSound(s, v) /\ Numbered(v) /\ Besides(screen, v) /\ v.current = screen.current
       /\ v.used = screen.used /\ v.listId = screen.listId /\ RequestAborted(screen, v, c)
  BY <1>2, <1>10, ScreenGivesUp
<1>12. /\ ScreenLike(v) /\ PageLike(v) /\ v.revocation.of = b /\ b \in Numbers
       /\ v.revocation = [of |-> v.revocation.of, phase |-> v.revocation.phase, id |-> v.revocation.id]
  <2>1. ScreenLike(v) /\ v.revocation = screen.revocation
    BY <1>11 DEF ScreenSound, Besides
  <2>2. b \in Numbers
    BY <1>5, <1>8, <1>10 DEF ShowsTrue
  <2>3. QED
    BY <1>5, <2>1, <2>2 DEF ScreenLike
<1>13. PICK y : y = [of |-> b, phase |-> "pending", id |-> n]
  OBVIOUS
<1>14. /\ PageLike(w) /\ w.calls = v.calls /\ w.current = v.current /\ w.used = v.used /\ w.listId = 0
       /\ w.items = v.items /\ w.revocation = y /\ w.confirmed = v.confirmed /\ w.gone = v.gone
  <2>1. PICK g : g = [v EXCEPT !.listId = 0, !.revocation.phase = "pending"]
    OBVIOUS
  <2>2. w = [g EXCEPT !.revocation.id = n]
    BY <1>4, <2>1
  <2>3. PICK r : r = v.revocation
    OBVIOUS
  <2>4. PICK a : a = [r EXCEPT !.phase = "pending"]
    OBVIOUS
  <2>5. r = [of |-> r.of, phase |-> r.phase, id |-> r.id] /\ r.of = b
    BY <1>12, <2>3
  <2>6. a = [of |-> b, phase |-> "pending", id |-> r.id]
    BY <2>4, <2>5
  <2>7. PICK h : h = [v EXCEPT !.listId = 0]
    OBVIOUS
  <2>8. PageLike(h) /\ h.revocation = r
    BY <1>12, <2>3, <2>7 DEF PageLike
  <2>9. g = [h EXCEPT !.revocation.phase = "pending"]
    BY <2>1, <2>7
  <2>10. g = [h EXCEPT !.revocation = a]
    BY <2>4, <2>8, <2>9
  <2>11. g.revocation = a
    BY <2>8, <2>10 DEF PageLike
  <2>12. [a EXCEPT !.id = n] = y
    BY <1>13, <2>6
  <2>13. w = [g EXCEPT !.revocation = y]
    BY <2>2, <2>11, <2>12
  <2>14. w = [h EXCEPT !.revocation = y]
    BY <2>8, <2>10, <2>13 DEF PageLike
  <2>15. w = [v EXCEPT !.listId = 0, !.revocation = y]
    BY <2>7, <2>14
  <2>16. QED
    BY <1>12, <2>15 DEF PageLike
<1>15. ScreenLike(w)
  BY <1>12, <1>13, <1>14 DEF ScreenLike
<1>16. RequestLike(x) /\ x.kind = "revoke" /\ x.of = b
  BY <1>6 DEF Screens!Revoking!NoCall, RequestLike
<1>17. w.used < ScreenCalls /\ w.used + 1 = n
  BY <1>3, <1>8, <1>11, <1>14
<1>18. /\ ScreenLike(u) /\ Besides(w, u) /\ u.current = w.current
       /\ u.used = n /\ u.listId = 0 /\ n \in Screens!Revoking!Ids
       /\ \A d \in Screens!Revoking!Ids : d # n => u.calls[d] = v.calls[d]
       /\ u.calls[n].kind = "revoke" /\ u.calls[n].of = b
       /\ u.calls[n].server = "coming" /\ u.calls[n].client = "waiting"
  <2>1. /\ ScreenLike(u) /\ Besides(w, u) /\ u.current = w.current
        /\ u.used = w.used + 1 /\ u.listId = w.listId /\ u.used \in Screens!Revoking!Ids
        /\ \A d \in Screens!Revoking!Ids : d # u.used => u.calls[d] = w.calls[d]
        /\ u.calls[u.used].kind = x.kind /\ u.calls[u.used].of = x.of
        /\ u.calls[u.used].server = "coming" /\ u.calls[u.used].client = "waiting"
    BY <1>7, <1>15, <1>16, <1>17, ScreenSends
  <2>2. QED
    BY <1>14, <1>16, <1>17, <2>1
<1>19. u.revocation = y /\ u.items = screen.items /\ u.confirmed = screen.confirmed
  BY <1>11, <1>14, <1>18 DEF Besides
<1>20. ScreenSound(s, u)
  <2>1. ASSUME NEW d \in Screens!Revoking!Ids
        PROVE  RequestTrue(s, u.calls[d])
    <3>1. CASE d = n
      BY <1>12, <1>18, <3>1 DEF RequestTrue
    <3>2. CASE d # n
      BY <1>11, <1>18, <3>2 DEF ScreenSound
    <3>3. QED
      BY <3>1, <3>2
  <2>2. ShowsTrue(s, u)
    BY <1>10, <1>12, <1>13, <1>19 DEF ShowsTrue
  <2>3. QED
    BY <1>18, <2>1, <2>2 DEF ScreenSound
<1>21. Numbered(u)
  <2>1. v.used \in Nat /\ n = v.used + 1 /\ n \in Nat
    BY <1>3, <1>11, <1>12 DEF ScreenLike
  <2>2. ASSUME NEW d \in Screens!Revoking!Ids, d > u.used
        PROVE  u.calls[d] = Screens!Revoking!NoCall
    <3>1. d > v.used /\ d # n
      BY <1>18, <2>1, <2>2, RequestIds
    <3>2. QED
      BY <1>11, <1>18, <3>1 DEF Numbered
  <2>3. u.current \in Nat /\ u.current <= v.used /\ u.current <= u.used
    BY <1>11, <1>14, <1>18, <2>1 DEF Numbered
  <2>4. ASSUME u.current # 0
        PROVE  u.calls[u.current].kind # "revoke"
    <3>1. u.current \in Screens!Revoking!Ids /\ u.current # n
      BY <1>12, <2>1, <2>3, <2>4, ScreenConstants DEF ScreenLike, Screens!Revoking!Ids
    <3>2. v.calls[v.current].kind # "revoke"
      BY <1>11, <1>14, <1>18, <2>4 DEF Numbered
    <3>3. QED
      BY <1>14, <1>18, <3>1, <3>2
  <2>5. QED
    BY <2>2, <2>3, <2>4 DEF Numbered
<1>22. Underway(u)
  BY <1>13, <1>18, <1>19 DEF Underway
<1>23. ScreenGood(s, u)
  BY <1>18, <1>20, <1>21, <1>22 DEF ScreenGood
<1>24. ScreenGood(Revoked, u) /\ StillShows(screen.items, u.items)
  BY <1>9, <1>19, <1>23 DEF StillShows
<1>25. QED
  BY <1>8, <1>24, ScreenMoves

LEMMA BlankPage ==
  /\ Screens!Revoking!Blank = [gone |-> FALSE, current |-> 0, used |-> 0,
       calls |-> [c \in Screens!Revoking!Ids |-> Screens!Revoking!NoCall],
                 items |-> <<>>, next |-> 0, listId |-> 0, pages |-> Screens!Revoking!First,
                 revocation |-> Screens!Revoking!NoRevocation, confirmed |-> {}]
  /\ Screens!Revoking!NoRevocation = [of |-> 0, phase |-> "none", id |-> 0]
BY DEF Screens!Revoking!Blank, Screens!Revoking!NoRevocation

LEMMA NothingShown == DOMAIN <<>> = {}
OBVIOUS

LEMMA PageGoes ==
  ASSUME ScreenInv, Screens!Revoking!Dispose
  PROVE  ScreenInv' /\ Screens!Revoking!Onward
<1>1. PICK cs : cs = [c \in Screens!Revoking!Ids |-> IF Screens!Revoking!Coming(c, "revoke")
                                       THEN [screen.calls[c] EXCEPT !.client = "aborted"] ELSE Screens!Revoking!NoCall]
  OBVIOUS
<1>2. PICK u : u = [Screens!Revoking!Blank EXCEPT !.gone = TRUE, !.calls = cs]
  OBVIOUS
<1>3. screen' = u /\ principals' = principals
  BY <1>1, <1>2 DEF Screens!Revoking!Dispose, Screens!Revoking!Client
<1>4. /\ PageLike(u) /\ u.calls = cs /\ u.used = 0 /\ u.items = <<>> /\ u.confirmed = {}
      /\ u.revocation = Screens!Revoking!NoRevocation /\ u.gone
  BY <1>2, BlankPage DEF PageLike
<1>5. ASSUME NEW c \in Screens!Revoking!Ids
      PROVE  RequestLike(cs[c]) /\ RequestTrue(Revoked, cs[c])
  <2>1. PICK s, x, y : s = Revoked /\ x = screen.calls[c] /\ y = [x EXCEPT !.client = "aborted"]
    OBVIOUS
  <2>2. RequestLike(x) /\ RequestTrue(s, x)
    BY <2>1 DEF ScreenInv, ScreenSound, ScreenLike
  <2>3. RequestLike(y) /\ Alike(x, y)
    BY <2>1, <2>2, RequestClient
  <2>4. RequestTrue(s, y)
    BY <2>2, <2>3, AlikeTrue
  <2>5. cs[c] = y \/ cs[c] = Screens!Revoking!NoCall
    BY <1>1, <2>1
  <2>6. RequestLike(cs[c]) /\ RequestTrue(s, cs[c])
    BY <2>3, <2>4, <2>5, NoRequests, OverTrue
  <2>7. QED
    BY <2>1, <2>6
<1>6. cs = [c \in Screens!Revoking!Ids |-> cs[c]]
  BY <1>1
<1>7. ScreenLike(u)
  BY <1>4, <1>5, <1>6, BlankPage, ScreenConstants DEF ScreenLike
<1>8. ShowsTrue(Revoked, u)
  BY <1>4, BlankPage, NothingShown DEF ShowsTrue
<1>9. ScreenSound(Revoked, u)
  BY <1>4, <1>5, <1>7, <1>8 DEF ScreenSound
<1>10. PICK q : q = Revoked
  OBVIOUS
<1>11. Revoked' = q
  BY <1>3, <1>10 DEF Revoked
<1>12. ScreenInv'
  BY <1>3, <1>4, <1>9, <1>10, <1>11 DEF ScreenInv
<1>13. Screens!Revoking!Onward
  BY <1>3, <1>4, NothingShown DEF Screens!Revoking!Onward
<1>14. QED
  BY <1>12, <1>13

LEMMA ScreenBegins == Screens!Revoking!Init => ScreenInv
<1> SUFFICES ASSUME Screens!Revoking!Init PROVE ScreenInv
  OBVIOUS
<1>1. PICK s, t : s = Revoked /\ t = Screens!Revoking!Blank
  OBVIOUS
<1>2. /\ PageLike(t) /\ t.gone = FALSE /\ t.current = 0 /\ t.used = 0
      /\ t.calls = [c \in Screens!Revoking!Ids |-> Screens!Revoking!NoCall]
      /\ t.items = <<>> /\ t.listId = 0 /\ t.revocation = Screens!Revoking!NoRevocation
      /\ t.confirmed = {}
  BY <1>1, BlankPage DEF PageLike
<1>3. ScreenLike(t)
  BY <1>2, BlankPage, NoRequests, ScreenConstants DEF ScreenLike
<1>4. ShowsTrue(s, t)
  BY <1>2, BlankPage, NothingShown DEF ShowsTrue
<1>5. ScreenSound(s, t)
  BY <1>2, <1>3, <1>4, OverTrue DEF ScreenSound
<1>6. Numbered(t) /\ ~Screens!Revoking!Pending(t)
  BY <1>2, BlankPage DEF Numbered, Screens!Revoking!Pending
<1>7. ScreenGood(s, t)
  BY <1>2, <1>5, <1>6 DEF ScreenGood
<1>8. PICK g : g = Screens!Revoking!First
  OBVIOUS
<1>9. PICK u : u = Screens!Revoking!Load(t, g)
  OBVIOUS
<1>10. t.used < ScreenCalls \/ Screens!Revoking!Pending(t)
  BY <1>2, ScreenConstants
<1>11. ScreenGood(s, u)
  BY <1>7, <1>9, <1>10, ScreenLoad
<1>12. screen = u
  BY <1>1, <1>8, <1>9 DEF Screens!Revoking!Init
<1>13. ScreenSound(Revoked, screen) /\ ScreenGood(Revoked, screen)
  BY <1>1, <1>11, <1>12 DEF ScreenGood
<1>14. principals = [p \in Numbers |-> principals[p]]
  BY DEF Screens!Revoking!Init
<1>15. QED
  BY <1>13, <1>14 DEF ScreenInv

(* Every step.                                                             *)
LEMMA ScreenStep ==
  ASSUME ScreenInv, Screens!Revoking!Next \/ UNCHANGED Screens!Revoking!vars
  PROVE  ScreenInv' /\ Screens!Revoking!Onward
<1>1. CASE UNCHANGED Screens!Revoking!vars
  <2>1. principals' = principals /\ screen' = screen
    BY <1>1 DEF Screens!Revoking!vars
  <2>2. ScreenInv'
    BY <2>1 DEF ScreenInv, Revoked
  <2>3. QED
    BY <2>1, <2>2, ScreenKeeps
<1>2. CASE Screens!Revoking!Server
  BY <1>2, ScreenServer
<1>3. CASE Screens!Revoking!Calls
  BY <1>3, PageListAnswered, PageListTimedOut, PageListFailed,
     PageRevokeConfirmed, PageRevokeUnsure, PageRevokeTimedOut DEF Screens!Revoking!Calls
<1>4. CASE Screens!Revoking!Person
  BY <1>4, PageChooses, PageTurns, PageConfirms, PageGoes DEF Screens!Revoking!Person
<1>5. QED
  BY <1>1, <1>2, <1>3, <1>4 DEF Screens!Revoking!Next

-----------------------------------------------------------------------------
(* The dashboard: the three screens side by side.  Only the one that is    *)
(* looked at moves.                                                        *)
ScreensInv == TimelineInv /\ InboxInv /\ ScreenInv

LEMMA ScreensBegin == MCInit => ScreensInv
<1> SUFFICES ASSUME MCInit PROVE ScreensInv
  OBVIOUS
<1>1. Screens!Blank
  BY DEF MCInit, Screens!Closed, Screens!MCInit
<1>2. Screens!Init /\ Screens!Approving!Init /\ Screens!Revoking!Init
  BY <1>1 DEF Screens!Blank
<1>3. QED
  BY <1>2, TimelineBegins, InboxBegins, ScreenBegins DEF ScreensInv

LEMMA ScreensStep ==
  ASSUME ScreensInv, [MCNext]_<<part, vars, screensVars>>
  PROVE  /\ ScreensInv'
         /\ look = "inbox" => Screens!Approving!Onward
         /\ look = "screen" => Screens!Revoking!Onward
<1>1. /\ Screens!Next \/ UNCHANGED Screens!vars
      /\ Screens!Approving!Next \/ UNCHANGED Screens!Approving!vars
      /\ Screens!Revoking!Next \/ UNCHANGED Screens!Revoking!vars
  <2>1. CASE UNCHANGED screensVars
    BY <2>1 DEF screensVars, Screens!vars, Screens!trail, Screens!Approving!vars, Screens!Revoking!vars
  <2>2. CASE Screens!MCNext
    <3>1. CASE Screens!Follows(Screens!Next)
      BY <3>1 DEF Screens!Follows, Screens!inboxVars, Screens!screenVars, Screens!Approving!vars,
         Screens!Revoking!vars
    <3>2. CASE Screens!Approves(Screens!Approving!Next)
      BY <3>2 DEF Screens!Approves, Screens!screenVars, Screens!Revoking!vars
    <3>3. CASE Screens!Revokes(Screens!Revoking!Next)
      BY <3>3 DEF Screens!Revokes, Screens!inboxVars, Screens!Approving!vars
    <3>4. QED
      BY <2>2, <3>1, <3>2, <3>3 DEF Screens!MCNext
  <2>3. QED
    BY <2>1, <2>2 DEF MCNext
<1>2. TimelineInv'
  BY <1>1, TimelineStep DEF ScreensInv
<1>3. InboxInv' /\ Screens!Approving!Onward
  BY <1>1, InboxStep DEF ScreensInv
<1>4. ScreenInv' /\ Screens!Revoking!Onward
  BY <1>1, ScreenStep DEF ScreensInv
<1>5. QED
  BY <1>2, <1>3, <1>4 DEF ScreensInv

(* ScreensTrue: what the dashboard shows is so.  The page of a timeline    *)
(* shows one timeline, and all of it; an approval or a revocation that is  *)
(* shown as confirmed is so in the database, and no submission waits for   *)
(* an answer that nobody waits for; the inbox goes on polling, and shows   *)
(* no list that is older than the last; and a Principal that was shown as  *)
(* revoked is not shown as active.                                         *)
THEOREM ScreensShowTruth == MCSpec => ScreensTrue
<1>1. MCInit => ScreensInv
  BY ScreensBegin
<1>2. ScreensInv /\ [MCNext]_<<part, vars, screensVars>> => ScreensInv'
  BY ScreensStep
<1>3. ScreensInv => /\ look = "page" => Screens!Shown
                    /\ look = "inbox" => Screens!Approving!InboxTrue
                    /\ look = "screen" => Screens!Revoking!ScreenTrue
  BY TimelineShown, InboxShown, ScreenShown DEF ScreensInv
<1>4. ScreensInv /\ [MCNext]_<<part, vars, screensVars>> =>
        [/\ look = "inbox" => Screens!Approving!Onward
         /\ look = "screen" => Screens!Revoking!Onward]_Screens!screensVars
  BY ScreensStep
<1>5. QED
  BY <1>1, <1>2, <1>3, <1>4, PTL DEF MCSpec, ScreensTrue, Screens!ScreensTrue
=============================================================================
