------------------------- MODULE Transactions_proofs -------------------------
(***************************************************************************)
(* Theorems about Transactions, for any number of clients, keys, requests  *)
(* and operations, and about Bootstrap and StatementPolicy.                *)
(*                                                                         *)
(* The receipts are those of the accepted requests (Receipted), no two of  *)
(* them under the same key (Single), and whoever was told of a success was *)
(* told what a receipt says.  That stays so because of what holds of the   *)
(* transaction that has the cursor lock (Underway): there was no receipt   *)
(* for its key when it was opened and nobody else can write one, and its   *)
(* draft is the database and what its operations did so far.               *)
(***************************************************************************)
EXTENDS MCTransactions, FiniteSetTheorems, SequenceTheorems, TLAPS

Receipted(receipts) == receipts \subseteq Principals \X Keys \X Keyed \X Positions
Request == [step : {"asked"}, by : Principals, body : Bodies, key : Keys \cup {NoKey}, at : Nat]
Transaction == [of : Clients, draft : Draft, next : Nat, window : Nat, limits : Limits,
                costs : [Resources -> Nat]]
Acceptance == [by : Principals, key : Keys \cup {NoKey}, body : Bodies, costs : [Resources -> Nat],
               limits : Limits, spent : [Resources -> Nat]]
Spendings == [Principals -> [0 .. MaxMinute -> [Resources -> Nat]]]

Shape ==
  /\ minute \in 0 .. MaxMinute /\ expired \subseteq Leased /\ db \in Draft
  /\ tx \in Transaction \cup {NoTx} /\ asked \in [Clients -> Request \cup {Silent}]
  /\ accepted \in Seq(Acceptance) /\ Len(accepted) <= MaxAccepted
  /\ told \subseteq db.receipts /\ spent \in Spendings

(* Transactions have a key, and nothing else has. *)
Proper(request) == (request.body \in Keyed) = (request.key # NoKey)
Requested(c) == asked[c] # Silent => Proper(asked[c]) /\ asked[c].at <= minute

(* What the operations before the next one do *)
Before(b, next) == {<<Plan[b][i].verb, Plan[b][i].on>> : i \in {j \in DOMAIN Plan[b] : j < next}}
Underway ==
  tx # NoTx =>
    LET request == asked[tx.of]
    IN  /\ request # Silent /\ tx.window <= minute /\ tx.limits = db.limits
        /\ tx.next \in 1 .. Len(Plan[request.body]) + 1
        /\ Receipts(tx.of) = {}
        /\ tx.draft = [db EXCEPT !.done = @ \cup Before(request.body, tx.next)]
        /\ \A r \in Resources : Fits(tx, r)

Written(i) == <<accepted[i].by, accepted[i].key, accepted[i].body, i>>
Held == \A x : x \in db.receipts <=> \E i \in DOMAIN accepted : accepted[i].key # NoKey /\ x = Written(i)
Single ==
  \A i, j \in DOMAIN accepted :
    accepted[i].key # NoKey /\ accepted[i].key = accepted[j].key
    /\ accepted[i].by = accepted[j].by => i = j

Inv ==
  /\ Shape /\ Underway /\ Held /\ Single /\ AllOrNothing
  /\ \A c \in Clients : Requested(c)
  /\ \A i \in DOMAIN accepted : Proper(accepted[i])

-----------------------------------------------------------------------------
(* Plans, drafts and what is charged                                       *)

LEMMA Constants ==
  /\ Keyed \subseteq Bodies /\ Limits \subseteq [Resources -> Nat] /\ Limits # {}
  /\ NoKey \notin Keys /\ Nobody \notin Clients /\ MaxMinute \in Nat /\ MaxAccepted \in Nat
BY TransactionsAssumption

LEMMA Plans ==
  ASSUME NEW b \in Bodies
  PROVE  /\ Plan[b] \in Seq(Operations) /\ Len(Plan[b]) \in Nat /\ DOMAIN Plan[b] = 1 .. Len(Plan[b])
         /\ \A i \in DOMAIN Plan[b] :
              /\ Plan[b][i] \in Operations /\ Plan[b][i].verb \in Verbs
              /\ <<Plan[b][i].verb, Plan[b][i].on>> \in Verbs \X Objects
<1>1. Plan[b] \in Seq(Operations)
  BY TransactionsAssumption
<1>2. \A i \in DOMAIN Plan[b] : Plan[b][i] \in Operations
  BY <1>1
<1> QED BY <1>1, <1>2 DEF Operations

LEMMA EffectsAre ==
  ASSUME NEW b \in Bodies
  PROVE  /\ Effects(b) \subseteq Verbs \X Objects
         /\ \A next : Before(b, next) \subseteq Effects(b)
         /\ Before(b, 1) = {} /\ Before(b, Len(Plan[b]) + 1) = Effects(b)
BY Plans DEF Effects, Before

LEMMA OneFurther ==
  ASSUME NEW b \in Bodies, NEW next \in 1 .. Len(Plan[b])
  PROVE  Before(b, next + 1) = Before(b, next) \cup {<<Plan[b][next].verb, Plan[b][next].on>>}
<1>1. {j \in DOMAIN Plan[b] : j < next + 1} = {j \in DOMAIN Plan[b] : j < next} \cup {next}
  BY Plans
<1> QED BY <1>1 DEF Before

LEMMA Drafts ==
  ASSUME NEW d \in Draft
  PROVE  /\ d.done \subseteq Verbs \X Objects /\ Receipted(d.receipts)
         /\ d.limits \in Limits
         /\ d.usage \in [Principals -> [Resources -> [window : 0 .. MaxMinute, used : Nat]]]
BY DEF Draft, Receipted

LEMMA DoneMore ==
  ASSUME NEW d \in Draft, NEW done \in SUBSET (Verbs \X Objects)
  PROVE  LET e == [d EXCEPT !.done = @ \cup done]
         IN  /\ e \in Draft /\ e.done = d.done \cup done
             /\ e.receipts = d.receipts /\ e.limits = d.limits /\ e.usage = d.usage
<1>1. d.done \cup done \in SUBSET (Verbs \X Objects)
  BY Drafts
<1> QED BY <1>1 DEF Draft

LEMMA NothingDone == ASSUME NEW d \in Draft PROVE [d EXCEPT !.done = @ \cup {}] = d
BY DEF Draft

LEMMA Costs ==
  /\ Nothing \in [Resources -> Nat]
  /\ \A op : Cost(op) \in [Resources -> Nat]
<1>1. Nothing \in [Resources -> Nat]
  BY DEF Nothing
<1>2. ASSUME NEW op PROVE Count(op) \in Nat
  BY DEF Count
<1> QED BY <1>1, <1>2 DEF Cost

LEMMA UsedIs ==
  ASSUME db \in Draft, NEW p \in Principals, NEW r \in Resources, NEW window
  PROVE  Used(p, r, window) \in Nat
<1>1. db.usage[p][r] \in [window : 0 .. MaxMinute, used : Nat]
  BY Drafts
<1> QED BY <1>1 DEF Used

-----------------------------------------------------------------------------
(* The transaction under way                                               *)

LEMMA Typed ==
  ASSUME Inv
  PROVE  /\ minute \in Nat /\ minute \in 0 .. MaxMinute /\ db \in Draft
         /\ asked \in [Clients -> Request \cup {Silent}]
         /\ accepted \in Seq(Acceptance) /\ Len(accepted) \in Nat /\ Len(accepted) <= MaxAccepted
         /\ \A i \in 1 .. Len(accepted) : accepted[i] \in Acceptance
         /\ DOMAIN accepted = 1 .. Len(accepted)
         /\ told \subseteq db.receipts /\ expired \subseteq Leased /\ spent \in Spendings
         /\ (tx = NoTx \/ tx \in Transaction)
BY Constants DEF Inv, Shape

LEMMA NobodyHas == /\ NoTx.of = Nobody /\ NoTx \notin Transaction
                   /\ \A t \in Transaction : t # NoTx /\ t.of \in Clients /\ t.of # Nobody
BY Constants DEF NoTx, Transaction

LEMMA SilentIs == Silent \notin Request /\ \A q \in Request : q # Silent
BY DEF Silent, Request

LEMMA Requests ==
  ASSUME Inv, NEW c \in Clients, asked[c] # Silent
  PROVE  /\ asked[c] \in Request /\ asked[c].by \in Principals /\ asked[c].body \in Bodies
         /\ asked[c].key \in Keys \cup {NoKey} /\ asked[c].at \in Nat /\ asked[c].at <= minute
         /\ (asked[c].body \in Keyed) = (asked[c].key # NoKey)
<1>1. asked[c] \in Request
  BY Typed
<1>2. Requested(c)
  BY DEF Inv
<1> QED BY <1>1, <1>2 DEF Request, Requested, Proper

LEMMA Having ==
  ASSUME Inv, tx # NoTx
  PROVE  /\ tx \in Transaction /\ tx.of \in Clients /\ tx.of # Nobody
         /\ asked[tx.of] # Silent /\ asked[tx.of] \in Request /\ asked[tx.of].body \in Bodies
         /\ asked[tx.of].by \in Principals
         /\ tx.window \in Nat /\ tx.window <= minute /\ tx.limits = db.limits /\ tx.limits \in [Resources -> Nat]
         /\ tx.costs \in [Resources -> Nat] /\ tx.next \in 1 .. Len(Plan[asked[tx.of].body]) + 1
         /\ Receipts(tx.of) = {} /\ tx.draft \in Draft
         /\ tx.draft = [db EXCEPT !.done = @ \cup Before(asked[tx.of].body, tx.next)]
         /\ \A r \in Resources : Fits(tx, r)
<1>1. tx \in Transaction
  BY Typed
<1>2. /\ tx.of \in Clients /\ tx.of # Nobody /\ tx.window \in Nat /\ tx.costs \in [Resources -> Nat]
      /\ tx.draft \in Draft /\ tx.limits \in Limits
  BY <1>1, NobodyHas DEF Transaction
<1>3. Underway
  BY DEF Inv
<1> QED BY <1>1, <1>2, <1>3, Requests, Constants DEF Underway

-----------------------------------------------------------------------------
(* Steps that leave the database alone                                     *)

(* The transaction under way goes on as it was, or is gone. *)
LEMMA Apart ==
  ASSUME Inv, UNCHANGED <<db, accepted, spent>>, minute' \in 0 .. MaxMinute, minute <= minute',
         expired' \subseteq Leased, told' \subseteq db.receipts,
         asked' \in [Clients -> Request \cup {Silent}],
         \A c \in Clients : Requested(c)',
         tx' = NoTx \/ (tx' = tx /\ (tx # NoTx => asked'[tx.of] = asked[tx.of]))
  PROVE  Inv'
<1>1. Shape'
  <2>1. tx' \in Transaction \cup {NoTx}
    BY Typed
  <2>2. Shape
    BY DEF Inv
  <2> QED BY <2>1, <2>2 DEF Shape
<1>2. Underway'
  <2>1. CASE tx' = NoTx
    BY <2>1 DEF Underway
  <2>2. CASE tx' # NoTx
    <3>1. tx' = tx /\ asked'[tx.of] = asked[tx.of]
      BY <2>2
    <3>2. tx.window <= minute'
      BY <2>2, <3>1, Having, Typed
    <3>3. Underway
      BY DEF Inv
    <3> QED BY <2>2, <3>1, <3>2, <3>3 DEF Underway, Receipts, Fits, Used
  <2> QED BY <2>1, <2>2
<1>3. Held' /\ Single' /\ AllOrNothing' /\ (\A i \in DOMAIN accepted : Proper(accepted[i]))'
  BY DEF Inv, Held, Single, AllOrNothing, Written, Proper
<1> QED BY <1>1, <1>2, <1>3 DEF Inv

LEMMA Silenced ==
  ASSUME Inv, NEW c \in Clients, asked' = [asked EXCEPT ![c] = Silent], minute' = minute
  PROVE  asked' \in [Clients -> Request \cup {Silent}] /\ \A d \in Clients : Requested(d)'
<1>1. asked' \in [Clients -> Request \cup {Silent}]
  BY Typed
<1>2. ASSUME NEW d \in Clients PROVE Requested(d)'
  BY <1>2, Typed DEF Inv, Requested, Proper
<1> QED BY <1>1, <1>2

LEMMA Refusing == ASSUME Inv, NEW c \in Clients, Refuse(c) PROVE Inv'
<1>1. /\ asked' = [asked EXCEPT ![c] = Silent] /\ UNCHANGED <<db, accepted, told, spent, minute, expired>>
      /\ (tx' = NoTx \/ (tx.of # c /\ tx' = tx))
  BY DEF Refuse, Rollback, ghosts
<1>2. tx # NoTx /\ tx.of # c => asked'[tx.of] = asked[tx.of]
  BY <1>1, Having, Typed
<1>3. asked' \in [Clients -> Request \cup {Silent}] /\ \A d \in Clients : Requested(d)'
  BY <1>1, Silenced
<1>4. minute' \in 0 .. MaxMinute /\ minute <= minute' /\ expired' \subseteq Leased /\ told' \subseteq db.receipts
  BY <1>1, Typed
<1> QED BY <1>1, <1>2, <1>3, <1>4, Apart

LEMMA Asking ==
  ASSUME Inv, NEW c \in Clients, NEW p \in Principals, NEW b \in Bodies, NEW k \in Keys \cup {NoKey}, Ask(c, p, b, k)
  PROVE  Inv'
<1>1. /\ asked[c] = Silent /\ (b \in Keyed) = (k # NoKey)
      /\ asked' = [asked EXCEPT ![c] = [step |-> "asked", by |-> p, body |-> b, key |-> k, at |-> minute]]
      /\ UNCHANGED <<minute, expired, db, tx, accepted, told, spent>>
  BY DEF Ask, ghosts
<1> DEFINE request == [step |-> "asked", by |-> p, body |-> b, key |-> k, at |-> minute]
<1>2. request \in Request /\ Proper(request) /\ request.at = minute
  BY <1>1, Typed DEF Request, Proper
<1>3. asked' = [asked EXCEPT ![c] = request]
  BY <1>1
<1> HIDE DEF request
<1>4. asked' \in [Clients -> Request \cup {Silent}]
  BY <1>2, <1>3, Typed
<1>5. ASSUME NEW d \in Clients PROVE Requested(d)'
  <2>1. CASE d = c
    BY <1>1, <1>2, <1>3, <2>1, Typed DEF Requested, Proper
  <2>2. CASE d # c
    BY <1>1, <1>3, <2>2, Typed DEF Inv, Requested, Proper
  <2> QED BY <2>1, <2>2
<1>6. tx # NoTx => asked'[tx.of] = asked[tx.of]
  BY <1>1, <1>3, Having, Typed
<1> QED BY <1>1, <1>4, <1>5, <1>6, Apart, Typed

(* A receipt that answers is one of the Principal and for what it asked. *)
LEMMA Replaying == ASSUME Inv, NEW c \in Clients, NEW answered \in BOOLEAN, Replay(c, answered) PROVE Inv'
<1>1. PICK r \in Receipts(c) :
        /\ Matches(r, c) /\ told' = told \cup {<<asked[c].by, asked[c].key, asked[c].body, r[4]>>}
        /\ asked' = [asked EXCEPT ![c] = Silent] /\ UNCHANGED <<minute, expired, db, tx, accepted, spent>>
        /\ tx = NoTx
  BY DEF Replay, Waits
<1>2. r \in db.receipts /\ r[1] = asked[c].by /\ r[2] = asked[c].key /\ r[3] = asked[c].body
  BY <1>1 DEF Receipts, Matches
<1>3. r \in Principals \X Keys \X Keyed \X Positions
  BY <1>2, Typed, Drafts DEF Receipted
<1>4. r = <<asked[c].by, asked[c].key, asked[c].body, r[4]>>
  BY <1>2, <1>3
<1>5. told' \subseteq db.receipts
  BY <1>1, <1>2, <1>4, Typed
<1>6. asked' \in [Clients -> Request \cup {Silent}] /\ \A d \in Clients : Requested(d)'
  BY <1>1, Silenced
<1>7. minute' \in 0 .. MaxMinute /\ minute <= minute' /\ expired' \subseteq Leased /\ tx' = NoTx
  BY <1>1, Typed
<1> QED BY <1>1, <1>5, <1>6, <1>7, Apart

LEMMA Passing ==
  ASSUME Inv, Tick \/ \E d \in Leased : Expire(d)
  PROVE  Inv'
<1>1. /\ UNCHANGED <<db, tx, asked, accepted, told, spent>> /\ expired' \subseteq Leased
      /\ minute' \in 0 .. MaxMinute /\ minute <= minute'
  BY Typed, Constants DEF Tick, Expire, ghosts
<1>2. ASSUME NEW c \in Clients PROVE Requested(c)'
  <2>1. CASE asked[c] = Silent
    BY <1>1, <2>1 DEF Requested
  <2>2. CASE asked[c] # Silent
    BY <1>1, <2>2, Requests, Typed DEF Requested, Proper
  <2> QED BY <2>1, <2>2
<1> QED BY <1>1, <1>2, Apart, Typed

-----------------------------------------------------------------------------
(* Steps of the transaction                                                *)

LEMMA Same ==
  ASSUME Inv, UNCHANGED <<minute, expired, db, asked, accepted, told, spent>>,
         tx' \in Transaction \cup {NoTx}, Underway'
  PROVE  Inv'
<1>1. Shape'
  BY Typed DEF Shape
<1>2. Held' /\ Single' /\ AllOrNothing' /\ (\A i \in DOMAIN accepted : Proper(accepted[i]))'
      /\ \A c \in Clients : Requested(c)'
  BY DEF Inv, Held, Single, AllOrNothing, Written, Proper, Requested
<1> QED BY <1>1, <1>2 DEF Inv

LEMMA Opening == ASSUME Inv, NEW c \in Clients, Open(c) PROVE Inv'
<1>1. CASE Refuse(c)
  BY <1>1, Refusing
<1>2. CASE /\ Fits(Opened(c), "transaction_operations") /\ tx' = Opened(c)
           /\ UNCHANGED <<minute, expired, db, asked, ghosts>>
  <2> DEFINE body == asked[c].body
             costs == [Nothing EXCEPT !["transaction_operations"] = IF body \in Keyed THEN Len(Plan[body]) ELSE 0]
  <2>1. asked[c] # Silent /\ Receipts(c) = {}
    BY DEF Open, Waits
  <2>2. asked[c] \in Request /\ body \in Bodies /\ Len(Plan[body]) \in Nat
    BY <2>1, Requests, Plans
  <2>3. costs \in [Resources -> Nat] /\ \A r \in Resources \ {"transaction_operations"} : costs[r] = 0
    BY <2>2, Costs DEF Nothing, Resources
  <2>4. tx' = [of |-> c, draft |-> db, next |-> 1, window |-> minute, limits |-> db.limits, costs |-> costs]
    BY <1>2 DEF Opened, Window
  <2> HIDE DEF costs
  <2>5. /\ tx' \in Transaction /\ tx'.of = c /\ tx'.draft = db /\ tx'.next = 1 /\ tx'.window = minute
        /\ tx'.limits = db.limits /\ tx'.costs = costs
    BY <2>3, <2>4, Typed, Drafts DEF Transaction
  <2>6. db = [db EXCEPT !.done = @ \cup Before(body, 1)]
    BY <2>2, Typed, EffectsAre, NothingDone
  <2>7. UNCHANGED <<minute, db, asked>>
    BY <1>2
  <2>8. ASSUME NEW r \in Resources PROVE Fits(tx, r)'
    <3>1. CASE costs[r] = 0
      BY <2>5, <3>1 DEF Fits
    <3>2. CASE costs[r] # 0
      <4>1. r = "transaction_operations"
        BY <2>3, <3>2
      <4>2. Fits(Opened(c), r)
        BY <1>2, <4>1
      <4>3. Opened(c) = tx'
        BY <1>2
      <4> DEFINE t == Opened(c)
      <4> HIDE DEF t
      <4>4. t.costs[r] = 0 \/ t.costs[r] <= t.limits[r] - Used(asked[t.of].by, r, t.window)
        BY <4>2 DEF Fits, t
      <4>5. t = tx'
        BY <4>3 DEF t
      <4> QED BY <2>7, <4>4, <4>5 DEF Fits, Used
    <3> QED BY <3>1, <3>2
  <2>9. Underway'
    <3>1. Receipts(tx.of)' = {}
      BY <2>1, <2>5, <2>7 DEF Receipts
    <3>2. tx'.next \in 1 .. Len(Plan[asked'[tx'.of].body]) + 1 /\ tx'.window <= minute'
      BY <2>2, <2>5, <2>7, Typed
    <3> QED BY <2>1, <2>5, <2>6, <2>7, <2>8, <3>1, <3>2 DEF Underway
  <2> QED BY <1>2, <2>5, <2>9, Same DEF ghosts
<1> QED BY <1>1, <1>2 DEF Open

LEMMA Operating == ASSUME Inv, NEW c \in Clients, Operate(c) PROVE Inv'
<1> DEFINE op == Operation(c)
<1>1. tx.of = c /\ tx.next <= Len(Plan[asked[c].body]) /\ tx # NoTx
  BY NobodyHas, Constants DEF Operate, Runs
<1>2. CASE Refuse(c)
  BY <1>2, Refusing
<1>3. CASE /\ \A r \in Resources : Cost(op)[r] > 0 => Fits(Advanced(op), r)
           /\ tx' = Advanced(op) /\ UNCHANGED <<minute, expired, db, asked, ghosts>>
  <2> DEFINE body == asked[c].body
             did == {<<op.verb, op.on>>}
             costs == [r \in Resources |-> tx.costs[r] + Cost(op)[r]]
             draft == [tx.draft EXCEPT !.done = @ \cup did]
             next == tx.next + 1
  <2>1. tx.next \in 1 .. Len(Plan[body]) /\ tx.next \in Nat /\ body \in Bodies /\ Len(Plan[body]) \in Nat
    BY <1>1, Having, Plans
  <2>2. op = Plan[body][tx.next] /\ did \in SUBSET (Verbs \X Objects)
    BY <1>1, <2>1, Plans DEF Operation
  <2>3. tx' = [tx EXCEPT !.next = next, !.draft = draft, !.costs = costs]
    BY <1>1, <1>3, Having DEF Advanced, Transaction
  <2>4. costs \in [Resources -> Nat] /\ \A r \in Resources : costs[r] = tx.costs[r] + Cost(op)[r]
    <3>1. tx.costs \in [Resources -> Nat]
      BY <1>1, Typed DEF Transaction
    <3>2. Cost(op) \in [Resources -> Nat]
      BY Costs
    <3> QED BY <3>1, <3>2
  <2>5. Before(body, tx.next + 1) = Before(body, tx.next) \cup did
    BY <2>1, <2>2, OneFurther
  <2>6. Before(body, tx.next) \in SUBSET (Verbs \X Objects)
    BY <2>1, EffectsAre
  <2> HIDE DEF op, did
  <2>7. draft = [db EXCEPT !.done = @ \cup Before(body, tx.next + 1)]
    <3>1. PICK before \in SUBSET (Verbs \X Objects) : before = Before(body, tx.next)
      BY <2>6
    <3>2. tx.draft = [db EXCEPT !.done = @ \cup before] /\ db \in Draft
      BY <1>1, <3>1, Having, Typed
    <3>3. [tx.draft EXCEPT !.done = @ \cup did] = [db EXCEPT !.done = @ \cup (before \cup did)]
      BY <2>2, <3>2 DEF Draft
    <3> QED BY <2>5, <3>1, <3>3
  <2>8. draft \in Draft
    BY <1>1, <2>2, Having, DoneMore
  <2>8a. next \in Nat /\ tx \in Transaction /\ next = tx.next + 1
    BY <1>1, <2>1, Having
  <2> HIDE DEF draft, costs, next
  <2>9. /\ tx' \in Transaction /\ tx'.of = c /\ tx'.draft = draft /\ tx'.next = tx.next + 1
        /\ tx'.window = tx.window /\ tx'.limits = tx.limits /\ tx'.costs = costs
    BY <1>1, <2>3, <2>4, <2>8, <2>8a DEF Transaction
  <2>10. UNCHANGED <<minute, db, asked>>
    BY <1>3
  <2>11. ASSUME NEW r \in Resources PROVE Fits(tx, r)'
    <3>1. Cost(op)[r] \in Nat /\ tx.costs[r] \in Nat
      BY <1>1, Having, Costs
    <3>2. CASE Cost(op)[r] = 0
      <4>1. costs[r] = tx.costs[r]
        BY <2>4, <3>1, <3>2
      <4>2. Fits(tx, r)
        BY <1>1, Having
      <4> QED BY <1>1, <2>9, <2>10, <4>1, <4>2 DEF Fits, Used
    <3>3. CASE Cost(op)[r] > 0
      <4> DEFINE t == Advanced(op)
      <4>1. Fits(t, r) /\ t = tx'
        BY <1>3, <3>3
      <4> HIDE DEF t
      <4>2. t.costs[r] = 0 \/ t.costs[r] <= t.limits[r] - Used(asked[t.of].by, r, t.window)
        BY <4>1 DEF Fits
      <4> QED BY <2>10, <4>1, <4>2 DEF Fits, Used
    <3> QED BY <3>1, <3>2, <3>3
  <2>12. Underway'
    <3>1. Receipts(tx.of)' = {}
      BY <1>1, <2>9, <2>10, Having DEF Receipts
    <3>2. tx'.next \in 1 .. Len(Plan[asked'[tx'.of].body]) + 1 /\ tx'.window <= minute' /\ tx'.limits = db'.limits
      BY <1>1, <2>1, <2>9, <2>10, Having
    <3>3. asked'[tx'.of] # Silent
      BY <1>1, <2>9, <2>10, Having
    <3>4. tx'.draft = [db' EXCEPT !.done = @ \cup Before(asked'[tx'.of].body, tx'.next)]
      BY <2>7, <2>9, <2>10
    <3> QED BY <2>11, <3>1, <3>2, <3>3, <3>4 DEF Underway
  <2> QED BY <1>3, <2>9, <2>12, Same DEF ghosts
<1> QED BY <1>2, <1>3 DEF Operate

LEMMA Limiting == ASSUME Inv, NEW limits \in Limits, SetQuotas(limits) PROVE Inv'
<1>1. tx = NoTx /\ tx' = NoTx /\ db' = [db EXCEPT !.limits = limits] /\ UNCHANGED <<minute, expired, asked, accepted, told, spent>>
  BY DEF SetQuotas, ghosts
<1>2. db' \in Draft /\ db'.done = db.done /\ db'.receipts = db.receipts
  BY <1>1, Typed DEF Draft
<1>3. Shape'
  BY <1>1, <1>2, Typed DEF Shape
<1>4. Held' /\ Single' /\ AllOrNothing' /\ (\A i \in DOMAIN accepted : Proper(accepted[i]))'
      /\ (\A c \in Clients : Requested(c)') /\ Underway'
  BY <1>1, <1>2 DEF Inv, Held, Single, AllOrNothing, Written, Proper, Requested, Underway
<1> QED BY <1>3, <1>4 DEF Inv

-----------------------------------------------------------------------------
(* The commit                                                              *)

Usage == [Principals -> [Resources -> [window : 0 .. MaxMinute, used : Nat]]]

LEMMA Charging ==
  ASSUME NEW usage \in Usage, NEW t, asked[t.of].by \in Principals,
         t.costs \in [Resources -> Nat], t.window \in 0 .. MaxMinute
  PROVE  /\ Charged(usage, t) \in Usage
         /\ \A p \in Principals, r \in Resources :
              Charged(usage, t)[p][r] =
                IF p = asked[t.of].by /\ t.costs[r] # 0
                THEN Upserted(usage[p][r], t.window, t.costs[r]) ELSE usage[p][r]
<1> DEFINE by == asked[t.of].by
           charged == [r \in Resources |->
             IF t.costs[r] = 0 THEN usage[by][r] ELSE Upserted(usage[by][r], t.window, t.costs[r])]
<1>1. Charged(usage, t) = [usage EXCEPT ![by] = charged]
  BY DEF Charged
<1>2. ASSUME NEW r \in Resources PROVE charged[r] \in [window : 0 .. MaxMinute, used : Nat]
  <2>1. usage[by][r] \in [window : 0 .. MaxMinute, used : Nat]
    BY DEF Usage
  <2>2. usage[by][r].used \in Nat /\ t.costs[r] \in Nat
    BY <2>1
  <2>3. Upserted(usage[by][r], t.window, t.costs[r]) \in [window : 0 .. MaxMinute, used : Nat]
    BY <2>1, <2>2 DEF Upserted
  <2> QED BY <2>1, <2>3
<1>3. charged \in [Resources -> [window : 0 .. MaxMinute, used : Nat]]
  BY <1>2
<1>4. \A r \in Resources : charged[r] = IF t.costs[r] # 0 THEN Upserted(usage[by][r], t.window, t.costs[r]) ELSE usage[by][r]
  OBVIOUS
<1> HIDE DEF charged
<1> QED BY <1>1, <1>3, <1>4 DEF Usage

(* What the commit makes of the database *)
LEMMA Committed ==
  ASSUME Inv, NEW c \in Clients, NEW answered \in BOOLEAN, Commit(c, answered)
  PROVE  LET body == asked[c].body
         IN  /\ tx # NoTx /\ tx.of = c /\ asked[c] # Silent /\ db' \in Draft
             /\ db'.done = db.done \cup Effects(body)
             /\ db'.receipts = db.receipts \cup Receipt(c)
             /\ db'.usage = Charged(db.usage, tx) /\ db'.limits = db.limits
             /\ Receipted(Receipt(c))
<1> DEFINE body == asked[c].body
<1>1. tx.of = c /\ ~(tx.next <= Len(Plan[body])) /\ tx # NoTx /\ Len(accepted) < MaxAccepted
  BY NobodyHas, Constants DEF Commit, Runs
<1>2. /\ asked[c] # Silent /\ body \in Bodies /\ Len(Plan[body]) \in Nat /\ tx.next \in 1 .. Len(Plan[body]) + 1
      /\ tx.draft = [db EXCEPT !.done = @ \cup Before(body, tx.next)]
      /\ tx.costs \in [Resources -> Nat] /\ asked[c].by \in Principals /\ tx.window \in Nat /\ tx.window <= minute
  BY <1>1, Having, Plans
<1>3. tx.next = Len(Plan[body]) + 1
  BY <1>1, <1>2
<1>4. tx.draft = [db EXCEPT !.done = @ \cup Effects(body)]
  BY <1>2, <1>3, EffectsAre
<1>5. /\ tx.draft \in Draft /\ tx.draft.done = db.done \cup Effects(body)
      /\ tx.draft.receipts = db.receipts /\ tx.draft.limits = db.limits /\ tx.draft.usage = db.usage
  <2>1. PICK effects \in SUBSET (Verbs \X Objects) : effects = Effects(body)
    BY <1>2, EffectsAre
  <2>2. tx.draft = [db EXCEPT !.done = @ \cup effects] /\ db \in Draft
    BY <1>4, <2>1, Typed
  <2> QED BY <2>1, <2>2, DoneMore
<1>6. Receipted(Receipt(c))
  <2>1. Len(accepted) + 1 \in Positions
    BY <1>1, Typed, Constants DEF Positions
  <2>2. asked[c].key # NoKey => asked[c].key \in Keys /\ body \in Keyed
    BY <1>2, Requests
  <2> QED BY <1>2, <2>1, <2>2 DEF Receipt, Receipted
<1>7. Charged(db.usage, tx) \in Usage
  <2>1. tx.window \in 0 .. MaxMinute
    BY <1>2, Typed, Constants
  <2>2. db.usage \in Usage
    BY Typed, Drafts DEF Usage
  <2> QED BY <1>1, <1>2, <2>1, <2>2, Charging
<1> DEFINE receipts == db.receipts \cup Receipt(c)
           usage == Charged(db.usage, tx)
<1>8. db' = [tx.draft EXCEPT !.receipts = receipts, !.usage = usage]
  BY <1>5 DEF Commit, Draft
<1>9. receipts \in SUBSET (Principals \X Keys \X Keyed \X Positions)
  BY <1>6, Typed, Drafts DEF Receipted
<1> HIDE DEF receipts, usage
<1>10. /\ db' \in Draft /\ db'.done = tx.draft.done /\ db'.limits = tx.draft.limits
       /\ db'.receipts = receipts /\ db'.usage = usage
  BY <1>5, <1>7, <1>8, <1>9 DEF Draft, Usage, usage
<1> QED BY <1>1, <1>2, <1>5, <1>6, <1>10 DEF receipts, usage

(* What it adds to the tally of the Principal's minute *)
LEMMA Spending ==
  ASSUME Inv, NEW c \in Clients, NEW answered \in BOOLEAN, Commit(c, answered)
  PROVE  /\ asked[c].by \in Principals /\ tx.window \in 0 .. MaxMinute
         /\ Spends(c) \in [Resources -> Nat] /\ spent' \in Spendings
         /\ \A r \in Resources : Spends(c)[r] = spent[asked[c].by][tx.window][r] + tx.costs[r]
         /\ \A p \in Principals, m \in 0 .. MaxMinute :
              spent'[p][m] = IF p = asked[c].by /\ m = tx.window THEN Spends(c) ELSE spent[p][m]
<1>1. /\ tx # NoTx /\ tx.of = c
      /\ spent' = [spent EXCEPT ![asked[c].by][tx.window] = Spends(c)]
  BY Committed DEF Commit
<1>2. /\ asked[c].by \in Principals /\ tx.window \in 0 .. MaxMinute /\ tx.costs \in [Resources -> Nat]
      /\ spent \in Spendings
  BY <1>1, Having, Typed, Constants
<1>3. \A r \in Resources : Spends(c)[r] = spent[asked[c].by][tx.window][r] + tx.costs[r]
  BY DEF Spends
<1>4. Spends(c) \in [Resources -> Nat]
  <2>1. spent[asked[c].by][tx.window] \in [Resources -> Nat]
    BY <1>2 DEF Spendings
  <2> QED BY <1>2, <2>1 DEF Spends
<1>5. PICK more \in [Resources -> Nat] : more = Spends(c)
  BY <1>4
<1>6. spent' = [spent EXCEPT ![asked[c].by][tx.window] = more]
  BY <1>1, <1>5
<1>7. spent' \in Spendings
  BY <1>2, <1>6 DEF Spendings
<1>8. \A p \in Principals, m \in 0 .. MaxMinute :
        spent'[p][m] = IF p = asked[c].by /\ m = tx.window THEN more ELSE spent[p][m]
  BY <1>2, <1>6 DEF Spendings
<1> QED BY <1>2, <1>3, <1>4, <1>5, <1>7, <1>8

LEMMA Committing == ASSUME Inv, NEW c \in Clients, NEW answered \in BOOLEAN, Commit(c, answered) PROVE Inv'
<1>0. PICK n : n = Len(accepted) + 1
  OBVIOUS
<1> DEFINE body == asked[c].body
           a == [by |-> asked[c].by, key |-> asked[c].key, body |-> body, costs |-> tx.costs,
                 limits |-> tx.limits, spent |-> Spends(c)]
<1>1. /\ tx # NoTx /\ tx.of = c /\ asked[c] # Silent /\ db' \in Draft
      /\ db'.done = db.done \cup Effects(body) /\ db'.receipts = db.receipts \cup Receipt(c)
      /\ Receipted(Receipt(c))
  BY Committed
<1>2. /\ accepted' = Append(accepted, a) /\ asked' = [asked EXCEPT ![c] = Silent] /\ tx' = NoTx
      /\ UNCHANGED <<minute, expired>> /\ Len(accepted) < MaxAccepted
      /\ told' = IF answered /\ asked[c].key # NoKey
                 THEN told \cup {<<asked[c].by, asked[c].key, body, n>>} ELSE told
  BY <1>0 DEF Commit
<1>3. /\ asked[c].by \in Principals /\ asked[c].key \in Keys \cup {NoKey} /\ body \in Bodies
      /\ Proper(asked[c]) /\ tx.window \in Nat /\ tx.costs \in [Resources -> Nat] /\ tx.limits \in Limits
      /\ Receipts(c) = {} /\ Spends(c) \in [Resources -> Nat] /\ spent' \in Spendings
  BY <1>1, Having, Requests, Typed, Drafts, Spending DEF Proper
<1>4. a \in Acceptance /\ a.by = asked[c].by /\ a.key = asked[c].key /\ a.body = body /\ Proper(a)
  BY <1>3 DEF Acceptance, Proper
<1> HIDE DEF a
<1>5. /\ n \in Nat /\ n = Len(accepted) + 1 /\ n <= MaxAccepted /\ DOMAIN accepted = 1 .. Len(accepted)
      /\ Len(accepted) \in Nat /\ n \notin DOMAIN accepted
  BY <1>0, <1>2, Typed, Constants
<1>6. /\ accepted' \in Seq(Acceptance) /\ Len(accepted') = n /\ DOMAIN accepted' = DOMAIN accepted \cup {n}
      /\ accepted'[n] = a /\ \A i \in DOMAIN accepted : accepted'[i] = accepted[i]
  BY <1>2, <1>4, <1>5, Typed
<1>7. Receipt(c) = IF a.key = NoKey THEN {} ELSE {<<a.by, a.key, a.body, n>>}
  BY <1>0, <1>4 DEF Receipt
<1>8. Shape'
  <2>1. asked' \in [Clients -> Request \cup {Silent}]
    BY <1>2, Silenced
  <2>2. told' \subseteq db'.receipts
    BY <1>1, <1>2, <1>4, <1>7, Typed
  <2> QED BY <1>1, <1>2, <1>3, <1>5, <1>6, <2>1, <2>2, Typed DEF Shape
<1>9. Underway'
  BY <1>2 DEF Underway
<1>10. Held'
  <2>1. ASSUME NEW x PROVE x \in db'.receipts <=> \E i \in DOMAIN accepted' : accepted'[i].key # NoKey /\ x = Written(i)'
    <3>1. x \in db.receipts <=> \E i \in DOMAIN accepted : accepted[i].key # NoKey /\ x = Written(i)
      BY DEF Inv, Held
    <3>2. x \in Receipt(c) <=> accepted'[n].key # NoKey /\ x = Written(n)'
      BY <1>6, <1>7 DEF Written
    <3>3. \A i \in DOMAIN accepted : Written(i)' = Written(i) /\ accepted'[i].key = accepted[i].key
      BY <1>6 DEF Written
    <3> QED BY <1>1, <1>6, <3>1, <3>2, <3>3
  <2> QED BY <2>1 DEF Held
<1>11. Single'
  <2>1. ASSUME NEW i \in DOMAIN accepted, accepted[i].key # NoKey, accepted[i].key = a.key, accepted[i].by = a.by
        PROVE  FALSE
    <3>1. Written(i) \in db.receipts
      BY <2>1 DEF Inv, Held
    <3>2. Written(i)[1] = asked[c].by /\ Written(i)[2] = asked[c].key
      BY <1>4, <2>1 DEF Written
    <3>3. Written(i) \in Receipts(c)
      BY <3>1, <3>2 DEF Receipts
    <3> QED BY <1>3, <3>3
  <2>2. Single
    BY DEF Inv
  <2> QED BY <1>6, <2>1, <2>2 DEF Single
<1>12. AllOrNothing'
  <2>1. db.done = UNION {Effects(accepted[i].body) : i \in DOMAIN accepted}
    BY DEF Inv, AllOrNothing
  <2>2. Effects(accepted'[n].body) = Effects(body)
    BY <1>4, <1>6
  <2>3. \A i \in DOMAIN accepted : Effects(accepted'[i].body) = Effects(accepted[i].body)
    BY <1>6
  <2>4. UNION {Effects(accepted'[i].body) : i \in DOMAIN accepted'} = db.done \cup Effects(body)
    BY <1>6, <2>1, <2>2, <2>3
  <2> QED BY <1>1, <2>4 DEF AllOrNothing, Effects
<1>13. \A d \in Clients : Requested(d)'
  BY <1>2, Silenced
<1>14. (\A i \in DOMAIN accepted : Proper(accepted[i]))'
  <2>1. \A i \in DOMAIN accepted : Proper(accepted[i])
    BY DEF Inv
  <2> QED BY <1>4, <1>6, <2>1 DEF Proper
<1> QED BY <1>8, <1>9, <1>10, <1>11, <1>12, <1>13, <1>14 DEF Inv

-----------------------------------------------------------------------------
(* All of it                                                               *)

LEMMA Initially == ASSUME Init PROVE Inv
<1>1. /\ minute = 0 /\ expired = {} /\ db = Empty /\ tx = NoTx /\ asked = [c \in Clients |-> Silent]
      /\ accepted = <<>> /\ told = {} /\ spent = [p \in Principals |-> [m \in 0 .. MaxMinute |-> Nothing]]
  BY DEF Init
<1> DEFINE l == CHOOSE l \in Limits : TRUE
           usage == [p \in Principals |-> [r \in Resources |-> [window |-> 0, used |-> 0]]]
<1>2. l \in Limits /\ 0 \in 0 .. MaxMinute
  BY Constants
<1>3. usage \in Usage
  BY <1>2 DEF Usage
<1>4. Empty = [done |-> {}, receipts |-> {}, limits |-> l, usage |-> usage]
  BY DEF Empty
<1> HIDE DEF l, usage
<1>5. db \in Draft /\ db.done = {} /\ db.receipts = {}
  BY <1>1, <1>2, <1>3, <1>4 DEF Draft, Usage
<1>6. Shape
  BY <1>1, <1>2, <1>5, Constants, Costs DEF Shape, Spendings
<1>7. Underway /\ Held /\ Single /\ AllOrNothing
  BY <1>1, <1>5 DEF Underway, Held, Single, AllOrNothing
<1>8. (\A c \in Clients : Requested(c)) /\ \A i \in DOMAIN accepted : Proper(accepted[i])
  BY <1>1 DEF Requested
<1> QED BY <1>6, <1>7, <1>8 DEF Inv

LEMMA Stepping == Inv /\ [Next]_vars => Inv'
<1> SUFFICES ASSUME Inv, [Next]_vars PROVE Inv'
  OBVIOUS
<1>1. ASSUME NEW c \in Clients,
             \/ \E p \in Principals, b \in Bodies, k \in Keys \cup {NoKey} : Ask(c, p, b, k)
             \/ Conflict(c) \/ Open(c) \/ Operate(c) \/ Fail(c)
             \/ \E answered \in BOOLEAN : Replay(c, answered) \/ Commit(c, answered)
      PROVE  Inv'
  BY <1>1, Asking, Refusing, Opening, Operating, Replaying, Committing DEF Conflict, Fail
<1>2. CASE UNCHANGED vars
  <2>1. UNCHANGED <<minute, expired, db, tx, asked, accepted, told, spent>>
    BY <1>2 DEF vars
  <2>2. Underway'
    BY <2>1 DEF Inv, Underway, Receipts, Fits, Used
  <2>3. tx' \in Transaction \cup {NoTx}
    BY <2>1, Typed
  <2> QED BY <2>1, <2>2, <2>3, Same
<1> QED BY <1>1, <1>2, Limiting, Passing DEF Next

LEMMA Always == Spec => []Inv
BY Initially, Stepping, PTL DEF Spec

(* Every variable has its type. *)
THEOREM TypeCorrect == Spec => []TypeOK
<1>1. ASSUME Inv PROVE TypeOK
  <2>1. tx.of \in Clients \cup {Nobody}
    BY <1>1, Typed, NobodyHas
  <2>2. tx # NoTx => /\ tx.draft \in Draft /\ tx.window \in 0 .. minute /\ tx.limits = db.limits
                     /\ tx.costs \in [Resources -> Nat] /\ asked[tx.of] # Silent
                     /\ tx.next \in 1 .. Len(Plan[asked[tx.of].body]) + 1
    BY <1>1, Having, Typed
  <2>3. ASSUME NEW c \in Clients, asked[c] # Silent
        PROVE  asked[c] \in [step : {"asked"}, by : Principals, body : Bodies,
                             key : Keys \cup {NoKey}, at : 0 .. minute]
    BY <1>1, <2>3, Requests, Typed DEF Request
  <2>4. told \subseteq Principals \X Keys \X Keyed \X Positions
    BY <1>1, Typed, Drafts DEF Receipted
  <2> QED BY <1>1, <2>1, <2>2, <2>3, <2>4, Typed DEF TypeOK, Spendings
<1> QED BY <1>1, Always, PTL

(* However often and under however many connections a keyed transaction is *)
(* repeated, and whatever answer got lost, it is carried out once, and who *)
(* is told of a success is told the result of that very request.           *)
THEOREM CarriedOutOnce == Spec => []OnceEach
<1>1. ASSUME Inv PROVE OnceEach
  <2>1. ASSUME NEW x \in told
        PROVE  /\ x[4] \in DOMAIN accepted
               /\ <<x[1], x[2], x[3]>> = <<accepted[x[4]].by, accepted[x[4]].key, accepted[x[4]].body>>
    <3>1. PICK i \in DOMAIN accepted : x = Written(i)
      BY <1>1, <2>1, Typed DEF Inv, Held
    <3> QED BY <3>1 DEF Written
  <2>2. Single
    BY <1>1 DEF Inv
  <2> QED BY <2>1, <2>2 DEF OnceEach, Single
<1> QED BY <1>1, Always, PTL

-----------------------------------------------------------------------------
(* The quotas: what the database says that a Principal used in its latest  *)
(* window is what its accepted requests used, and no window has begun that *)
(* is later than the one the open transaction was charged with.            *)
Balanced(p, r) ==
  LET use == db.usage[p][r]
  IN  /\ use.window <= minute /\ (tx # NoTx => use.window <= tx.window)
      /\ spent[p][use.window][r] = use.used
      /\ \A m \in 0 .. MaxMinute : m > use.window => spent[p][m][r] = 0
Tallied == (\A p \in Principals, r \in Resources : Balanced(p, r)) /\ WithinLimit

LEMMA InUse ==
  ASSUME Inv, NEW p \in Principals, NEW r \in Resources
  PROVE  /\ db.usage[p][r].window \in 0 .. MaxMinute /\ db.usage[p][r].used \in Nat
         /\ \A m \in 0 .. MaxMinute : spent[p][m][r] \in Nat
<1>1. db.usage \in Usage /\ spent \in Spendings
  BY Typed, Drafts DEF Usage
<1>2. db.usage[p][r] \in [window : 0 .. MaxMinute, used : Nat]
  BY <1>1 DEF Usage
<1>3. ASSUME NEW m \in 0 .. MaxMinute PROVE spent[p][m][r] \in Nat
  <2>1. spent[p][m] \in [Resources -> Nat]
    BY <1>1 DEF Spendings
  <2> QED BY <2>1
<1> QED BY <1>2, <1>3

(* Steps that charge nobody: if a transaction is opened, it is in this minute. *)
LEMMA Untallied ==
  ASSUME Inv, Inv', Tallied, UNCHANGED <<accepted, spent>>, db'.usage = db.usage, minute <= minute',
         tx' # NoTx => (tx # NoTx /\ tx'.window = tx.window) \/ tx'.window = minute
  PROVE  Tallied'
<1>1. ASSUME NEW p \in Principals, NEW r \in Resources PROVE Balanced(p, r)'
  <2>1. PICK use : use = db.usage[p][r]
    OBVIOUS
  <2>2. use.window \in 0 .. MaxMinute /\ minute \in Nat /\ minute' \in Nat
    BY <2>1, InUse, Typed DEF Inv, Shape
  <2>3. /\ use.window <= minute /\ (tx # NoTx => use.window <= tx.window)
        /\ spent[p][use.window][r] = use.used
        /\ \A m \in 0 .. MaxMinute : m > use.window => spent[p][m][r] = 0
    BY <2>1 DEF Tallied, Balanced
  <2>4. use.window <= minute'
    BY <2>2, <2>3, Constants
  <2>5. tx' # NoTx => use.window <= tx'.window
    BY <2>3
  <2> QED BY <2>1, <2>3, <2>4, <2>5 DEF Balanced
<1>2. WithinLimit'
  BY DEF Tallied, WithinLimit
<1> QED BY <1>1, <1>2 DEF Tallied

(* The commit: what fitted into the draft's window is what is charged.     *)
LEMMA Tallying ==
  ASSUME Inv, Tallied, NEW c \in Clients, NEW answered \in BOOLEAN, Commit(c, answered)
  PROVE  Tallied'
<1>1. /\ tx # NoTx /\ tx.of = c /\ db'.usage = Charged(db.usage, tx) /\ tx' = NoTx /\ minute' = minute
  BY Committed DEF Commit
<1>2. PICK by \in Principals, w \in 0 .. MaxMinute, sum \in [Resources -> Nat], costs \in [Resources -> Nat] :
        by = asked[c].by /\ w = tx.window /\ sum = Spends(c) /\ costs = tx.costs
  BY <1>1, Spending, Having
<1>3. /\ \A r \in Resources : sum[r] = spent[by][w][r] + costs[r]
      /\ \A p \in Principals, m \in 0 .. MaxMinute :
           spent'[p][m] = IF p = by /\ m = w THEN sum ELSE spent[p][m]
  BY <1>2, Spending
<1>4. \A p \in Principals, r \in Resources :
        db'.usage[p][r] = IF p = by /\ costs[r] # 0
                          THEN Upserted(db.usage[p][r], w, costs[r]) ELSE db.usage[p][r]
  <2>1. db.usage \in Usage
    BY Typed, Drafts DEF Usage
  <2> QED BY <1>1, <1>2, <2>1, Charging
<1>5. minute \in Nat /\ w <= minute
  BY <1>1, <1>2, Having, Typed
<1>6. ASSUME NEW r \in Resources
      PROVE  costs[r] \in Nat /\ (costs[r] # 0 => sum[r] = costs[r] + Used(by, r, w))
  <2>1. PICK use : use = db.usage[by][r]
    OBVIOUS
  <2>2. /\ use.window <= w /\ spent[by][use.window][r] = use.used
        /\ \A m \in 0 .. MaxMinute : m > use.window => spent[by][m][r] = 0
    BY <1>1, <1>2, <2>1 DEF Tallied, Balanced
  <2>3. use.window \in 0 .. MaxMinute /\ use.used \in Nat
    BY <2>1, InUse
  <2>4. spent[by][w][r] = IF use.window = w THEN use.used ELSE 0
    BY <2>2, <2>3
  <2> QED BY <1>3, <2>1, <2>3, <2>4 DEF Used
<1>7. ASSUME NEW p \in Principals, NEW r \in Resources PROVE Balanced(p, r)'
  <2>1. PICK use : use = db.usage[p][r]
    OBVIOUS
  <2>2. /\ use.window <= minute /\ use.window <= w /\ spent[p][use.window][r] = use.used
        /\ \A m \in 0 .. MaxMinute : m > use.window => spent[p][m][r] = 0
    BY <1>1, <1>2, <2>1 DEF Tallied, Balanced
  <2>3. use.window \in 0 .. MaxMinute /\ use.used \in Nat
    BY <2>1, InUse
  <2>4. CASE p = by /\ costs[r] # 0
    <3>1. db'.usage[p][r].window = w /\ db'.usage[p][r].used = costs[r] + Used(by, r, w)
      <4>1. db'.usage[p][r] = Upserted(use, w, costs[r]) /\ use = db.usage[by][r]
        BY <1>4, <2>1, <2>4
      <4> QED BY <4>1 DEF Upserted, Used
    <3>2. spent'[p][w][r] = db'.usage[p][r].used
      BY <1>3, <1>6, <2>4, <3>1
    <3>3. \A m \in 0 .. MaxMinute : m > w => spent'[p][m][r] = 0
      BY <1>3, <2>2, <2>3
    <3> QED BY <1>1, <1>5, <3>1, <3>2, <3>3 DEF Balanced
  <2>5. CASE p # by \/ costs[r] = 0
    <3>1. db'.usage[p][r] = use
      BY <1>4, <2>1, <2>5
    <3>2. \A m \in 0 .. MaxMinute : spent'[p][m][r] = spent[p][m][r]
      BY <1>3, <2>5, InUse
    <3> QED BY <1>1, <2>2, <2>3, <3>1, <3>2 DEF Balanced
  <2> QED BY <2>4, <2>5
<1>8. WithinLimit'
  <2> DEFINE a == [by |-> by, key |-> asked[c].key, body |-> asked[c].body, costs |-> costs,
                   limits |-> tx.limits, spent |-> sum]
  <2>1. accepted' = Append(accepted, a) /\ a.costs = costs /\ a.limits = tx.limits /\ a.spent = sum
    BY <1>2 DEF Commit
  <2> HIDE DEF a
  <2>2. ASSUME NEW r \in Resources, a.costs[r] > 0 PROVE a.spent[r] <= a.limits[r]
    <3>1. costs[r] # 0 /\ sum[r] = costs[r] + Used(by, r, w)
      BY <1>6, <2>1, <2>2
    <3>2. costs[r] <= tx.limits[r] - Used(by, r, w)
      BY <1>1, <1>2, <3>1, Having DEF Fits
    <3>3. Used(by, r, w) \in Nat /\ tx.limits[r] \in Nat
      BY <1>1, Having, Typed, UsedIs
    <3> QED BY <1>6, <2>1, <3>1, <3>2, <3>3
  <2>3. /\ Len(accepted) \in Nat /\ DOMAIN accepted' = DOMAIN accepted \cup {Len(accepted) + 1}
        /\ accepted'[Len(accepted) + 1] = a /\ \A i \in DOMAIN accepted : accepted'[i] = accepted[i]
    BY <2>1, Typed, Committed, Committing DEF Inv, Shape
  <2> QED BY <2>2, <2>3 DEF Tallied, WithinLimit
<1> QED BY <1>7, <1>8 DEF Tallied

LEMMA InTheEnd == Inv /\ Tallied /\ [Next]_vars => Tallied'
<1> SUFFICES ASSUME Inv, Tallied, [Next]_vars PROVE Tallied'
  OBVIOUS
<1>0. Inv'
  BY Stepping
<1>1. ASSUME NEW c \in Clients,
             \/ \E p \in Principals, b \in Bodies, k \in Keys \cup {NoKey} : Ask(c, p, b, k)
             \/ Conflict(c) \/ Operate(c) \/ Open(c) \/ Fail(c)
             \/ \E answered \in BOOLEAN : Replay(c, answered)
      PROVE  Tallied'
  <2>1. UNCHANGED <<accepted, spent, db, minute>>
    BY <1>1 DEF Ask, Conflict, Open, Operate, Fail, Replay, Refuse, Rollback, ghosts
  <2>2. tx' # NoTx => (tx # NoTx /\ tx'.window = tx.window) \/ tx'.window = minute
    <3>1. CASE Operate(c)
      <4>1. tx # NoTx /\ tx \in Transaction
        BY <3>1, NobodyHas, Having, Constants DEF Operate, Runs
      <4>2. tx' = NoTx \/ tx' = tx \/ tx' = Advanced(Operation(c))
        BY <3>1 DEF Operate, Refuse
      <4>3. Advanced(Operation(c)).window = tx.window
        BY <4>1 DEF Advanced, Transaction
      <4> QED BY <4>1, <4>2, <4>3
    <3>2. CASE Open(c)
      <4>1. tx' = NoTx \/ tx' = tx \/ tx' = Opened(c)
        BY <3>2 DEF Open, Refuse
      <4>2. Opened(c).window = minute
        BY DEF Opened, Window
      <4> QED BY <4>1, <4>2
    <3>3. CASE ~Operate(c) /\ ~Open(c)
      BY <1>1, <3>3 DEF Ask, Conflict, Fail, Replay, Refuse
    <3> QED BY <3>1, <3>2, <3>3
  <2> QED BY <1>0, <2>1, <2>2, Untallied, Typed
<1>2. ASSUME UNCHANGED vars \/ Tick \/ (\E d \in Leased : Expire(d)) \/ \E limits \in Limits : SetQuotas(limits)
      PROVE  Tallied'
  <2>1. UNCHANGED <<accepted, spent, tx>> /\ db'.usage = db.usage /\ minute <= minute'
    BY <1>2, Typed DEF vars, Tick, Expire, SetQuotas, ghosts, Draft
  <2> QED BY <1>0, <2>1, Untallied
<1> QED BY <1>1, <1>2, Tallying DEF Next

(* What is charged is what was done, and neither goes beyond the request:  *)
(* the database holds what the accepted requests do, whole, and nothing of *)
(* what a refused or failed one did before it ended; and what those of a   *)
(* Principal used in a minute is within the limit that stood when the last *)
(* of them was accepted (execute-transaction.ts:1, quotas.ts:28-58).       *)
THEOREM AccountsBalance == Spec => []Accounted
<1>1. ASSUME Init PROVE Tallied
  <2>1. Inv /\ minute = 0 /\ tx = NoTx /\ accepted = <<>>
    BY <1>1, Initially DEF Init
  <2>2. ASSUME NEW p \in Principals, NEW r \in Resources PROVE Balanced(p, r)
    <3>1. db.usage[p][r] = [window |-> 0, used |-> 0]
      BY <1>1 DEF Init, Empty
    <3>2. \A m \in 0 .. MaxMinute : spent[p][m][r] = 0
      BY <1>1 DEF Init, Nothing
    <3> QED BY <2>1, <3>1, <3>2, Constants DEF Balanced
  <2> QED BY <2>1, <2>2 DEF Tallied, WithinLimit
<1>2. ASSUME Inv, Tallied PROVE Accounted
  BY <1>2 DEF Inv, Tallied, Accounted
<1> QED BY <1>1, <1>2, InTheEnd, Always, PTL DEF Spec

-----------------------------------------------------------------------------
(* Bootstrap, for any number of invocations.                               *)
(*                                                                         *)
(* One invocation runs at a time, at a place of its walk that goes with    *)
(* the checkpoint (Placed).  A request on the wire is for who awaits it,   *)
(* or for nobody (Awaited, Alone); an answer there means that the thing    *)
(* exists (Heard, Means).  Of every sort the bootstrap has asked for one   *)
(* thing at most, and for none before the checkpoint says so (Onces).      *)

Places == {"idle", "loop", "enrolling", "creating", "asking", "issuing", "issued", "write", "mark", "copied"}
Persons == {Us, Other}
Values == {Boot!Absent} \cup Boot!Written
Checkpoints == [step : Boot!Steps, workspace : Nat, principal : Nat, file : Int]
Processes == [at : Places, workspace : Nat, principal : Nat, recover : Nat, ready : {"claimed", "pending"},
              again : BOOLEAN, key : Nat]

TenancyTypes ==
  /\ claimed \in Persons \cup {Nobody} /\ users \in SUBSET Persons /\ capability \in Values \cup {Boot!Torn}
  /\ hash \in Values /\ server \in {"down", "up", "failed"} /\ stops \in 0 .. MaxStops
  /\ workspaces \in Seq([by : Boot!Makers]) /\ principals \in Seq([by : Boot!Makers, workspace : Nat])
  /\ keys \in Seq([by : Boot!Makers, principal : Nat])
  /\ wire \in SUBSET Boot!Request /\ answers \in [Clients -> Boot!Answer]
BootTypes ==
  /\ lockFile \in BOOLEAN /\ checkpoint \in Checkpoints /\ mainFile \in Nat /\ copies \in SUBSET Nat
  /\ proc \in [Clients -> Processes]

(* What the server's process keeps is the capability's digest, until the   *)
(* enrollment is claimed; a claim is for good.                             *)
Published ==
  /\ server # "up" => hash = Boot!Absent
  /\ claimed = Nobody /\ hash # Boot!Absent => capability = hash
  /\ (users = {}) = (claimed = Nobody) /\ (claimed # Nobody => users = {claimed})
  /\ \A q \in wire : q.stage = "committed" => claimed = q.user

(* Requests: of the bootstrap for Us, and enrollments of the other one.    *)
Wired ==
  \A q \in wire :
    /\ q.op # "enroll" => q.by = "bootstrap" /\ q.user = Us /\ q.stage = "sent"
    /\ q.to # Gone => q.user = Us

(* Nothing of this sort was asked for, and once at most since then. *)
Unasked(op, made, sent) == Boot!Mine(made) = {} /\ \A q \in sent : q.op # op
Once(op, made, sent) ==
  /\ \A m, n \in Boot!Mine(made) : m = n
  /\ \A q, o \in sent : q.op = op /\ o.op = op => q = o
  /\ (\E q \in sent : q.op = op) => Boot!Mine(made) = {}
NoWorkspaceYet == {"initial", "enrollment:in-flight", "enrollment:saved"}
NoPrincipalYet == Boot!Steps \ (Boot!WithPrincipal \cup {"principal:in-flight"})
NoKeyAsked == Boot!Steps \ {"key:in-flight", "key:ambiguous", "key:saved"}
Onces ==
  /\ Once("workspace", workspaces, wire) /\ Once("principal", principals, wire) /\ Once("key", keys, wire)
  /\ checkpoint.step \in NoWorkspaceYet => Unasked("workspace", workspaces, wire)
  /\ checkpoint.step \in NoPrincipalYet => Unasked("principal", principals, wire)
  /\ checkpoint.step \in NoKeyAsked => Unasked("key", keys, wire)
  /\ (\E c \in Clients : proc[c].at \in {"asking", "issuing"}) => Unasked("key", keys, wire)

(* One invocation at a time, and where it is in the walk. *)
Active(c) == proc[c].at # "idle"
OfRecorded(k) == k \in DOMAIN keys /\ keys[k].principal = checkpoint.principal
Placed(c) ==
  /\ Active(c) => lockFile /\ \A d \in Clients \ {c} : ~Active(d)
  /\ Boot!At(c, "enrolling") => checkpoint.step = "enrollment:in-flight"
  /\ Boot!At(c, "creating") => checkpoint.step \in {"workspace:in-flight", "principal:in-flight"}
  /\ proc[c].at \in {"asking", "issuing", "issued", "write", "mark"} =>
       checkpoint.step = "key:in-flight" /\ checkpoint.file = Boot!Main
  /\ proc[c].at \in {"write", "mark"} => OfRecorded(proc[c].key)
  /\ Boot!At(c, "mark") => mainFile = proc[c].key
  /\ Boot!At(c, "copied") =>
       /\ checkpoint.step \in {"key:ambiguous", "key:saved"}
       /\ proc[c].recover # 0 /\ proc[c].recover \in copies /\ OfRecorded(proc[c].recover)

(* What a place waits for, and what an answer there means *)
Awaits(c, op) ==
  \/ op = "enroll" /\ Boot!At(c, "enrolling")
  \/ op = "workspace" /\ Boot!At(c, "creating") /\ checkpoint.step = "workspace:in-flight"
  \/ op = "principal" /\ Boot!At(c, "creating") /\ checkpoint.step = "principal:in-flight"
  \/ op = "key" /\ Boot!At(c, "issued")
Means(c, value) ==
  /\ Awaits(c, "enroll") => claimed = Us
  /\ Awaits(c, "workspace") => value \in DOMAIN workspaces
  /\ Awaits(c, "principal") => Boot!Listed(checkpoint.workspace, value)
  /\ Awaits(c, "key") => OfRecorded(value)
Awaited(q) ==
  q.to # Gone =>
    /\ Awaits(q.to, q.op) /\ answers[q.to].status = "none"
    /\ q.op = "principal" => q.on = checkpoint.workspace
    /\ q.op = "key" => q.on = checkpoint.principal
Heard(c) ==
  /\ answers[c].status # "none" => \E op \in Boot!Operations : Awaits(c, op)
  /\ answers[c].status = "ok" => Means(c, answers[c].value)
Alone == \A q, o \in wire : q.to # Gone /\ o.to = q.to => o = q

Recorded ==
  /\ Boot!EvidenceTrue
  /\ checkpoint.file \in Boot!Recovered => checkpoint.file \in copies

BootInv ==
  /\ TenancyTypes /\ BootTypes /\ Published /\ Wired /\ Onces
  /\ (\A c \in Clients : Placed(c) /\ Heard(c)) /\ (\A q \in wire : Awaited(q)) /\ Alone /\ Recorded

-----------------------------------------------------------------------------
(* Facts in the words of the proofs                                        *)

OperationNames == {"enroll", "workspace", "principal", "key"}
RequestSet == [op : OperationNames, to : Clients \cup {Gone}, user : Persons, by : {"bootstrap", "hand"},
              on : Nat, token : Values, stage : {"sent", "checked", "committed"}]

LEMMA BootConstants ==
  /\ Gone \notin Clients /\ Us # Other /\ Nobody \notin Persons /\ Us \in Persons
  /\ MaxStops \in Nat /\ MaxByHand \in Nat
  /\ Boot!Operations = OperationNames /\ Boot!Request = RequestSet /\ Boot!Makers = {"bootstrap", "hand"}
BY PartsGiven DEF Boot!TenancyAssumption, Persons, Values, OperationNames, RequestSet, Boot!Operations,
   Boot!Request, Boot!Makers

LEMMA Asks ==
  ASSUME NEW q \in Boot!Request
  PROVE  /\ q.op \in OperationNames /\ q.to \in Clients \cup {Gone} /\ q.user \in Persons
         /\ q.by \in Boot!Makers /\ q.on \in Nat /\ q.stage \in {"sent", "checked", "committed"}
         /\ q.token \in Values
         /\ q = [op |-> q.op, to |-> q.to, user |-> q.user, by |-> q.by, on |-> q.on, token |-> q.token,
                 stage |-> q.stage]
BY BootConstants DEF RequestSet

LEMMA Renamed ==
  ASSUME NEW q \in Boot!Request, NEW to \in Clients \cup {Gone}
  PROVE  LET o == [q EXCEPT !.to = to]
         IN  /\ o \in Boot!Request /\ o.to = to /\ o.op = q.op /\ o.user = q.user /\ o.by = q.by
             /\ o.on = q.on /\ o.stage = q.stage /\ o.token = q.token
BY BootConstants DEF RequestSet

LEMMA Staged ==
  ASSUME NEW q \in Boot!Request, NEW stage \in {"sent", "checked", "committed"}
  PROVE  LET o == [q EXCEPT !.stage = stage]
         IN  /\ o \in Boot!Request /\ o.stage = stage /\ o.op = q.op /\ o.user = q.user /\ o.by = q.by
             /\ o.on = q.on /\ o.to = q.to /\ o.token = q.token
BY BootConstants DEF RequestSet

LEMMA Moved ==
  ASSUME NEW r \in Processes, NEW at \in Places
  PROVE  LET p == [r EXCEPT !.at = at]
         IN  /\ p \in Processes /\ p.at = at /\ p.workspace = r.workspace /\ p.principal = r.principal
             /\ p.recover = r.recover /\ p.ready = r.ready /\ p.again = r.again /\ p.key = r.key
BY DEF Processes

LEMMA IdleIs == Boot!Idle \in Processes /\ Boot!Idle.at = "idle"
<1>1. Boot!Idle = [at |-> "idle", workspace |-> 0, principal |-> 0, recover |-> 0,
                    ready |-> "claimed", again |-> FALSE, key |-> 0]
  BY DEF Boot!Idle
<1> QED BY <1>1 DEF Processes, Places

LEMMA Saves ==
  ASSUME NEW k \in Checkpoints, NEW step \in Boot!Steps
  PROVE  LET n == [k EXCEPT !.step = step]
         IN  /\ n \in Checkpoints /\ n.step = step /\ n.workspace = k.workspace
             /\ n.principal = k.principal /\ n.file = k.file
BY DEF Checkpoints

LEMMA BootTyped ==
  ASSUME BootInv
  PROVE  /\ TenancyTypes /\ BootTypes /\ checkpoint \in Checkpoints /\ checkpoint.step \in Boot!Steps
         /\ checkpoint.workspace \in Nat /\ checkpoint.principal \in Nat /\ checkpoint.file \in Int
         /\ proc \in [Clients -> Processes] /\ wire \subseteq Boot!Request
         /\ answers \in [Clients -> Boot!Answer] /\ copies \subseteq Nat /\ mainFile \in Nat
         /\ \A c \in Clients : proc[c] \in Processes /\ proc[c].at \in Places /\ answers[c] \in Boot!Answer
BY DEF BootInv, TenancyTypes, BootTypes, Checkpoints, Processes

LEMMA AnswersAre ==
  /\ Boot!NoAnswer \in Boot!Answer /\ Boot!NoAnswer.status = "none"
  /\ \A status \in {"none", "ok", "refused", "failed"}, value \in Nat :
       [status |-> status, value |-> value] \in Boot!Answer
  /\ \A a \in Boot!Answer : a.value \in Nat
BY DEF Boot!Answer, Boot!NoAnswer

(* Where nothing is awaited, nothing is under way to the invocation and    *)
(* there is no answer.                                                     *)
LEMMA NotAwaiting ==
  ASSUME BootInv, NEW c \in Clients, proc[c].at \notin {"enrolling", "creating", "issued"}
  PROVE  (\A q \in wire : q.to # c) /\ answers[c].status = "none"
<1>1. \A op : ~Awaits(c, op)
  BY DEF Awaits, Boot!At
<1>2. Heard(c)
  BY DEF BootInv
<1>3. ASSUME NEW q \in wire, q.to = c PROVE FALSE
  BY <1>1, <1>3, BootConstants DEF BootInv, Awaited
<1> QED BY <1>1, <1>2, <1>3 DEF Heard

-----------------------------------------------------------------------------
(* The steps of an invocation: what stays of the wire (w), when everything *)
(* addressed to c is addressed to nobody any more, and what is sent (new). *)

Stays(c, w) ==
  /\ w \subseteq Boot!Request /\ \A q \in w : q.to # c
  /\ \A q \in w : /\ q.stage = "committed" => claimed = q.user
                  /\ q.op # "enroll" => q.by = "bootstrap" /\ q.user = Us /\ q.stage = "sent"
                  /\ q.to # Gone => q \in wire
                  /\ \E o \in wire : o.op = q.op
  /\ \A q, o \in w : q.op = o.op /\ q.op # "enroll" => q = o

LEMMA OncePerSort ==
  ASSUME BootInv, NEW q \in wire, NEW o \in wire, q.op = o.op, q.op # "enroll"
  PROVE  q = o
<1>1. q.op \in OperationNames
  BY Asks, BootTyped
<1> QED BY <1>1 DEF BootInv, Onces, Once, OperationNames

LEMMA SameStays ==
  ASSUME BootInv, NEW c \in Clients, \A q \in wire : q.to # c
  PROVE  Stays(c, wire)
<1>1. /\ wire \subseteq Boot!Request
      /\ \A q \in wire : /\ q.stage = "committed" => claimed = q.user
                         /\ q.op # "enroll" => q.by = "bootstrap" /\ q.user = Us /\ q.stage = "sent"
  BY BootTyped DEF BootInv, Published, Wired
<1> QED BY <1>1, OncePerSort DEF Stays

NotTo(c, r) == [r EXCEPT !.to = IF @ = c THEN Gone ELSE @]
Forgotten(c) == {NotTo(c, r) : r \in wire}
LEMMA ForgottenStays ==
  ASSUME BootInv, NEW c \in Clients
  PROVE  Stays(c, Forgotten(c))
<1>1. ASSUME NEW q \in Forgotten(c)
      PROVE  \E o \in wire : /\ q \in Boot!Request /\ q.to # c /\ q.op = o.op /\ q.user = o.user /\ q.by = o.by
                             /\ q.stage = o.stage /\ (q.to # Gone => q = o)
                             /\ q = NotTo(c, o)
  <2>1. PICK o \in wire : q = NotTo(c, o)
    BY DEF Forgotten
  <2>2. PICK to : to = IF o.to = c THEN Gone ELSE o.to
    OBVIOUS
  <2>3. o \in Boot!Request /\ to \in Clients \cup {Gone} /\ to # c
    BY <2>2, Asks, BootTyped, BootConstants
  <2>4. q = [o EXCEPT !.to = to]
    BY <2>1, <2>2 DEF NotTo
  <2>5. to # Gone => q = o
    <3>1. to # Gone => to = o.to
      BY <2>2
    <3>2. \A t : t = o.to => [o EXCEPT !.to = t] = o
      BY <2>3, BootConstants DEF RequestSet
    <3> QED BY <2>4, <3>1, <3>2, Zenon
  <2>6. /\ q \in Boot!Request /\ q.to = to /\ q.op = o.op /\ q.user = o.user /\ q.by = o.by
        /\ q.stage = o.stage
    BY <2>3, <2>4, Renamed
  <2> QED BY <2>1, <2>3, <2>5, <2>6
<1>2. ASSUME NEW q \in Forgotten(c), NEW o \in Forgotten(c), q.op = o.op, q.op # "enroll"
      PROVE  q = o
  <2>1. PICK a \in wire : q.op = a.op /\ q = NotTo(c, a)
    BY <1>1
  <2>2. PICK b \in wire : o.op = b.op /\ o = NotTo(c, b)
    BY <1>1
  <2>3. a = b
    BY <1>2, <2>1, <2>2, OncePerSort
  <2> QED BY <2>1, <2>2, <2>3
<1>3. \A o \in wire : /\ o.stage = "committed" => claimed = o.user
                      /\ o.op # "enroll" => o.by = "bootstrap" /\ o.user = Us /\ o.stage = "sent"
  BY DEF BootInv, Published, Wired
<1>4. ASSUME NEW q \in Forgotten(c)
      PROVE  /\ q \in Boot!Request /\ q.to # c /\ (q.stage = "committed" => claimed = q.user)
             /\ q.op # "enroll" => q.by = "bootstrap" /\ q.user = Us /\ q.stage = "sent"
             /\ q.to # Gone => q \in wire
             /\ \E o \in wire : o.op = q.op
  BY <1>1, <1>3, <1>4
<1> QED BY <1>2, <1>4 DEF Stays

-----------------------------------------------------------------------------
(* The server's steps: the invocations and their files stay as they are    *)

Grows(made, more) == /\ DOMAIN made \subseteq DOMAIN more
                     /\ \A n \in DOMAIN made : more[n] = made[n]
More == /\ Grows(workspaces, workspaces') /\ Grows(principals, principals') /\ Grows(keys, keys')
        /\ claimed # Nobody => claimed' = claimed

(* Nothing that exists goes away, so what was recorded stays true. *)
LEMMA Monotone ==
  ASSUME BootInv, More, UNCHANGED Boot!bootVars
  PROVE  /\ BootTypes' /\ Recorded'
         /\ \A c \in Clients : Placed(c)'
         /\ \A c, op : Awaits(c, op)' = Awaits(c, op)
         /\ \A c, value : Means(c, value) => Means(c, value)'
<1> USE DEF Boot!bootVars
<1>1. BootTypes' /\ (\A c, op : Awaits(c, op)' = Awaits(c, op))
  BY DEF BootInv, BootTypes, Awaits, Boot!At
<1>2. \A k : OfRecorded(k) => OfRecorded(k)'
  BY DEF OfRecorded, More, Grows
<1>3. \A w, p : /\ Boot!Listed(w, p) => Boot!Listed(w, p)'
                /\ Boot!Exists(w) => Boot!Exists(w)'
  BY DEF Boot!Listed, Boot!Exists, More, Grows
<1>4. ASSUME NEW c \in Clients PROVE Placed(c)'
  <2>1. Placed(c)
    BY DEF BootInv
  <2> QED BY <2>1, <1>2 DEF Placed, Active, Boot!At
<1>5. claimed = Us => claimed' = Us
  BY BootConstants DEF More
<1>6. Recorded'
  <2>1. Boot!KeyIn(checkpoint.file)' = Boot!KeyIn(checkpoint.file)
    BY DEF Boot!KeyIn
  <2>2. /\ checkpoint.step \in Boot!WithUser => claimed' = Us
        /\ checkpoint.step \in Boot!WithWorkspace => Boot!Exists(checkpoint.workspace)'
        /\ checkpoint.step \in Boot!WithPrincipal => Boot!Listed(checkpoint.workspace, checkpoint.principal)'
    BY <1>3, <1>5 DEF BootInv, Recorded, Boot!EvidenceTrue
  <2>3. ASSUME checkpoint.step = "key:saved"
        PROVE  /\ Boot!KeyIn(checkpoint.file) \in DOMAIN keys'
               /\ keys'[Boot!KeyIn(checkpoint.file)].principal = checkpoint.principal
               /\ checkpoint.file \in Boot!Recovered => checkpoint.file \in copies
    BY <2>3 DEF BootInv, Recorded, Boot!EvidenceTrue, More, Grows
  <2>4. Boot!EvidenceTrue'
    BY <2>1, <2>2, <2>3 DEF Boot!EvidenceTrue, Boot!KeyIn, Boot!Exists, Boot!Listed
  <2> QED BY <2>4 DEF BootInv, Recorded
<1>7. ASSUME NEW c, NEW value, Means(c, value) PROVE Means(c, value)'
  <2>1. \A op \in OperationNames : Awaits(c, op)' = Awaits(c, op)
    BY <1>1
  <2>2. \A w : Boot!Listed(w, value) => Boot!Listed(w, value)'
    BY <1>3
  <2>3. OfRecorded(value) => OfRecorded(value)'
    BY <1>2
  <2>4. /\ Awaits(c, "enroll")' => claimed' = Us
        /\ Awaits(c, "workspace")' => value \in DOMAIN workspaces'
    BY <1>5, <1>7, <2>1 DEF Means, More, Grows, OperationNames
  <2>5. Awaits(c, "principal")' => Boot!Listed(checkpoint.workspace, value)'
    BY <1>7, <2>1, <2>2 DEF Means, OperationNames
  <2>6. Awaits(c, "key")' => OfRecorded(value)'
    BY <1>7, <2>1, <2>3 DEF Means, OperationNames
  <2> QED BY <2>4, <2>5, <2>6 DEF Means
<1> QED BY <1>1, <1>4, <1>6, <1>7

(* An answer goes to the invocation that awaits it, and to no other. *)
LEMMA Replied ==
  ASSUME BootInv, More, UNCHANGED Boot!bootVars, NEW r \in wire, wire' = wire \ {r},
         NEW status \in {"ok", "refused", "failed"}, NEW value \in Nat, Boot!Reply(r, status, value),
         status = "ok" /\ r.to # Gone => Means(r.to, value)'
  PROVE  /\ answers' \in [Clients -> Boot!Answer] /\ Alone'
         /\ (\A c \in Clients : Heard(c)') /\ (\A q \in wire' : Awaited(q)')
<1>1. r.to \in Clients \cup {Gone} /\ Gone \notin Clients /\ r.op \in Boot!Operations
  BY Asks, BootTyped, BootConstants
<1>2. PICK a : a = [status |-> status, value |-> value]
  OBVIOUS
<1>3. a \in Boot!Answer /\ a.status = status /\ a.value = value
  BY <1>2, AnswersAre
<1>4. answers' \in [Clients -> Boot!Answer] /\ \A d \in Clients : d # r.to => answers'[d] = answers[d]
  <2>1. CASE r.to = Gone
    BY <1>1, <2>1, BootTyped DEF Boot!Reply
  <2>2. CASE r.to # Gone
    <3>1. answers' = [answers EXCEPT ![r.to] = a]
      BY <1>2, <2>2 DEF Boot!Reply
    <3> QED BY <1>3, <3>1, BootTyped
  <2> QED BY <2>1, <2>2
<1>5. r.to # Gone => answers'[r.to] = a /\ Awaits(r.to, r.op)
  <2>1. ASSUME r.to # Gone PROVE answers' = [answers EXCEPT ![r.to] = a]
    BY <1>2, <2>1 DEF Boot!Reply
  <2> QED BY <1>1, <2>1, BootTyped DEF BootInv, Awaited
<1>6. ASSUME NEW c \in Clients PROVE Heard(c)'
  <2>1. Heard(c)
    BY DEF BootInv
  <2>2. CASE c = r.to
    <3>1. answers'[c].status = status /\ answers'[c].value = value /\ Awaits(c, r.op)'
      BY <1>1, <1>3, <1>5, <2>2, Monotone
    <3> QED BY <1>1, <2>2, <3>1 DEF Heard
  <2>3. CASE c # r.to
    BY <1>4, <2>1, <2>3, Monotone DEF Heard
  <2> QED BY <2>2, <2>3
<1>7. ASSUME NEW q \in wire', q.to # Gone
      PROVE  Awaited(q)'
  <2>1. q \in wire /\ q # r /\ Awaited(q) /\ q.to \in Clients
    BY <1>7, Asks, BootTyped DEF BootInv
  <2>2. q.to # r.to
    BY <1>7, <2>1 DEF BootInv, Alone
  <2> QED BY <1>4, <1>7, <2>1, <2>2, Monotone DEF Awaited, Boot!bootVars
<1>8. Alone' /\ \A q \in wire' : q.to = Gone => Awaited(q)'
  BY DEF BootInv, Alone, Awaited
<1> QED BY <1>4, <1>6, <1>7, <1>8

LEMMA ServerKeeps ==
  ASSUME BootInv, More, UNCHANGED Boot!bootVars, TenancyTypes', Published', Wired', Onces', Alone',
         \A c \in Clients : Heard(c)', \A q \in wire' : Awaited(q)'
  PROVE  BootInv'
BY Monotone DEF BootInv

LEMMA OncesKept ==
  ASSUME BootInv, UNCHANGED <<Boot!objects, checkpoint, proc>>,
         \A q \in wire' : q.op # "enroll" => q \in wire
  PROVE  Onces'
<1>1. \A made : \A op \in {"workspace", "principal", "key"} :
        /\ Once(op, made, wire) => Once(op, made, wire')
        /\ Unasked(op, made, wire) => Unasked(op, made, wire')
  BY DEF Once, Unasked
<1>2. /\ workspaces' = workspaces /\ principals' = principals /\ keys' = keys
      /\ checkpoint' = checkpoint /\ proc' = proc
  BY DEF Boot!objects
<1>3. /\ Once("workspace", workspaces', wire') /\ Once("principal", principals', wire') /\ Once("key", keys', wire')
      /\ checkpoint'.step \in NoWorkspaceYet => Unasked("workspace", workspaces', wire')
      /\ checkpoint'.step \in NoPrincipalYet => Unasked("principal", principals', wire')
      /\ checkpoint'.step \in NoKeyAsked => Unasked("key", keys', wire')
      /\ (\E c \in Clients : proc'[c].at \in {"asking", "issuing"}) => Unasked("key", keys', wire')
  BY <1>1, <1>2 DEF BootInv, Onces
<1> QED BY <1>3 DEF Onces

LEMMA HeardSame ==
  ASSUME BootInv, More, UNCHANGED Boot!bootVars, UNCHANGED answers
  PROVE  \A c \in Clients : Heard(c)'
<1>1. ASSUME NEW c \in Clients PROVE Heard(c)'
  BY Monotone DEF BootInv, Heard
<1> QED BY <1>1

LEMMA AwaitedSame ==
  ASSUME BootInv, More, UNCHANGED Boot!bootVars, UNCHANGED answers,
         \A q \in wire' : q.to # Gone => \E o \in wire : o.to = q.to /\ o.op = q.op /\ o.on = q.on
  PROVE  \A q \in wire' : Awaited(q)'
<1>1. ASSUME NEW q \in wire', q.to # Gone PROVE Awaited(q)'
  <2>1. PICK o \in wire : o.to = q.to /\ o.op = q.op /\ o.on = q.on
    BY <1>1
  <2>2. Awaited(o) /\ o.to \in Clients
    BY <1>1, <2>1, Asks, BootTyped DEF BootInv
  <2>3. Awaits(q.to, q.op)' = Awaits(q.to, q.op)
    BY <2>1, <2>2, Monotone
  <2> QED BY <1>1, <2>1, <2>2, <2>3 DEF Awaited, Boot!bootVars
<1> QED BY <1>1 DEF Awaited

(* Steps of the server that create nothing and handle nothing *)
LEMMA StartKeeps ==
  ASSUME BootInv, Boot!Start, UNCHANGED Boot!bootVars
  PROVE  BootInv'
<1> USE DEF Boot!Start, Boot!objects
<1>1. More
  BY DEF More, Grows
<1>2. TenancyTypes'
  <2>1. /\ hash' \in Values /\ server' \in {"down", "up", "failed"}
        /\ capability' \in Values \cup {Boot!Torn} /\ stops' \in 0 .. MaxStops
    <3>1. /\ hash \in Values /\ capability \in Values \cup {Boot!Torn} /\ stops \in 0 .. MaxStops
          /\ server \in {"down", "up", "failed"}
      BY BootTyped DEF TenancyTypes
    <3>2. /\ Boot!Absent \in Values /\ Boot!Written \subseteq Values /\ MaxStops \in Nat
          /\ \A n \in 0 .. MaxStops : 2 + n \in Values
      BY BootConstants DEF Values, Boot!Written, Boot!Absent
    <3>3. hash' \in Values
      BY <3>1, <3>2
    <3>4. capability' \in Values \cup {Boot!Torn} /\ stops' \in 0 .. MaxStops /\ server' \in {"down", "up", "failed"}
      BY <3>1, <3>2
    <3> QED BY <3>3, <3>4
  <2> QED BY <2>1, BootTyped DEF TenancyTypes
<1>3. Published'
  <2>1. hash = Boot!Absent
    BY DEF BootInv, Published
  <2>2. claimed = Nobody => users = {}
    BY DEF BootInv, Published
  <2>3. /\ server' # "up" => hash' = Boot!Absent
        /\ claimed = Nobody /\ hash' # Boot!Absent => capability' = hash'
    BY <2>1, <2>2
  <2> QED BY <2>3 DEF BootInv, Published
<1>4. Wired' /\ Alone' /\ Onces'
  <2>1. Wired' /\ Alone'
    BY DEF BootInv, Wired, Alone
  <2> QED BY <2>1, OncesKept DEF Boot!bootVars
<1> QED BY <1>1, <1>2, <1>3, <1>4, HeardSame, AwaitedSame, ServerKeeps

LEMMA StopKeeps ==
  ASSUME BootInv, Boot!Stop \/ Boot!Repair, UNCHANGED Boot!bootVars
  PROVE  BootInv'
<1> USE DEF Boot!objects
<1>1. More /\ wire' \subseteq wire /\ UNCHANGED <<users, claimed, Boot!objects, answers>>
  BY DEF Boot!Stop, Boot!Repair, More, Grows
<1>2. TenancyTypes'
  <2>1. /\ hash' \in Values /\ server' \in {"down", "up", "failed"}
        /\ capability' \in Values \cup {Boot!Torn} /\ stops' \in 0 .. MaxStops
    BY BootTyped, BootConstants DEF TenancyTypes, Values, Boot!Written, Boot!Absent, Boot!Torn, Boot!Stop, Boot!Repair
  <2> QED BY <1>1, <2>1, BootTyped DEF TenancyTypes
<1>3. Published'
  <2>1. hash' = Boot!Absent
    BY DEF BootInv, Published, Boot!Stop, Boot!Repair
  <2> QED BY <1>1, <2>1 DEF BootInv, Published
<1>4. Wired' /\ Alone'
  BY <1>1 DEF BootInv, Wired, Alone
<1>5. Onces'
  BY <1>1, OncesKept DEF Boot!bootVars
<1> QED BY <1>1, <1>2, <1>3, <1>4, <1>5, HeardSame, AwaitedSame, ServerKeeps

LEMMA OtherKeeps ==
  ASSUME BootInv, Boot!OtherEnrolls, UNCHANGED Boot!bootVars
  PROVE  BootInv'
<1> USE DEF Boot!objects, Boot!identity
<1>1. More /\ UNCHANGED <<Boot!identity, Boot!objects, answers>>
  BY DEF Boot!OtherEnrolls, More, Grows
<1>2. PICK n : n = [op |-> "enroll", to |-> Gone, user |-> Other, by |-> "hand",
                    on |-> 0, token |-> capability, stage |-> "sent"]
  OBVIOUS
<1>3. /\ wire' = wire \cup {n} /\ n \in Boot!Request /\ n.op = "enroll" /\ n.to = Gone /\ n.stage = "sent"
  <2>1. capability \in Values
    BY DEF Boot!OtherEnrolls, Values
  <2> QED BY <1>2, <2>1, BootConstants DEF Boot!OtherEnrolls, RequestSet, Persons, OperationNames
<1> HIDE DEF Boot!objects, Boot!identity
<1>4. TenancyTypes'
  BY <1>1, <1>3, BootTyped DEF TenancyTypes, Boot!identity, Boot!objects
<1>5. Published'
  <2>1. UNCHANGED <<server, hash, claimed, users, capability>>
    BY <1>1 DEF Boot!identity
  <2> QED BY <1>3, <2>1 DEF BootInv, Published
<1>6. Wired' /\ Alone'
  <2>1. \A q \in wire : q.op # "enroll" => q.by = "bootstrap" /\ q.user = Us /\ q.stage = "sent"
    BY DEF BootInv, Wired
  <2>2. \A q \in wire : q.to # Gone => q.user = Us
    BY DEF BootInv, Wired
  <2>3. \A q, o \in wire' : q.to # Gone /\ o.to = q.to => q \in wire /\ o \in wire
    BY <1>3
  <2> QED BY <1>3, <2>1, <2>2, <2>3 DEF BootInv, Wired, Alone
<1>7. Onces'
  BY <1>1, <1>3, OncesKept DEF Boot!bootVars
<1>8. \A q \in wire' : Awaited(q)'
  <2>1. \A q \in wire' : q.to # Gone => \E o \in wire : o.to = q.to /\ o.op = q.op /\ o.on = q.on
    BY <1>3
  <2> QED BY <1>1, <2>1, AwaitedSame
<1> QED BY <1>1, <1>4, <1>5, <1>6, <1>7, <1>8, HeardSame, ServerKeeps

(* The handlers: a request goes on, or is answered *)
CommittedTrue == \A q \in wire : q.stage = "committed" => claimed = q.user

LEMMA CommittedStays ==
  ASSUME BootInv, More, NEW q \in wire, q.stage = "committed"
  PROVE  claimed' = q.user
<1>1. claimed = q.user /\ q.user \in Persons
  BY Asks, BootTyped DEF BootInv, Published
<1> QED BY <1>1, BootConstants DEF More

LEMMA Advancing ==
  ASSUME BootInv, More, UNCHANGED Boot!bootVars, UNCHANGED <<Boot!objects, answers>>,
         NEW r \in wire, r.op = "enroll", NEW stage \in {"checked", "committed"}, Boot!Advance(r, stage),
         stage = "committed" => claimed' = r.user
  PROVE  /\ wire' \in SUBSET Boot!Request /\ Wired' /\ Onces' /\ Alone' /\ CommittedTrue'
         /\ (\A c \in Clients : Heard(c)') /\ (\A q \in wire' : Awaited(q)')
<1>1. r \in Boot!Request /\ wire \subseteq Boot!Request
  BY BootTyped
<1>2. PICK n : n = [r EXCEPT !.stage = stage]
  OBVIOUS
<1>3. /\ n \in Boot!Request /\ n.stage = stage /\ n.op = "enroll" /\ n.user = r.user /\ n.by = r.by
      /\ n.on = r.on /\ n.to = r.to
  <2>1. stage \in {"sent", "checked", "committed"}
    OBVIOUS
  <2>2. /\ n \in Boot!Request /\ n.stage = stage /\ n.op = r.op /\ n.user = r.user /\ n.by = r.by
        /\ n.on = r.on /\ n.to = r.to
    BY <1>1, <1>2, <2>1, Staged
  <2> QED BY <2>2
<1>4. wire' = (wire \ {r}) \cup {n}
  BY <1>2 DEF Boot!Advance
<1>5. wire' \in SUBSET Boot!Request
  BY <1>1, <1>3, <1>4
<1>6. Wired'
  <2>1. ASSUME NEW q \in wire'
        PROVE  /\ q.op # "enroll" => q.by = "bootstrap" /\ q.user = Us /\ q.stage = "sent"
               /\ q.to # Gone => q.user = Us
    BY <1>3, <1>4, <2>1 DEF BootInv, Wired
  <2> QED BY <2>1 DEF Wired
<1>7. Onces'
  BY <1>3, <1>4, OncesKept DEF Boot!bootVars
<1>8. Alone'
  <2>1. ASSUME NEW q \in wire', NEW o \in wire', q.to # Gone, o.to = q.to PROVE o = q
    <3>1. q \in wire \/ q = n
      BY <1>4
    <3>2. o \in wire \/ o = n
      BY <1>4
    <3> QED BY <1>3, <1>4, <2>1, <3>1, <3>2 DEF BootInv, Alone
  <2> QED BY <2>1 DEF Alone
<1>9. CommittedTrue'
  BY <1>3, <1>4, CommittedStays DEF CommittedTrue
<1>10. \A q \in wire' : Awaited(q)'
  <2>1. \A q \in wire' : q.to # Gone => \E o \in wire : o.to = q.to /\ o.op = q.op /\ o.on = q.on
    BY <1>3, <1>4
  <2> QED BY <2>1, AwaitedSame
<1> QED BY <1>5, <1>6, <1>7, <1>8, <1>9, <1>10, HeardSame

LEMMA Removing ==
  ASSUME BootInv, More, NEW r \in wire, Boot!Done(r)
  PROVE  wire' \in SUBSET Boot!Request /\ wire' \subseteq wire /\ wire' = wire \ {r} /\ Wired' /\ CommittedTrue'
BY BootTyped, CommittedStays DEF Boot!Done, BootInv, Wired, CommittedTrue

LEMMA EnrollCheckKeeps ==
  ASSUME BootInv, NEW r \in wire, Boot!EnrollCheck(r), UNCHANGED Boot!bootVars
  PROVE  BootInv'
<1>1. More /\ UNCHANGED <<Boot!identity, Boot!objects>> /\ r.op = "enroll"
  BY DEF Boot!EnrollCheck, More, Grows, Boot!identity, Boot!objects
<1>2. /\ wire' \in SUBSET Boot!Request /\ Wired' /\ Onces' /\ Alone' /\ CommittedTrue'
      /\ (\A c \in Clients : Heard(c)') /\ (\A q \in wire' : Awaited(q)')
      /\ answers' \in [Clients -> Boot!Answer]
  <2>1. CASE Boot!Observed = "pending" /\ Boot!TokenValid(r)
    <3>1. Boot!Advance(r, "checked") /\ UNCHANGED answers
      BY <2>1 DEF Boot!EnrollCheck
    <3> QED BY <1>1, <3>1, Advancing, BootTyped
  <2>2. CASE ~(Boot!Observed = "pending" /\ Boot!TokenValid(r))
    <3>1. PICK status \in {"refused", "failed"} : Boot!Done(r) /\ Boot!Reply(r, status, 0)
      BY <2>2 DEF Boot!EnrollCheck
    <3>2. wire' \in SUBSET Boot!Request /\ wire' \subseteq wire /\ wire' = wire \ {r} /\ Wired' /\ CommittedTrue'
      BY <1>1, <3>1, Removing
    <3>3. Onces'
      BY <1>1, <3>2, OncesKept DEF Boot!bootVars
    <3> QED BY <1>1, <3>1, <3>2, <3>3, Replied
  <2> QED BY <2>1, <2>2
<1>3. TenancyTypes'
  BY <1>1, <1>2, BootTyped DEF TenancyTypes, Boot!identity, Boot!objects
<1>4. Published'
  BY <1>1, <1>2 DEF BootInv, Published, CommittedTrue, Boot!identity
<1> QED BY <1>1, <1>2, <1>3, <1>4, ServerKeeps

LEMMA EnrollCommitKeeps ==
  ASSUME BootInv, NEW r \in wire, Boot!EnrollCommit(r), UNCHANGED Boot!bootVars
  PROVE  BootInv'
<1>1. /\ UNCHANGED <<capability, hash, server, stops, Boot!objects>> /\ r.op = "enroll"
      /\ UNCHANGED workspaces /\ UNCHANGED principals /\ UNCHANGED keys
  BY DEF Boot!EnrollCommit, Boot!objects
<1>2. r \in Boot!Request /\ r.user \in Persons
  BY BootTyped, Asks
<1>3. CASE Boot!StillPending /\ users' = users \cup {r.user} /\ claimed' = r.user
           /\ Boot!Advance(r, "committed") /\ UNCHANGED answers
  <2>1. More
    BY <1>1, <1>3 DEF More, Grows, Boot!StillPending
  <2>2. /\ wire' \in SUBSET Boot!Request /\ Wired' /\ Onces' /\ Alone' /\ CommittedTrue'
        /\ (\A c \in Clients : Heard(c)') /\ (\A q \in wire' : Awaited(q)')
    BY <1>1, <1>3, <2>1, Advancing
  <2>3. users' = {r.user} /\ claimed' = r.user /\ claimed' # Nobody
    BY <1>2, <1>3, BootConstants DEF Boot!StillPending
  <2>4. TenancyTypes'
    BY <1>1, <1>2, <1>3, <2>2, <2>3, BootTyped DEF TenancyTypes, Boot!objects
  <2>5. Published'
    BY <1>1, <2>2, <2>3 DEF BootInv, Published, CommittedTrue
  <2> QED BY <2>1, <2>2, <2>4, <2>5, ServerKeeps
<1>4. CASE Boot!Done(r) /\ (\E status \in {"refused", "failed"} : Boot!Reply(r, status, 0)) /\ UNCHANGED <<users, claimed>>
  <2>1. More
    BY <1>1, <1>4 DEF More, Grows
  <2>2. PICK status \in {"refused", "failed"} : Boot!Reply(r, status, 0)
    BY <1>4
  <2>3. wire' \in SUBSET Boot!Request /\ wire' \subseteq wire /\ wire' = wire \ {r} /\ Wired' /\ CommittedTrue'
    BY <1>4, <2>1, Removing
  <2>4. Onces'
    BY <1>1, <2>3, OncesKept DEF Boot!bootVars
  <2>5. /\ answers' \in [Clients -> Boot!Answer] /\ Alone'
        /\ (\A c \in Clients : Heard(c)') /\ (\A q \in wire' : Awaited(q)')
    BY <2>1, <2>2, <2>3, Replied
  <2>6. TenancyTypes'
    BY <1>1, <1>4, <2>3, <2>5, BootTyped DEF TenancyTypes, Boot!objects
  <2>7. Published'
    BY <1>1, <1>4, <2>3 DEF BootInv, Published, CommittedTrue
  <2> QED BY <2>1, <2>3, <2>4, <2>5, <2>6, <2>7, ServerKeeps
<1> QED BY <1>3, <1>4 DEF Boot!EnrollCommit

LEMMA EnrollAnswerKeeps ==
  ASSUME BootInv, NEW r \in wire, Boot!EnrollAnswer(r), UNCHANGED Boot!bootVars
  PROVE  BootInv'
<1>1. /\ More /\ UNCHANGED <<users, claimed, hash, server, stops, Boot!objects>> /\ r.op = "enroll"
      /\ r.stage = "committed" /\ Boot!Done(r) /\ Boot!Reply(r, "ok", 0) /\ capability' \in {Boot!Absent, capability}
  BY DEF Boot!EnrollAnswer, More, Grows, Boot!objects
<1>2. wire' \in SUBSET Boot!Request /\ wire' \subseteq wire /\ wire' = wire \ {r} /\ Wired' /\ CommittedTrue'
  BY <1>1, Removing
<1>3. claimed = r.user /\ claimed # Nobody /\ (r.to # Gone => r.user = Us)
  BY <1>1, Asks, BootTyped, BootConstants DEF BootInv, Published, Wired
<1>4. ASSUME r.to # Gone PROVE Means(r.to, 0)'
  <2>1. Awaits(r.to, "enroll")
    BY <1>1, <1>4 DEF BootInv, Awaited
  <2>2. /\ ~Awaits(r.to, "workspace") /\ ~Awaits(r.to, "principal") /\ ~Awaits(r.to, "key")
    BY <2>1 DEF Awaits, Boot!At
  <2>3. Means(r.to, 0)
    BY <1>3, <1>4, <2>2 DEF Means
  <2>4. r.to \in Clients
    BY <1>4, Asks, BootTyped
  <2> QED BY <1>1, <2>3, <2>4, Monotone
<1>5. Onces'
  BY <1>1, <1>2, OncesKept DEF Boot!bootVars
<1>6. /\ answers' \in [Clients -> Boot!Answer] /\ Alone'
      /\ (\A c \in Clients : Heard(c)') /\ (\A q \in wire' : Awaited(q)')
  BY <1>1, <1>2, <1>4, Replied
<1>7. TenancyTypes'
  <2>1. capability' \in Values \cup {Boot!Torn}
    BY <1>1, BootTyped DEF TenancyTypes, Values
  <2> QED BY <1>1, <1>2, <1>6, <2>1, BootTyped DEF TenancyTypes, Boot!objects
<1>8. Published'
  BY <1>1, <1>2, <1>3 DEF BootInv, Published, CommittedTrue
<1> QED BY <1>1, <1>2, <1>5, <1>6, <1>7, <1>8, ServerKeeps

LEMMA Making ==
  ASSUME NEW S, NEW made \in Seq(S), NEW x \in S
  PROVE  /\ Grows(made, Append(made, x)) /\ Append(made, x) \in Seq(S)
         /\ Len(made) + 1 \in Nat /\ Len(made) + 1 \in DOMAIN Append(made, x)
         /\ Append(made, x)[Len(made) + 1] = x
         /\ x.by # "bootstrap" => Boot!Mine(Append(made, x)) = Boot!Mine(made)
         /\ \A n \in Boot!Mine(Append(made, x)) : n = Len(made) + 1 \/ n \in Boot!Mine(made)
<1>1. Append(made, x) \in Seq(S) /\ Len(made) \in Nat /\ DOMAIN made = 1 .. Len(made)
      /\ DOMAIN Append(made, x) = 1 .. Len(made) + 1 /\ Append(made, x)[Len(made) + 1] = x
      /\ \A n \in 1 .. Len(made) : Append(made, x)[n] = made[n]
  OBVIOUS
<1>2. PICK more : more = Append(made, x)
  OBVIOUS
<1>3. /\ \A n \in Boot!Mine(more) : n = Len(made) + 1 \/ n \in Boot!Mine(made)
      /\ x.by # "bootstrap" => Boot!Mine(more) = Boot!Mine(made)
  BY <1>1, <1>2 DEF Boot!Mine
<1>4. Grows(made, more) /\ Len(made) + 1 \in DOMAIN more
  BY <1>1, <1>2 DEF Grows
<1> QED BY <1>1, <1>2, <1>3, <1>4

(* The one request of its sort makes the one of its sort. *)
LEMMA MakingOnce ==
  ASSUME NEW S, NEW made \in Seq(S), NEW x \in S, NEW r \in wire, Once(r.op, made, wire)
  PROVE  Once(r.op, Append(made, x), wire \ {r})
<1>1. Boot!Mine(made) = {} /\ \A q \in wire \ {r} : q.op # r.op
  BY DEF Once
<1>2. \A n \in Boot!Mine(Append(made, x)) : n = Len(made) + 1
  BY <1>1, Making
<1> QED BY <1>1, <1>2 DEF Once

LEMMA FewerOnces ==
  ASSUME NEW op, NEW made, NEW sent, sent \subseteq wire
  PROVE  /\ Once(op, made, wire) => Once(op, made, sent)
         /\ Unasked(op, made, wire) => Unasked(op, made, sent)
BY DEF Once, Unasked

LEMMA OncesAfter ==
  ASSUME BootInv, UNCHANGED Boot!bootVars, wire' \subseteq wire,
         NEW r \in wire, r.op \in {"workspace", "principal", "key"},
         r.op # "workspace" => workspaces' = workspaces,
         r.op # "principal" => principals' = principals,
         r.op # "key" => keys' = keys,
         r.op = "workspace" => Once("workspace", workspaces', wire'),
         r.op = "principal" => Once("principal", principals', wire'),
         r.op = "key" => Once("key", keys', wire')
  PROVE  Onces'
<1>1. checkpoint' = checkpoint /\ proc' = proc
  BY DEF Boot!bootVars
<1>2. Onces
  BY DEF BootInv
<1>3. \A made : ~Unasked(r.op, made, wire)
  BY DEF Unasked
<1>4. Once("workspace", workspaces', wire') /\ (checkpoint'.step \in NoWorkspaceYet => Unasked("workspace", workspaces', wire'))
  BY <1>1, <1>2, <1>3, FewerOnces DEF Onces
<1>5. Once("principal", principals', wire') /\ (checkpoint'.step \in NoPrincipalYet => Unasked("principal", principals', wire'))
  BY <1>1, <1>2, <1>3, FewerOnces DEF Onces
<1>6. /\ Once("key", keys', wire') /\ (checkpoint'.step \in NoKeyAsked => Unasked("key", keys', wire'))
      /\ (\E c \in Clients : proc'[c].at \in {"asking", "issuing"}) => Unasked("key", keys', wire')
  BY <1>1, <1>2, <1>3, FewerOnces DEF Onces
<1> QED BY <1>4, <1>5, <1>6 DEF Onces

LEMMA Handled ==
  ASSUME BootInv, More, UNCHANGED Boot!bootVars, UNCHANGED Boot!identity, NEW r \in wire, Boot!Done(r), Onces',
         workspaces' \in Seq([by : Boot!Makers]), principals' \in Seq([by : Boot!Makers, workspace : Nat]),
         keys' \in Seq([by : Boot!Makers, principal : Nat]),
         NEW status \in {"ok", "refused", "failed"}, NEW value \in Nat, Boot!Reply(r, status, value),
         status = "ok" /\ r.to # Gone => Means(r.to, value)'
  PROVE  BootInv'
<1>1. wire' \in SUBSET Boot!Request /\ wire' \subseteq wire /\ wire' = wire \ {r} /\ Wired' /\ CommittedTrue'
  BY Removing
<1>2. /\ answers' \in [Clients -> Boot!Answer] /\ Alone'
      /\ (\A c \in Clients : Heard(c)') /\ (\A q \in wire' : Awaited(q)')
  BY <1>1, Replied
<1>3. TenancyTypes'
  BY <1>1, <1>2, BootTyped DEF TenancyTypes, Boot!identity
<1>4. Published'
  BY <1>1 DEF BootInv, Published, CommittedTrue, Boot!identity
<1> QED BY <1>1, <1>2, <1>3, <1>4, ServerKeeps

LEMMA Refused ==
  ASSUME BootInv, UNCHANGED Boot!bootVars, UNCHANGED Boot!identity, UNCHANGED <<workspaces, principals, keys>>,
         NEW r \in wire, Boot!Done(r), NEW status \in {"refused", "failed"}, Boot!Reply(r, status, 0)
  PROVE  BootInv'
<1>1. More
  BY DEF More, Grows, Boot!identity
<1>2. wire' \subseteq wire
  BY DEF Boot!Done
<1>3. Onces'
  BY <1>2, OncesKept DEF Boot!bootVars, Boot!objects
<1> QED BY <1>1, <1>3, Handled, BootTyped DEF TenancyTypes

LEMMA CreateWorkspaceKeeps ==
  ASSUME BootInv, NEW r \in wire, Boot!CreateWorkspace(r), UNCHANGED Boot!bootVars
  PROVE  BootInv'
<1>1. r.op = "workspace" /\ Boot!Done(r) /\ UNCHANGED <<Boot!identity, principals, keys>>
  BY DEF Boot!CreateWorkspace
<1>2. CASE UNCHANGED workspaces /\ \E status \in {"refused", "failed"} : Boot!Reply(r, status, 0)
  BY <1>1, <1>2, Refused
<1>3. CASE Boot!NewWorkspace(r.by) /\ Boot!Reply(r, "ok", Len(workspaces) + 1)
  <2>1. PICK x : x = [by |-> r.by]
    OBVIOUS
  <2>0. PICK value, S : value = Len(workspaces) + 1 /\ S = [by : Boot!Makers]
    OBVIOUS
  <2>2. x \in S /\ workspaces \in Seq(S)
        /\ workspaces' = Append(workspaces, x)
    BY <1>3, <2>0, <2>1, Asks, BootTyped DEF Boot!NewWorkspace, TenancyTypes
  <2>3. /\ Grows(workspaces, workspaces') /\ workspaces' \in Seq(S)
        /\ value \in Nat /\ value \in DOMAIN workspaces'
    BY <2>0, <2>2, Making
  <2>4. More
    BY <1>1, <2>3 DEF More, Grows, Boot!identity
  <2>5. Onces'
    <3>1. Once(r.op, workspaces, wire)
      BY <1>1 DEF BootInv, Onces
    <3>2. Once(r.op, Append(workspaces, x), wire \ {r})
      BY <2>2, <3>1, MakingOnce
    <3>3. Once("workspace", workspaces', wire')
      BY <1>1, <2>2, <3>2 DEF Boot!Done
    <3>4. wire' \subseteq wire
      BY <1>1 DEF Boot!Done
    <3> QED BY <1>1, <3>3, <3>4, OncesAfter
  <2>6. ASSUME r.to # Gone PROVE Means(r.to, value)'
    <3>1. Awaits(r.to, "workspace") /\ r.to \in Clients
      BY <1>1, <2>6, Asks, BootTyped DEF BootInv, Awaited
    <3>2. Awaits(r.to, "workspace")' /\ ~Awaits(r.to, "enroll")' /\ ~Awaits(r.to, "principal")' /\ ~Awaits(r.to, "key")'
      BY <3>1 DEF Awaits, Boot!At, Boot!bootVars
    <3> QED BY <2>3, <3>2 DEF Means
  <2> QED BY <1>1, <1>3, <2>0, <2>3, <2>4, <2>5, <2>6, Handled, BootTyped DEF TenancyTypes
<1> QED BY <1>2, <1>3 DEF Boot!CreateWorkspace

LEMMA CreatePrincipalKeeps ==
  ASSUME BootInv, NEW r \in wire, Boot!CreatePrincipal(r), UNCHANGED Boot!bootVars
  PROVE  BootInv'
<1>1. r.op = "principal" /\ Boot!Done(r) /\ UNCHANGED <<Boot!identity, workspaces, keys>>
  BY DEF Boot!CreatePrincipal
<1>2. CASE UNCHANGED principals /\ \E status \in {"refused", "failed"} : Boot!Reply(r, status, 0)
  BY <1>1, <1>2, Refused
<1>3. CASE Boot!NewPrincipal(r.by, r.on) /\ Boot!Reply(r, "ok", Len(principals) + 1)
  <2>1. PICK x : x = [by |-> r.by, workspace |-> r.on]
    OBVIOUS
  <2>0. PICK value, S : value = Len(principals) + 1 /\ S = [by : Boot!Makers, workspace : Nat]
    OBVIOUS
  <2>2. /\ x \in S /\ principals \in Seq(S)
        /\ principals' = Append(principals, x) /\ x.workspace = r.on
    BY <1>3, <2>0, <2>1, Asks, BootTyped DEF Boot!NewPrincipal, TenancyTypes
  <2>3. /\ Grows(principals, principals') /\ principals' \in Seq(S)
        /\ value \in Nat /\ value \in DOMAIN principals'
        /\ principals'[value] = x
    <3>1. /\ Grows(principals, Append(principals, x)) /\ Append(principals, x) \in Seq(S)
          /\ Len(principals) + 1 \in Nat /\ Len(principals) + 1 \in DOMAIN Append(principals, x)
          /\ Append(principals, x)[Len(principals) + 1] = x
      BY <2>2, Making
    <3> QED BY <2>0, <2>2, <3>1
  <2>4. More
    BY <1>1, <2>3 DEF More, Grows, Boot!identity
  <2>5. Onces'
    <3>1. Once(r.op, principals, wire)
      BY <1>1 DEF BootInv, Onces
    <3>2. Once(r.op, Append(principals, x), wire \ {r})
      BY <2>2, <3>1, MakingOnce
    <3>3. Once("principal", principals', wire')
      BY <1>1, <2>2, <3>2 DEF Boot!Done
    <3>4. wire' \subseteq wire
      BY <1>1 DEF Boot!Done
    <3> QED BY <1>1, <3>3, <3>4, OncesAfter
  <2>6. ASSUME r.to # Gone PROVE Means(r.to, value)'
    <3>1. Awaits(r.to, "principal") /\ r.to \in Clients /\ r.on = checkpoint.workspace
      BY <1>1, <2>6, Asks, BootTyped DEF BootInv, Awaited
    <3>2. ~Awaits(r.to, "enroll")' /\ ~Awaits(r.to, "workspace")' /\ ~Awaits(r.to, "key")' /\ checkpoint' = checkpoint
      BY <3>1 DEF Awaits, Boot!At, Boot!bootVars
    <3>3. Boot!Listed(checkpoint.workspace, value)'
      BY <2>2, <2>3, <3>1, <3>2 DEF Boot!Listed
    <3> QED BY <3>2, <3>3 DEF Means
  <2> QED BY <1>1, <1>3, <2>0, <2>3, <2>4, <2>5, <2>6, Handled, BootTyped DEF TenancyTypes
<1> QED BY <1>2, <1>3 DEF Boot!CreatePrincipal

LEMMA IssueKeyKeeps ==
  ASSUME BootInv, NEW r \in wire, Boot!IssueKey(r), UNCHANGED Boot!bootVars
  PROVE  BootInv'
<1>1. r.op = "key" /\ Boot!Done(r) /\ UNCHANGED <<Boot!identity, workspaces, principals>>
  BY DEF Boot!IssueKey
<1>2. CASE UNCHANGED keys /\ \E status \in {"refused", "failed"} : Boot!Reply(r, status, 0)
  BY <1>1, <1>2, Refused
<1>3. CASE Boot!NewKey(r.by, r.on) /\ Boot!Reply(r, "ok", Len(keys) + 1)
  <2>1. PICK x : x = [by |-> r.by, principal |-> r.on]
    OBVIOUS
  <2>0. PICK value, S : value = Len(keys) + 1 /\ S = [by : Boot!Makers, principal : Nat]
    OBVIOUS
  <2>2. /\ x \in S /\ keys \in Seq(S)
        /\ keys' = Append(keys, x) /\ x.principal = r.on
    BY <1>3, <2>0, <2>1, Asks, BootTyped DEF Boot!NewKey, TenancyTypes
  <2>3. /\ Grows(keys, keys') /\ keys' \in Seq(S)
        /\ value \in Nat /\ value \in DOMAIN keys' /\ keys'[value] = x
    <3>1. /\ Grows(keys, Append(keys, x)) /\ Append(keys, x) \in Seq(S)
          /\ Len(keys) + 1 \in Nat /\ Len(keys) + 1 \in DOMAIN Append(keys, x)
          /\ Append(keys, x)[Len(keys) + 1] = x
      BY <2>2, Making
    <3> QED BY <2>0, <2>2, <3>1
  <2>4. More
    BY <1>1, <2>3 DEF More, Grows, Boot!identity
  <2>5. Onces'
    <3>1. Once(r.op, keys, wire)
      BY <1>1 DEF BootInv, Onces
    <3>2. Once(r.op, Append(keys, x), wire \ {r})
      BY <2>2, <3>1, MakingOnce
    <3>3. Once("key", keys', wire')
      BY <1>1, <2>2, <3>2 DEF Boot!Done
    <3>4. wire' \subseteq wire
      BY <1>1 DEF Boot!Done
    <3> QED BY <1>1, <3>3, <3>4, OncesAfter
  <2>6. ASSUME r.to # Gone PROVE Means(r.to, value)'
    <3>1. Awaits(r.to, "key") /\ r.to \in Clients /\ r.on = checkpoint.principal
      BY <1>1, <2>6, Asks, BootTyped DEF BootInv, Awaited
    <3>2. ~Awaits(r.to, "enroll")' /\ ~Awaits(r.to, "workspace")' /\ ~Awaits(r.to, "principal")' /\ checkpoint' = checkpoint
      BY <3>1 DEF Awaits, Boot!At, Boot!bootVars
    <3>3. OfRecorded(value)'
      BY <2>2, <2>3, <3>1, <3>2 DEF OfRecorded
    <3> QED BY <3>2, <3>3 DEF Means
  <2> QED BY <1>1, <1>3, <2>0, <2>3, <2>4, <2>5, <2>6, Handled, BootTyped DEF TenancyTypes
<1> QED BY <1>2, <1>3 DEF Boot!IssueKey

(* What a person makes is not the bootstrap's. *)
LEMMA ByHandKeeps ==
  ASSUME BootInv, Boot!ByHand, UNCHANGED Boot!bootVars
  PROVE  BootInv'
<1>1. UNCHANGED <<Boot!identity, wire, answers>>
  BY DEF Boot!ByHand
<1>2. /\ workspaces \in Seq([by : Boot!Makers]) /\ principals \in Seq([by : Boot!Makers, workspace : Nat])
      /\ keys \in Seq([by : Boot!Makers, principal : Nat]) /\ "hand" \in Boot!Makers /\ "hand" # "bootstrap"
  BY BootTyped, BootConstants DEF TenancyTypes
<1>3. /\ Grows(workspaces, workspaces') /\ workspaces' \in Seq([by : Boot!Makers])
      /\ Boot!Mine(workspaces') = Boot!Mine(workspaces)
  <2>1. CASE workspaces' = workspaces
    BY <1>2, <2>1 DEF Grows
  <2>2. CASE Boot!NewWorkspace("hand")
    <3>1. PICK x : x = [by |-> "hand"]
      OBVIOUS
    <3>2. x \in [by : Boot!Makers] /\ x.by # "bootstrap" /\ workspaces' = Append(workspaces, x)
      BY <1>2, <2>2, <3>1 DEF Boot!NewWorkspace
    <3> QED BY <1>2, <3>2, Making
  <2> QED BY <2>1, <2>2 DEF Boot!ByHand
<1>4. /\ Grows(principals, principals') /\ principals' \in Seq([by : Boot!Makers, workspace : Nat])
      /\ Boot!Mine(principals') = Boot!Mine(principals)
  <2>1. CASE principals' = principals
    BY <1>2, <2>1 DEF Grows
  <2>2. CASE \E w \in DOMAIN workspaces : Boot!NewPrincipal("hand", w)
    <3>1. PICK w \in DOMAIN workspaces : Boot!NewPrincipal("hand", w)
      BY <2>2
    <3>2. PICK x, S : x = [by |-> "hand", workspace |-> w] /\ S = [by : Boot!Makers, workspace : Nat]
      OBVIOUS
    <3>3. w \in Nat
      BY <1>2, <3>1
    <3>4. x \in S /\ x.by # "bootstrap" /\ principals' = Append(principals, x) /\ principals \in Seq(S)
      BY <1>2, <3>1, <3>2, <3>3 DEF Boot!NewPrincipal
    <3>5. Grows(principals, Append(principals, x)) /\ Append(principals, x) \in Seq(S)
          /\ Boot!Mine(Append(principals, x)) = Boot!Mine(principals)
      BY <3>4, Making
    <3> QED BY <3>2, <3>4, <3>5
  <2> QED BY <2>1, <2>2 DEF Boot!ByHand
<1>5. /\ Grows(keys, keys') /\ keys' \in Seq([by : Boot!Makers, principal : Nat])
      /\ Boot!Mine(keys') = Boot!Mine(keys)
  <2>1. CASE keys' = keys
    BY <1>2, <2>1 DEF Grows
  <2>2. CASE \E p \in DOMAIN principals : Boot!NewKey("hand", p)
    <3>1. PICK p \in DOMAIN principals : Boot!NewKey("hand", p)
      BY <2>2
    <3>2. PICK x, S : x = [by |-> "hand", principal |-> p] /\ S = [by : Boot!Makers, principal : Nat]
      OBVIOUS
    <3>3. p \in Nat
      BY <1>2, <3>1
    <3>4. x \in S /\ x.by # "bootstrap" /\ keys' = Append(keys, x) /\ keys \in Seq(S)
      BY <1>2, <3>1, <3>2, <3>3 DEF Boot!NewKey
    <3>5. Grows(keys, Append(keys, x)) /\ Append(keys, x) \in Seq(S)
          /\ Boot!Mine(Append(keys, x)) = Boot!Mine(keys)
      BY <3>4, Making
    <3> QED BY <3>2, <3>4, <3>5
  <2> QED BY <2>1, <2>2 DEF Boot!ByHand
<1>6. More
  BY <1>1, <1>3, <1>4, <1>5 DEF More, Boot!identity
<1>7. TenancyTypes'
  BY <1>1, <1>3, <1>4, <1>5, BootTyped DEF TenancyTypes, Boot!identity
<1>8. Published' /\ Wired' /\ Alone'
  BY <1>1 DEF BootInv, Published, Wired, Alone, Boot!identity
<1>9. Onces'
  <2>1. /\ \A op : Once(op, workspaces', wire') = Once(op, workspaces, wire)
        /\ \A op : Once(op, principals', wire') = Once(op, principals, wire)
        /\ \A op : Once(op, keys', wire') = Once(op, keys, wire)
    BY <1>1, <1>3, <1>4, <1>5 DEF Once
  <2>2. /\ \A op : Unasked(op, workspaces', wire') = Unasked(op, workspaces, wire)
        /\ \A op : Unasked(op, principals', wire') = Unasked(op, principals, wire)
        /\ \A op : Unasked(op, keys', wire') = Unasked(op, keys, wire)
    BY <1>1, <1>3, <1>4, <1>5 DEF Unasked
  <2>3. checkpoint' = checkpoint /\ proc' = proc
    BY DEF Boot!bootVars
  <2>4. /\ Once("workspace", workspaces', wire') /\ Once("principal", principals', wire') /\ Once("key", keys', wire')
        /\ checkpoint'.step \in NoWorkspaceYet => Unasked("workspace", workspaces', wire')
        /\ checkpoint'.step \in NoPrincipalYet => Unasked("principal", principals', wire')
        /\ checkpoint'.step \in NoKeyAsked => Unasked("key", keys', wire')
        /\ (\E c \in Clients : proc'[c].at \in {"asking", "issuing"}) => Unasked("key", keys', wire')
    BY <2>1, <2>2, <2>3 DEF BootInv, Onces
  <2> QED BY <2>4 DEF Onces
<1>10. \A q \in wire' : Awaited(q)'
  <2>1. \A q \in wire' : q.to # Gone => \E o \in wire : o.to = q.to /\ o.op = q.op /\ o.on = q.on
    BY <1>1
  <2> QED BY <1>1, <1>6, <2>1, AwaitedSame
<1> QED BY <1>1, <1>6, <1>7, <1>8, <1>9, <1>10, HeardSame, ServerKeeps

LEMMA TenancyKeeps ==
  ASSUME BootInv, Boot!TenancyNext, UNCHANGED Boot!bootVars
  PROVE  BootInv'
<1>1. CASE Boot!Handle
  <2>1. PICK r \in wire : \/ Boot!EnrollCheck(r) \/ Boot!EnrollCommit(r) \/ Boot!EnrollAnswer(r)
                          \/ Boot!CreateWorkspace(r) \/ Boot!CreatePrincipal(r) \/ Boot!IssueKey(r)
    BY <1>1 DEF Boot!Handle
  <2> QED BY <2>1, EnrollCheckKeeps, EnrollCommitKeeps, EnrollAnswerKeeps, CreateWorkspaceKeeps,
             CreatePrincipalKeeps, IssueKeyKeeps
<1> QED BY <1>1, StartKeeps, StopKeeps, ByHandKeeps, OtherKeeps DEF Boot!TenancyNext

-----------------------------------------------------------------------------
(* A step of the invocation of c: what stays of the wire (w), what c sends *)
(* (new), and what must be true of where it goes.                          *)

Sends(c, new) ==
  \A q \in new :
    /\ q \in Boot!Request /\ q.to = c /\ q.user = Us /\ q.by = "bootstrap" /\ q.stage = "sent"
    /\ Awaits(c, q.op)'
    /\ q.op = "principal" => q.on = checkpoint'.workspace
    /\ q.op = "key" => q.on = checkpoint'.principal
    /\ q.op = "workspace" => Unasked("workspace", workspaces, wire)
    /\ q.op = "principal" => Unasked("principal", principals, wire)
    /\ q.op = "key" => Unasked("key", keys, wire)
    /\ \A o \in new : o = q
NotBefore(c, new) ==
  /\ checkpoint'.step \in NoWorkspaceYet =>
       Unasked("workspace", workspaces, wire) /\ \A q \in new : q.op # "workspace"
  /\ checkpoint'.step \in NoPrincipalYet =>
       Unasked("principal", principals, wire) /\ \A q \in new : q.op # "principal"
  /\ checkpoint'.step \in NoKeyAsked =>
       Unasked("key", keys, wire) /\ \A q \in new : q.op # "key"
  /\ proc'[c].at \in {"asking", "issuing"} =>
       Unasked("key", keys, wire) /\ \A q \in new : q.op # "key"
(* The others do not run. *)
OthersRest(c) == \A d \in Clients \ {c} : ~Active(d) /\ proc'[d] = proc[d] /\ answers'[d] = answers[d]

LEMMA OnceSends ==
  ASSUME NEW op \in {"workspace", "principal", "key"}, NEW made, NEW w, NEW new, Once(op, made, wire),
         \A q \in w : q.op = op => \E o \in wire : o.op = op,
         \A q, o \in w : q.op = o.op /\ q.op # "enroll" => q = o,
         \A q, o \in new : q = o,
         \A q \in new : q.op = op => Unasked(op, made, wire)
  PROVE  /\ Once(op, made, w \cup new)
         /\ Unasked(op, made, wire) /\ (\A q \in new : q.op # op) => Unasked(op, made, w \cup new)
<1>1. Unasked(op, made, wire) /\ (\A q \in new : q.op # op) => Unasked(op, made, w \cup new)
  BY DEF Unasked
<1>2. (\E q \in w \cup new : q.op = op) => Boot!Mine(made) = {}
  BY DEF Once, Unasked
<1>3. ASSUME NEW q \in w \cup new, NEW o \in w \cup new, q.op = op, o.op = op PROVE q = o
  <2>1. CASE q \in new \/ o \in new
    <3>1. \A a \in w : a.op # op
      BY <1>3, <2>1 DEF Unasked
    <3> QED BY <1>3, <3>1
  <2>2. CASE q \in w /\ o \in w
    BY <1>3, <2>2
  <2> QED BY <2>1, <2>2
<1>4. \A m, n \in Boot!Mine(made) : m = n
  BY DEF Once
<1> QED BY <1>1, <1>2, <1>3, <1>4 DEF Once

LEMMA Walking ==
  ASSUME BootInv, NEW c \in Clients, UNCHANGED <<Boot!identity, Boot!objects>>, OthersRest(c),
         NEW w, NEW new, Stays(c, w), wire' = w \cup new, Sends(c, new), NotBefore(c, new),
         answers' \in [Clients -> Boot!Answer], answers'[c].status = "none",
         BootTypes', Placed(c)', Recorded'
  PROVE  BootInv'
<1>1. UNCHANGED <<users, claimed, capability, hash, server, stops>> /\ UNCHANGED <<workspaces, principals, keys>>
  BY DEF Boot!identity, Boot!objects
<1>2. wire' \in SUBSET Boot!Request
  BY DEF Stays, Sends
<1>3. TenancyTypes'
  BY <1>1, <1>2, BootTyped DEF TenancyTypes
<1>4. Published'
  <2>1. \A q \in wire' : q.stage = "committed" => claimed' = q.user
    BY <1>1 DEF Stays, Sends
  <2> QED BY <1>1, <2>1 DEF BootInv, Published
<1>5. ASSUME NEW q \in w, q.to # Gone PROVE FALSE
  <2>1. q \in wire /\ q.to \in Clients /\ q.to # c
    BY <1>5, Asks, BootTyped DEF Stays
  <2>2. Awaits(q.to, q.op) /\ ~Active(q.to)
    BY <1>5, <2>1 DEF BootInv, Awaited, OthersRest
  <2> QED BY <2>2 DEF Awaits, Active, Boot!At
<1>6. Wired' /\ Alone'
  <2>1. Wired'
    BY <1>5 DEF Stays, Sends, Wired
  <2>2. ASSUME NEW q \in wire', NEW o \in wire', q.to # Gone, o.to = q.to PROVE o = q
    BY <1>5, <2>2 DEF Sends
  <2> QED BY <2>1, <2>2 DEF Alone
<1>7. ASSUME NEW q \in wire' PROVE Awaited(q)'
  <2>1. CASE q \in w
    BY <1>5, <2>1 DEF Awaited
  <2>2. CASE q \in new
    BY <2>2 DEF Sends, Awaited
  <2> QED BY <1>7, <2>1, <2>2
<1>8. ASSUME NEW d \in Clients PROVE Placed(d)' /\ Heard(d)'
  <2>1. CASE d = c
    <3>1. Heard(c)'
      BY DEF Heard
    <3> QED BY <2>1, <3>1
  <2>2. CASE d # c
    <3>1. ~Active(d) /\ proc'[d] = proc[d] /\ answers'[d] = answers[d] /\ Heard(d)
      BY <2>2 DEF OthersRest, BootInv
    <3>2. answers'[d].status = "none"
      BY <3>1 DEF Heard, Awaits, Active, Boot!At
    <3> QED BY <3>1, <3>2 DEF Placed, Heard, Active, Boot!At
  <2> QED BY <2>1, <2>2
<1>9. Onces'
  <2>1. Onces
    BY DEF BootInv
  <2>2. /\ \A op \in {"workspace", "principal", "key"} : \A q \in w : q.op = op => \E o \in wire : o.op = op
        /\ \A q, o \in w : q.op = o.op /\ q.op # "enroll" => q = o
        /\ \A q, o \in new : q = o
    BY DEF Stays, Sends
  <2>3. \A q \in new : /\ q.op = "workspace" => Unasked("workspace", workspaces, wire)
                       /\ q.op = "principal" => Unasked("principal", principals, wire)
                       /\ q.op = "key" => Unasked("key", keys, wire)
    BY DEF Sends
  <2>4. /\ Once("workspace", workspaces, wire')
        /\ Unasked("workspace", workspaces, wire) /\ (\A q \in new : q.op # "workspace") => Unasked("workspace", workspaces, wire')
    BY <2>1, <2>2, <2>3, OnceSends DEF Onces
  <2>5. /\ Once("principal", principals, wire')
        /\ Unasked("principal", principals, wire) /\ (\A q \in new : q.op # "principal") => Unasked("principal", principals, wire')
    BY <2>1, <2>2, <2>3, OnceSends DEF Onces
  <2>6. /\ Once("key", keys, wire')
        /\ Unasked("key", keys, wire) /\ (\A q \in new : q.op # "key") => Unasked("key", keys, wire')
    BY <2>1, <2>2, <2>3, OnceSends DEF Onces
  <2>7. /\ checkpoint'.step \in NoWorkspaceYet => Unasked("workspace", workspaces', wire')
        /\ checkpoint'.step \in NoPrincipalYet => Unasked("principal", principals', wire')
        /\ checkpoint'.step \in NoKeyAsked => Unasked("key", keys', wire')
    BY <1>1, <2>4, <2>5, <2>6 DEF NotBefore
  <2>8. (\E d \in Clients : proc'[d].at \in {"asking", "issuing"}) => Unasked("key", keys', wire')
    <3>1. ASSUME NEW d \in Clients, proc'[d].at \in {"asking", "issuing"} PROVE d = c
      BY <3>1 DEF OthersRest, Active
    <3> QED BY <1>1, <2>6, <3>1 DEF NotBefore
  <2>9. /\ Once("workspace", workspaces', wire') /\ Once("principal", principals', wire') /\ Once("key", keys', wire')
    BY <1>1, <2>4, <2>5, <2>6
  <2> QED BY <2>7, <2>8, <2>9 DEF Onces
<1> QED BY <1>3, <1>4, <1>6, <1>7, <1>8, <1>9 DEF BootInv

(* What a step of c is made of *)
LEMMA Running ==
  ASSUME BootInv, NEW c \in Clients, Active(c)
  PROVE  lockFile /\ (\A d \in Clients \ {c} : ~Active(d)) /\ Placed(c) /\ Heard(c)
BY DEF BootInv, Placed

LEMMA MovesTo ==
  ASSUME BootInv, NEW c \in Clients, NEW at \in Places, Boot!Moves(c, at)
  PROVE  /\ proc' \in [Clients -> Processes] /\ \A d \in Clients \ {c} : proc'[d] = proc[d]
         /\ proc'[c].at = at /\ proc'[c].workspace = proc[c].workspace /\ proc'[c].principal = proc[c].principal
         /\ proc'[c].recover = proc[c].recover /\ proc'[c].key = proc[c].key
<1>1. PICK p : p = [proc[c] EXCEPT !.at = at]
  OBVIOUS
<1>2. proc \in [Clients -> Processes] /\ proc[c] \in Processes
  BY BootTyped
<1>3. /\ p \in Processes /\ p.at = at /\ p.workspace = proc[c].workspace /\ p.principal = proc[c].principal
      /\ p.recover = proc[c].recover /\ p.key = proc[c].key
  BY <1>1, <1>2, Moved
<1>4. proc' = [proc EXCEPT ![c] = p]
  BY <1>1, <1>2 DEF Boot!Moves
<1> QED BY <1>2, <1>3, <1>4

LEMMA EndsTo ==
  ASSUME BootInv, NEW c \in Clients, Boot!Ends(c)
  PROVE  /\ proc' \in [Clients -> Processes] /\ \A d \in Clients \ {c} : proc'[d] = proc[d]
         /\ proc'[c].at = "idle" /\ lockFile' = FALSE /\ lockFile' \in BOOLEAN
BY IdleIs, BootTyped DEF Boot!Ends

LEMMA SaveTo ==
  ASSUME BootInv, NEW step \in Boot!Steps, Boot!Save(Boot!To(step))
  PROVE  /\ checkpoint' \in Checkpoints /\ checkpoint'.step = step /\ checkpoint'.workspace = checkpoint.workspace
         /\ checkpoint'.principal = checkpoint.principal /\ checkpoint'.file = checkpoint.file
BY BootTyped, Saves DEF Boot!Save, Boot!To

LEMMA Takes ==
  ASSUME BootInv, NEW c \in Clients, Boot!Take(c)
  PROVE  /\ answers' \in [Clients -> Boot!Answer] /\ answers'[c].status = "none"
         /\ \A d \in Clients \ {c} : answers'[d] = answers[d]
BY AnswersAre, BootTyped DEF Boot!Take

LEMMA Unaddressed ==
  ASSUME BootInv, NEW c \in Clients, answers[c].status # "none"
  PROVE  \A q \in wire : q.to # c
BY BootConstants DEF BootInv, Awaited

LEMMA Earlier ==
  ASSUME BootInv, NEW c \in Clients,
         checkpoint'.step \in NoWorkspaceYet => checkpoint.step \in NoWorkspaceYet,
         checkpoint'.step \in NoPrincipalYet => checkpoint.step \in NoPrincipalYet,
         checkpoint'.step \in NoKeyAsked => checkpoint.step \in NoKeyAsked \/ proc[c].at \in {"asking", "issuing"},
         proc'[c].at \in {"asking", "issuing"} => checkpoint.step \in NoKeyAsked \/ proc[c].at \in {"asking", "issuing"}
  PROVE  NotBefore(c, {})
BY DEF NotBefore, BootInv, Onces

LEMMA Quiet ==
  ASSUME BootInv, NEW c \in Clients, UNCHANGED <<Boot!identity, Boot!objects, wire>>, \A q \in wire : q.to # c,
         \A d \in Clients \ {c} : ~Active(d) /\ proc'[d] = proc[d],
         Boot!Take(c) \/ (UNCHANGED answers /\ answers[c].status = "none"),
         NotBefore(c, {}), BootTypes', Placed(c)', Recorded'
  PROVE  BootInv'
<1>1. Stays(c, wire) /\ wire' = wire \cup {} /\ Sends(c, {})
  BY SameStays DEF Sends
<1>2. /\ answers' \in [Clients -> Boot!Answer] /\ answers'[c].status = "none"
      /\ \A d \in Clients \ {c} : answers'[d] = answers[d]
  BY Takes, BootTyped
<1>3. OthersRest(c)
  BY <1>2 DEF OthersRest
<1> QED BY <1>1, <1>2, <1>3, Walking

LEMMA Forgetting ==
  ASSUME BootInv, NEW c \in Clients, UNCHANGED <<Boot!identity, Boot!objects>>, Boot!Forget(c),
         \A d \in Clients \ {c} : ~Active(d) /\ proc'[d] = proc[d],
         NotBefore(c, {}), BootTypes', Placed(c)', Recorded'
  PROVE  BootInv'
<1>1. wire' = Forgotten(c) /\ Boot!Take(c)
  BY DEF Boot!Forget, Forgotten, NotTo
<1>2. Stays(c, Forgotten(c)) /\ wire' = Forgotten(c) \cup {} /\ Sends(c, {})
  BY <1>1, ForgottenStays DEF Sends
<1>3. /\ answers' \in [Clients -> Boot!Answer] /\ answers'[c].status = "none"
      /\ \A d \in Clients \ {c} : answers'[d] = answers[d]
  BY <1>1, Takes
<1>4. OthersRest(c)
  BY <1>3 DEF OthersRest
<1> QED BY <1>2, <1>3, <1>4, Walking

LEMMA RecordedSame ==
  ASSUME BootInv, UNCHANGED <<Boot!identity, Boot!objects, checkpoint, mainFile, copies>>
  PROVE  Recorded'
BY DEF BootInv, Recorded, Boot!EvidenceTrue, Boot!KeyIn, Boot!Exists, Boot!Listed, Boot!identity, Boot!objects

(* Another step is recorded, of the same things. *)
LEMMA RecordedStep ==
  ASSUME BootInv, UNCHANGED <<Boot!identity, Boot!objects, mainFile, copies>>,
         checkpoint'.workspace = checkpoint.workspace, checkpoint'.principal = checkpoint.principal,
         checkpoint'.file = checkpoint.file \/ checkpoint'.file \notin Boot!Recovered \/ checkpoint'.file \in copies,
         checkpoint'.step \in Boot!WithUser => claimed = Us,
         checkpoint'.step \in Boot!WithWorkspace => checkpoint.step \in Boot!WithWorkspace,
         checkpoint'.step \in Boot!WithPrincipal => checkpoint.step \in Boot!WithPrincipal,
         checkpoint'.step = "key:saved" => OfRecorded(Boot!KeyIn(checkpoint'.file))
  PROVE  Recorded'
<1>1. UNCHANGED <<workspaces, principals, keys, claimed>>
  BY DEF Boot!identity, Boot!objects
<1>2. checkpoint'.file \in Boot!Recovered => checkpoint'.file \in copies'
  BY DEF BootInv, Recorded
<1>3. /\ checkpoint'.step \in Boot!WithWorkspace => Boot!Exists(checkpoint.workspace)
      /\ checkpoint'.step \in Boot!WithPrincipal => Boot!Listed(checkpoint.workspace, checkpoint.principal)
  BY DEF BootInv, Recorded, Boot!EvidenceTrue
<1>4. Boot!EvidenceTrue'
  BY <1>1, <1>2, <1>3 DEF Boot!EvidenceTrue, Boot!KeyIn, Boot!Exists, Boot!Listed, OfRecorded
<1> QED BY <1>2, <1>4 DEF Recorded

LEMMA PlacedPlain ==
  ASSUME NEW c \in Clients, \A d \in Clients \ {c} : ~Active(d) /\ proc'[d] = proc[d],
         proc'[c].at = "idle" \/ (proc'[c].at = "loop" /\ lockFile')
  PROVE  Placed(c)'
BY DEF Placed, Active, Boot!At

(* The steps of an invocation, one by one: its start and its end *)
LEMMA RunKeeps ==
  ASSUME BootInv, NEW c \in Clients, NEW w \in Nat, NEW p \in Nat, NEW k \in Nat, Boot!Run(c, w, p, k)
  PROVE  BootInv'
<1>1. /\ UNCHANGED <<Boot!identity, Boot!objects, wire, answers>> /\ UNCHANGED <<checkpoint, mainFile, copies>>
      /\ lockFile' = TRUE /\ ~lockFile /\ proc[c].at = "idle"
  BY DEF Boot!Run, Boot!tenancyVars, Boot!At, Boot!NoLock
<1>2. PICK ready : ready = IF checkpoint.file = Boot!NoFile THEN Boot!Observed ELSE "claimed"
  OBVIOUS
<1>3. ready \in {"claimed", "pending"}
  <2>1. checkpoint.file = Boot!NoFile => Boot!Observed \in {"pending", "claimed"}
    BY DEF Boot!Run, Boot!Ready
  <2> QED BY <1>2, <2>1
<1>4. PICK i, n : /\ i = Boot!Idle
                  /\ n = [i EXCEPT !.at = "loop", !.workspace = w, !.principal = p, !.recover = k, !.ready = ready]
  OBVIOUS
<1>5. n \in Processes /\ n.at = "loop"
  <2>1. i \in Processes
    BY <1>4, IdleIs
  <2> QED BY <1>3, <1>4, <2>1 DEF Processes, Places
<1>6. proc' = [proc EXCEPT ![c] = n]
  BY <1>2, <1>4 DEF Boot!Run
<1>7. proc' \in [Clients -> Processes] /\ proc'[c].at = "loop" /\ \A d \in Clients \ {c} : proc'[d] = proc[d]
  BY <1>5, <1>6, BootTyped
<1>8. \A d \in Clients \ {c} : ~Active(d)
  BY <1>1 DEF BootInv, Placed
<1>9. (\A q \in wire : q.to # c) /\ answers[c].status = "none"
  BY <1>1, NotAwaiting
<1>10. BootTypes'
  BY <1>1, <1>7, BootTyped DEF BootTypes
<1>11. Placed(c)' /\ Recorded' /\ NotBefore(c, {})
  BY <1>1, <1>7, <1>8, PlacedPlain, RecordedSame, Earlier
<1> QED BY <1>1, <1>7, <1>8, <1>9, <1>10, <1>11, Quiet

LEMMA GiveUpKeeps ==
  ASSUME BootInv, NEW c \in Clients, Boot!GiveUp(c)
  PROVE  BootInv'
<1>1. /\ UNCHANGED <<Boot!identity, Boot!objects, wire, answers>> /\ UNCHANGED <<checkpoint, mainFile, copies>>
      /\ Boot!Ends(c) /\ proc[c].at = "loop"
  BY DEF Boot!GiveUp, Boot!tenancyVars, Boot!At
<1>2. /\ proc' \in [Clients -> Processes] /\ \A d \in Clients \ {c} : proc'[d] = proc[d]
      /\ proc'[c].at = "idle" /\ lockFile' \in BOOLEAN
  BY <1>1, EndsTo
<1>3. \A d \in Clients \ {c} : ~Active(d)
  BY <1>1, Running DEF Active
<1>4. (\A q \in wire : q.to # c) /\ answers[c].status = "none"
  BY <1>1, NotAwaiting
<1>5. BootTypes'
  BY <1>1, <1>2, BootTyped DEF BootTypes
<1>6. Placed(c)' /\ Recorded' /\ NotBefore(c, {})
  BY <1>1, <1>2, <1>3, PlacedPlain, RecordedSame, Earlier
<1> QED BY <1>1, <1>2, <1>3, <1>4, <1>5, <1>6, Quiet

LEMMA KillKeeps ==
  ASSUME BootInv, NEW c \in Clients, Boot!Kill(c)
  PROVE  BootInv'
<1>1. /\ UNCHANGED <<Boot!identity, Boot!objects>> /\ UNCHANGED <<lockFile, checkpoint, mainFile, copies>>
      /\ Boot!Forget(c) /\ proc' = [proc EXCEPT ![c] = Boot!Idle] /\ Active(c)
  BY DEF Boot!Kill, Boot!Forget, Boot!Take, Boot!At, Active
<1>2. /\ proc' \in [Clients -> Processes] /\ \A d \in Clients \ {c} : proc'[d] = proc[d]
      /\ proc'[c].at = "idle"
  BY <1>1, IdleIs, BootTyped
<1>3. \A d \in Clients \ {c} : ~Active(d)
  BY <1>1, Running
<1>4. BootTypes'
  BY <1>1, <1>2, BootTyped DEF BootTypes
<1>5. Placed(c)' /\ Recorded' /\ NotBefore(c, {})
  BY <1>1, <1>2, <1>3, PlacedPlain, RecordedSame, Earlier
<1> QED BY <1>1, <1>2, <1>3, <1>4, <1>5, Forgetting

LEMMA ClearLockKeeps ==
  ASSUME BootInv, Boot!ClearLock
  PROVE  BootInv'
<1>1. /\ UNCHANGED <<users, claimed, capability, hash, server, stops, workspaces, principals, keys, wire, answers>>
      /\ UNCHANGED <<checkpoint, mainFile, copies, proc>> /\ lockFile' = FALSE
      /\ \A c \in Clients : ~Active(c)
  BY DEF Boot!ClearLock, Boot!tenancyVars, Boot!identity, Boot!objects, Boot!At, Active
<1>2. Recorded'
  BY <1>1, RecordedSame DEF Boot!identity, Boot!objects
<1>3. TenancyTypes' /\ BootTypes' /\ Published' /\ Wired' /\ Alone'
  BY <1>1 DEF BootInv, TenancyTypes, BootTypes, Published, Wired, Alone
<1>4. Onces'
  BY <1>1, OncesKept DEF Boot!objects
<1>5. \A c, op : Awaits(c, op)' = Awaits(c, op)
  BY <1>1 DEF Awaits, Boot!At
<1>6. ASSUME NEW c \in Clients PROVE Placed(c)' /\ Heard(c)'
  <2>1. Placed(c)'
    BY <1>1 DEF Placed, Active, Boot!At
  <2>2. Heard(c) /\ \A op : ~Awaits(c, op)
    BY <1>1 DEF BootInv, Awaits, Active, Boot!At
  <2>3. answers'[c].status = "none"
    BY <1>1, <2>2 DEF Heard
  <2> QED BY <2>1, <2>3 DEF Heard
<1>7. ASSUME NEW q \in wire' PROVE Awaited(q)'
  BY <1>1, <1>5, <1>7 DEF BootInv, Awaited
<1> QED BY <1>2, <1>3, <1>4, <1>6, <1>7 DEF BootInv

LEMMA Posted ==
  ASSUME NEW c \in Clients, NEW op \in OperationNames, NEW on \in Nat, NEW token \in Values,
         NEW q, q = [op |-> op, to |-> c, user |-> Us, by |-> "bootstrap", on |-> on, token |-> token, stage |-> "sent"]
  PROVE  /\ q \in Boot!Request /\ q.op = op /\ q.to = c /\ q.user = Us /\ q.by = "bootstrap" /\ q.on = on
         /\ q.stage = "sent"
BY BootConstants DEF RequestSet

(* A request is sent: one of its kind, for what c goes to await. *)
LEMMA Requesting ==
  ASSUME BootInv, NEW c \in Clients, UNCHANGED <<Boot!identity, Boot!objects, answers>>,
         proc[c].at \notin {"enrolling", "creating", "issued"},
         \A d \in Clients \ {c} : ~Active(d) /\ proc'[d] = proc[d],
         NEW op \in OperationNames, NEW on \in Nat, NEW token \in Values, Boot!Post(c, op, on, token),
         Awaits(c, op)',
         op = "principal" => on = checkpoint'.workspace,
         op = "key" => on = checkpoint'.principal,
         op = "workspace" => Unasked("workspace", workspaces, wire) /\ checkpoint'.step \notin NoWorkspaceYet,
         op = "principal" => Unasked("principal", principals, wire) /\ checkpoint'.step \notin NoPrincipalYet,
         op = "key" => /\ Unasked("key", keys, wire) /\ checkpoint'.step \notin NoKeyAsked
                       /\ proc'[c].at \notin {"asking", "issuing"},
         NotBefore(c, {}), BootTypes', Placed(c)', Recorded'
  PROVE  BootInv'
<1>1. PICK q : q = [op |-> op, to |-> c, user |-> Us, by |-> "bootstrap", on |-> on, token |-> token, stage |-> "sent"]
  OBVIOUS
<1>2. /\ q \in Boot!Request /\ q.op = op /\ q.to = c /\ q.user = Us /\ q.by = "bootstrap" /\ q.on = on
      /\ q.stage = "sent"
  BY <1>1, Posted
<1>3. wire' = wire \cup {q}
  BY <1>1 DEF Boot!Post
<1>4. (\A o \in wire : o.to # c) /\ answers[c].status = "none"
  BY NotAwaiting
<1>5. Stays(c, wire)
  BY <1>4, SameStays
<1>6. Sends(c, {q})
  BY <1>2 DEF Sends
<1>7. NotBefore(c, {q})
  BY <1>2 DEF NotBefore, OperationNames
<1>8. OthersRest(c) /\ answers' \in [Clients -> Boot!Answer] /\ answers'[c].status = "none"
  BY <1>4, BootTyped DEF OthersRest
<1> QED BY <1>3, <1>5, <1>6, <1>7, <1>8, Walking

LEMMA EnrollKeeps ==
  ASSUME BootInv, NEW c \in Clients, Boot!Enroll(c)
  PROVE  BootInv'
<1>1. /\ UNCHANGED <<Boot!identity, Boot!objects, answers>> /\ UNCHANGED <<lockFile, mainFile, copies>>
      /\ proc[c].at = "loop" /\ checkpoint.step \in {"initial", "enrollment:in-flight"}
      /\ Boot!Save(Boot!To("enrollment:in-flight")) /\ Boot!Post(c, "enroll", 0, capability)
      /\ Boot!Moves(c, "enrolling") /\ capability \in Boot!Written
  BY DEF Boot!Enroll, Boot!Step, Boot!At
<1>2. "enrolling" \in Places /\ "enrollment:in-flight" \in Boot!Steps /\ "enroll" \in OperationNames
      /\ capability \in Values /\ 0 \in Nat
  BY <1>1 DEF Places, Boot!Steps, OperationNames, Values
<1>3. /\ proc' \in [Clients -> Processes] /\ \A d \in Clients \ {c} : proc'[d] = proc[d]
      /\ proc'[c].at = "enrolling"
  BY <1>1, <1>2, MovesTo
<1>4. /\ checkpoint' \in Checkpoints /\ checkpoint'.step = "enrollment:in-flight"
      /\ checkpoint'.workspace = checkpoint.workspace /\ checkpoint'.principal = checkpoint.principal
      /\ checkpoint'.file = checkpoint.file
  BY <1>1, <1>2, SaveTo
<1>5. lockFile /\ \A d \in Clients \ {c} : ~Active(d)
  BY <1>1, Running DEF Active
<1>6. BootTypes'
  BY <1>1, <1>3, <1>4, BootTyped DEF BootTypes
<1>7. Placed(c)'
  BY <1>1, <1>3, <1>4, <1>5 DEF Placed, Active, Boot!At
<1>8. Recorded'
  BY <1>1, <1>4, RecordedStep DEF Boot!WithUser, Boot!WithWorkspace, Boot!WithPrincipal
<1>9. NotBefore(c, {})
  <2>1. /\ checkpoint.step \in NoWorkspaceYet /\ checkpoint.step \in NoPrincipalYet /\ checkpoint.step \in NoKeyAsked
    BY <1>1 DEF NoWorkspaceYet, NoPrincipalYet, NoKeyAsked, Boot!Steps, Boot!WithPrincipal
  <2> QED BY <1>3, <2>1, Earlier
<1>10. Awaits(c, "enroll")'
  BY <1>3 DEF Awaits, Boot!At
<1> QED BY <1>1, <1>2, <1>3, <1>5, <1>6, <1>7, <1>8, <1>9, <1>10, Requesting

LEMMA EnrolledKeeps ==
  ASSUME BootInv, NEW c \in Clients, Boot!Enrolled(c)
  PROVE  BootInv'
<1>1. /\ UNCHANGED <<Boot!identity, Boot!objects>> /\ UNCHANGED <<lockFile, mainFile, copies>>
      /\ Boot!Save(Boot!To("enrollment:saved")) /\ Boot!Moves(c, "loop") /\ Active(c)
  BY DEF Boot!Enrolled, Boot!Step, Boot!At, Active
<1>2. lockFile /\ (\A d \in Clients \ {c} : ~Active(d)) /\ Placed(c) /\ Heard(c)
  BY <1>1, Running
<1>3. checkpoint.step \in {"initial", "enrollment:in-flight"} /\ proc[c].at \in {"enrolling", "loop"}
  BY <1>2 DEF Boot!Enrolled, Boot!Step, Boot!At, Placed
<1>4. claimed = Us
  <2>1. CASE Boot!At(c, "enrolling") /\ Boot!Answered(c, {"ok"})
    BY <1>2, <2>1 DEF Heard, Means, Awaits, Boot!Answered
  <2>2. CASE Boot!Authenticated
    BY <2>2 DEF Boot!Authenticated, Boot!Member
  <2> QED BY <2>1, <2>2 DEF Boot!Enrolled
<1>5. "loop" \in Places /\ "enrollment:saved" \in Boot!Steps
  BY DEF Places, Boot!Steps
<1>6. /\ proc' \in [Clients -> Processes] /\ \A d \in Clients \ {c} : proc'[d] = proc[d]
      /\ proc'[c].at = "loop"
  BY <1>1, <1>5, MovesTo
<1>7. /\ checkpoint' \in Checkpoints /\ checkpoint'.step = "enrollment:saved"
      /\ checkpoint'.workspace = checkpoint.workspace /\ checkpoint'.principal = checkpoint.principal
      /\ checkpoint'.file = checkpoint.file
  BY <1>1, <1>5, SaveTo
<1>8. BootTypes' /\ Placed(c)'
  <2>1. BootTypes'
    BY <1>1, <1>6, <1>7, BootTyped DEF BootTypes
  <2> QED BY <1>1, <1>2, <1>6, <2>1, PlacedPlain
<1>9. Recorded'
  BY <1>1, <1>4, <1>7, RecordedStep DEF Boot!WithWorkspace, Boot!WithPrincipal
<1>10. NotBefore(c, {})
  <2>1. /\ checkpoint.step \in NoWorkspaceYet /\ checkpoint.step \in NoPrincipalYet /\ checkpoint.step \in NoKeyAsked
    BY <1>3 DEF NoWorkspaceYet, NoPrincipalYet, NoKeyAsked, Boot!Steps, Boot!WithPrincipal
  <2> QED BY <1>6, <2>1, Earlier
<1>11. CASE Boot!Answered(c, {"ok"}) /\ Boot!Take(c) /\ UNCHANGED wire
  <2>1. \A q \in wire : q.to # c
    BY <1>11, Unaddressed DEF Boot!Answered
  <2> QED BY <1>1, <1>2, <1>6, <1>8, <1>9, <1>10, <1>11, <2>1, Quiet
<1>12. CASE Boot!Forget(c)
  BY <1>1, <1>2, <1>6, <1>8, <1>9, <1>10, <1>12, Forgetting
<1>13. CASE proc[c].at = "loop" /\ UNCHANGED <<wire, answers>>
  <2>1. (\A q \in wire : q.to # c) /\ answers[c].status = "none"
    BY <1>13, NotAwaiting
  <2> QED BY <1>1, <1>2, <1>6, <1>8, <1>9, <1>10, <1>13, <2>1, Quiet
<1> QED BY <1>11, <1>12, <1>13 DEF Boot!Enrolled, Boot!Step, Boot!At

LEMMA EnrollAgainKeeps ==
  ASSUME BootInv, NEW c \in Clients, Boot!EnrollAgain(c)
  PROVE  BootInv'
<1>1. /\ UNCHANGED <<Boot!identity, Boot!objects>> /\ UNCHANGED <<lockFile, checkpoint, mainFile, copies>>
      /\ proc[c].at = "enrolling" /\ Boot!Take(c) /\ proc' = [proc EXCEPT ![c].again = TRUE] /\ Active(c)
  BY DEF Boot!EnrollAgain, Boot!At, Active
<1>2. PICK q : q = [op |-> "enroll", to |-> c, user |-> Us, by |-> "bootstrap", on |-> 0,
                    token |-> capability, stage |-> "sent"]
  OBVIOUS
<1>3. wire' = Forgotten(c) \cup {q}
  BY <1>2 DEF Boot!EnrollAgain, Forgotten, NotTo
<1>4. lockFile /\ (\A d \in Clients \ {c} : ~Active(d)) /\ Placed(c)
  BY <1>1, Running
<1>5. capability \in Values
  <2>1. Boot!Observed = "pending"
    BY DEF Boot!EnrollAgain
  <2>2. claimed = Nobody /\ hash # Boot!Absent
    BY <2>1 DEF Boot!Observed
  <2> QED BY <2>2, BootTyped DEF BootInv, Published, TenancyTypes
<1>6. /\ q \in Boot!Request /\ q.op = "enroll" /\ q.to = c /\ q.user = Us /\ q.by = "bootstrap" /\ q.on = 0
      /\ q.stage = "sent"
  <2>1. "enroll" \in OperationNames /\ 0 \in Nat
    BY DEF OperationNames
  <2> QED BY <1>2, <1>5, <2>1, Posted
<1>7. /\ proc' \in [Clients -> Processes] /\ \A d \in Clients \ {c} : proc'[d] = proc[d]
      /\ proc'[c].at = "enrolling"
  <2>1. PICK p : p = [proc[c] EXCEPT !.again = TRUE]
    OBVIOUS
  <2>2. p \in Processes /\ p.at = "enrolling"
    BY <1>1, <2>1, BootTyped DEF Processes
  <2>3. proc' = [proc EXCEPT ![c] = p]
    BY <1>1, <2>1, BootTyped
  <2> QED BY <2>2, <2>3, BootTyped
<1>8. BootTypes'
  BY <1>1, <1>7, BootTyped DEF BootTypes
<1>9. Placed(c)'
  BY <1>1, <1>4, <1>7 DEF Placed, Active, Boot!At
<1>10. Recorded'
  BY <1>1, RecordedSame
<1>11. NotBefore(c, {q})
  <2>1. NotBefore(c, {})
    BY <1>1, <1>7, Earlier
  <2> QED BY <1>6, <2>1 DEF NotBefore
<1>12. Sends(c, {q})
  BY <1>6, <1>7 DEF Sends, Awaits, Boot!At
<1>13. /\ answers' \in [Clients -> Boot!Answer] /\ answers'[c].status = "none"
       /\ \A d \in Clients \ {c} : answers'[d] = answers[d]
  BY <1>1, Takes
<1>14. OthersRest(c)
  BY <1>4, <1>7, <1>13 DEF OthersRest
<1> QED BY <1>1, <1>3, <1>8, <1>9, <1>10, <1>11, <1>12, <1>13, <1>14, ForgottenStays, Walking

(* An error that ends an invocation: what is recorded stays. *)
LEMMA FailsKeeps ==
  ASSUME BootInv, NEW c \in Clients, Boot!EnrollFails(c) \/ Boot!CreateFails(c)
  PROVE  BootInv'
<1>1. /\ UNCHANGED <<Boot!identity, Boot!objects>> /\ UNCHANGED <<checkpoint, mainFile, copies>>
      /\ Boot!Forget(c) /\ Boot!Ends(c) /\ Active(c) /\ proc[c].at \in {"enrolling", "creating"}
  BY DEF Boot!EnrollFails, Boot!CreateFails, Boot!At, Active
<1>2. /\ proc' \in [Clients -> Processes] /\ \A d \in Clients \ {c} : proc'[d] = proc[d]
      /\ proc'[c].at = "idle" /\ lockFile' \in BOOLEAN
  BY <1>1, EndsTo
<1>3. \A d \in Clients \ {c} : ~Active(d)
  BY <1>1, Running
<1>4. BootTypes'
  BY <1>1, <1>2, BootTyped DEF BootTypes
<1>5. Placed(c)' /\ Recorded' /\ NotBefore(c, {})
  BY <1>1, <1>2, <1>3, PlacedPlain, RecordedSame, Earlier
<1> QED BY <1>1, <1>2, <1>3, <1>4, <1>5, Forgetting

(* Workspace and Principal *)
LEMMA AskWorkspaceKeeps ==
  ASSUME BootInv, NEW c \in Clients, Boot!AskWorkspace(c)
  PROVE  BootInv'
<1>1. /\ UNCHANGED <<Boot!identity, Boot!objects, answers>> /\ UNCHANGED <<lockFile, mainFile, copies>>
      /\ proc[c].at = "loop" /\ checkpoint.step = "enrollment:saved" /\ Active(c)
      /\ Boot!Save(Boot!To("workspace:in-flight"))
  BY DEF Boot!AskWorkspace, Boot!Step, Boot!At, Boot!CreatesFrom, Active
<1>2. "workspace:in-flight" \in Boot!Steps /\ "creating" \in Places /\ "workspace" \in OperationNames /\ 0 \in Nat
      /\ Boot!Absent \in Values
  BY DEF Boot!Steps, Places, OperationNames, Values
<1>3. /\ checkpoint' \in Checkpoints /\ checkpoint'.step = "workspace:in-flight"
      /\ checkpoint'.workspace = checkpoint.workspace /\ checkpoint'.principal = checkpoint.principal
      /\ checkpoint'.file = checkpoint.file
  BY <1>1, <1>2, SaveTo
<1>4. lockFile /\ \A d \in Clients \ {c} : ~Active(d)
  BY <1>1, Running
<1>5. Recorded'
  <2>1. claimed = Us
    BY <1>1 DEF BootInv, Recorded, Boot!EvidenceTrue, Boot!WithUser
  <2> QED BY <1>1, <1>3, <2>1, RecordedStep DEF Boot!WithWorkspace, Boot!WithPrincipal
<1>6. checkpoint.step \in NoWorkspaceYet /\ checkpoint.step \in NoPrincipalYet /\ checkpoint.step \in NoKeyAsked
  BY <1>1 DEF NoWorkspaceYet, NoPrincipalYet, NoKeyAsked, Boot!Steps, Boot!WithPrincipal
<1>7. CASE Boot!Post(c, "workspace", 0, Boot!Absent) /\ Boot!Moves(c, "creating")
  <2>1. /\ proc' \in [Clients -> Processes] /\ \A d \in Clients \ {c} : proc'[d] = proc[d]
        /\ proc'[c].at = "creating"
    BY <1>2, <1>7, MovesTo
  <2>2. BootTypes'
    BY <1>1, <1>3, <2>1, BootTyped DEF BootTypes
  <2>3. Placed(c)'
    BY <1>1, <1>3, <1>4, <2>1 DEF Placed, Active, Boot!At
  <2>4. NotBefore(c, {}) /\ Awaits(c, "workspace")'
    BY <1>3, <1>6, <2>1, Earlier DEF Awaits, Boot!At
  <2>5. Unasked("workspace", workspaces, wire) /\ checkpoint'.step \notin NoWorkspaceYet
    BY <1>3, <1>6 DEF BootInv, Onces, NoWorkspaceYet
  <2> QED BY <1>1, <1>2, <1>4, <1>5, <1>7, <2>1, <2>2, <2>3, <2>4, <2>5, Requesting
<1>8. CASE UNCHANGED <<wire, proc>>
  <2>1. (\A q \in wire : q.to # c) /\ answers[c].status = "none"
    BY <1>1, NotAwaiting
  <2>2. BootTypes'
    BY <1>1, <1>3, <1>8, BootTyped DEF BootTypes
  <2>3. Placed(c)' /\ NotBefore(c, {})
    BY <1>1, <1>4, <1>6, <1>8, PlacedPlain, Earlier
  <2> QED BY <1>1, <1>4, <1>5, <1>8, <2>1, <2>2, <2>3, Quiet
<1> QED BY <1>7, <1>8 DEF Boot!AskWorkspace

LEMMA AskPrincipalKeeps ==
  ASSUME BootInv, NEW c \in Clients, Boot!AskPrincipal(c)
  PROVE  BootInv'
<1>1. /\ UNCHANGED <<Boot!identity, Boot!objects, answers>> /\ UNCHANGED <<lockFile, mainFile, copies>>
      /\ proc[c].at = "loop" /\ checkpoint.step = "workspace:saved" /\ Active(c)
      /\ Boot!Save(Boot!To("principal:in-flight"))
  BY DEF Boot!AskPrincipal, Boot!Step, Boot!At, Boot!CreatesFrom, Active
<1>2. "principal:in-flight" \in Boot!Steps /\ "creating" \in Places /\ "principal" \in OperationNames
      /\ checkpoint.workspace \in Nat /\ Boot!Absent \in Values
  BY BootTyped DEF Boot!Steps, Places, OperationNames, Values
<1>3. /\ checkpoint' \in Checkpoints /\ checkpoint'.step = "principal:in-flight"
      /\ checkpoint'.workspace = checkpoint.workspace /\ checkpoint'.principal = checkpoint.principal
      /\ checkpoint'.file = checkpoint.file
  BY <1>1, <1>2, SaveTo
<1>4. lockFile /\ \A d \in Clients \ {c} : ~Active(d)
  BY <1>1, Running
<1>5. Recorded'
  <2>1. claimed = Us
    BY <1>1 DEF BootInv, Recorded, Boot!EvidenceTrue, Boot!WithUser, Boot!WithWorkspace
  <2> QED BY <1>1, <1>3, <2>1, RecordedStep DEF Boot!WithWorkspace, Boot!WithPrincipal
<1>6. checkpoint.step \notin NoWorkspaceYet /\ checkpoint.step \in NoPrincipalYet /\ checkpoint.step \in NoKeyAsked
  BY <1>1 DEF NoWorkspaceYet, NoPrincipalYet, NoKeyAsked, Boot!Steps, Boot!WithPrincipal
<1>7. checkpoint'.step \notin NoWorkspaceYet /\ checkpoint'.step \notin NoPrincipalYet
  BY <1>3 DEF NoWorkspaceYet, NoPrincipalYet
<1>8. CASE Boot!Post(c, "principal", checkpoint.workspace, Boot!Absent) /\ Boot!Moves(c, "creating")
  <2>1. /\ proc' \in [Clients -> Processes] /\ \A d \in Clients \ {c} : proc'[d] = proc[d]
        /\ proc'[c].at = "creating"
    BY <1>2, <1>8, MovesTo
  <2>2. BootTypes'
    BY <1>1, <1>3, <2>1, BootTyped DEF BootTypes
  <2>3. Placed(c)'
    BY <1>1, <1>3, <1>4, <2>1 DEF Placed, Active, Boot!At
  <2>4. NotBefore(c, {}) /\ Awaits(c, "principal")'
    BY <1>3, <1>6, <1>7, <2>1, Earlier DEF Awaits, Boot!At
  <2>5. Unasked("principal", principals, wire)
    BY <1>6 DEF BootInv, Onces
  <2> QED BY <1>1, <1>2, <1>3, <1>4, <1>5, <1>7, <1>8, <2>1, <2>2, <2>3, <2>4, <2>5, Requesting
<1>9. CASE UNCHANGED <<wire, proc>>
  <2>1. (\A q \in wire : q.to # c) /\ answers[c].status = "none"
    BY <1>1, NotAwaiting
  <2>2. BootTypes'
    BY <1>1, <1>3, <1>9, BootTyped DEF BootTypes
  <2>3. Placed(c)' /\ NotBefore(c, {})
    BY <1>1, <1>4, <1>6, <1>7, <1>9, PlacedPlain, Earlier
  <2> QED BY <1>1, <1>4, <1>5, <1>9, <2>1, <2>2, <2>3, Quiet
<1> QED BY <1>8, <1>9 DEF Boot!AskPrincipal

LEMMA IdentifiedTrue ==
  ASSUME BootInv, NEW c \in Clients, UNCHANGED <<Boot!identity, Boot!objects, mainFile, copies>>, NEW n \in Nat,
         Boot!Save(Boot!Identified(n)), proc'[c].at \notin {"asking", "issuing"},
         \/ checkpoint.step = "workspace:in-flight" /\ Boot!Exists(n)
         \/ checkpoint.step = "principal:in-flight" /\ Boot!Listed(checkpoint.workspace, n)
  PROVE  checkpoint' \in Checkpoints /\ Recorded' /\ NotBefore(c, {})
<1>1. UNCHANGED <<workspaces, principals, keys, claimed>>
  BY DEF Boot!identity, Boot!objects
<1>2. claimed = Us
  BY DEF BootInv, Recorded, Boot!EvidenceTrue, Boot!WithUser, Boot!WithWorkspace
<1>3. checkpoint \in Checkpoints /\ (checkpoint.file \in Boot!Recovered => checkpoint.file \in copies)
  BY BootTyped DEF BootInv, Recorded
<1>4. CASE checkpoint.step = "workspace:in-flight" /\ Boot!Exists(n)
  <2>1. checkpoint' = [checkpoint EXCEPT !.step = "workspace:saved", !.workspace = n]
    BY <1>4 DEF Boot!Save, Boot!Identified
  <2>2. /\ checkpoint' \in Checkpoints /\ checkpoint'.step = "workspace:saved" /\ checkpoint'.workspace = n
        /\ checkpoint'.file = checkpoint.file
    BY <1>3, <2>1 DEF Checkpoints, Boot!Steps
  <2>3. Recorded'
    BY <1>1, <1>2, <1>3, <1>4, <2>2 DEF Recorded, Boot!EvidenceTrue, Boot!WithPrincipal, Boot!Exists
  <2>4. /\ checkpoint'.step \notin NoWorkspaceYet /\ checkpoint.step \in NoPrincipalYet /\ checkpoint.step \in NoKeyAsked
    BY <1>4, <2>2 DEF NoWorkspaceYet, NoPrincipalYet, NoKeyAsked, Boot!Steps, Boot!WithPrincipal
  <2> QED BY <2>2, <2>3, <2>4, Earlier
<1>5. CASE checkpoint.step = "principal:in-flight" /\ Boot!Listed(checkpoint.workspace, n)
  <2>1. checkpoint' = [checkpoint EXCEPT !.step = "principal:saved", !.principal = n]
    BY <1>5 DEF Boot!Save, Boot!Identified
  <2>2. /\ checkpoint' \in Checkpoints /\ checkpoint'.step = "principal:saved" /\ checkpoint'.principal = n
        /\ checkpoint'.file = checkpoint.file /\ checkpoint'.workspace = checkpoint.workspace
    BY <1>3, <2>1 DEF Checkpoints, Boot!Steps
  <2>3. Boot!Exists(checkpoint.workspace)
    BY <1>5 DEF BootInv, Recorded, Boot!EvidenceTrue, Boot!WithWorkspace
  <2>4. Recorded'
    BY <1>1, <1>2, <1>3, <1>5, <2>2, <2>3 DEF Recorded, Boot!EvidenceTrue, Boot!Exists, Boot!Listed
  <2>5. /\ checkpoint'.step \notin NoWorkspaceYet /\ checkpoint'.step \notin NoPrincipalYet /\ checkpoint.step \in NoKeyAsked
    BY <1>5, <2>2 DEF NoWorkspaceYet, NoPrincipalYet, NoKeyAsked, Boot!Steps, Boot!WithPrincipal
  <2> QED BY <2>2, <2>4, <2>5, Earlier
<1> QED BY <1>4, <1>5

LEMMA CreatedKeeps ==
  ASSUME BootInv, NEW c \in Clients, Boot!Created(c)
  PROVE  BootInv'
<1>1. /\ UNCHANGED <<Boot!identity, Boot!objects, wire>> /\ UNCHANGED <<lockFile, mainFile, copies>>
      /\ proc[c].at = "creating" /\ answers[c].status = "ok" /\ Active(c)
      /\ Boot!Save(Boot!Identified(answers[c].value)) /\ Boot!Take(c) /\ Boot!Moves(c, "loop")
  BY DEF Boot!Created, Boot!Answered, Boot!At, Active
<1>2. lockFile /\ (\A d \in Clients \ {c} : ~Active(d)) /\ Placed(c) /\ Heard(c)
  BY <1>1, Running
<1>3. "loop" \in Places /\ answers[c].value \in Nat
  BY AnswersAre, BootTyped DEF Places
<1>4. /\ proc' \in [Clients -> Processes] /\ \A d \in Clients \ {c} : proc'[d] = proc[d]
      /\ proc'[c].at = "loop"
  BY <1>1, <1>3, MovesTo
<1>5. \/ checkpoint.step = "workspace:in-flight" /\ Boot!Exists(answers[c].value)
      \/ checkpoint.step = "principal:in-flight" /\ Boot!Listed(checkpoint.workspace, answers[c].value)
  <2>1. checkpoint.step \in {"workspace:in-flight", "principal:in-flight"} /\ Means(c, answers[c].value)
    BY <1>1, <1>2 DEF Placed, Heard, Boot!At
  <2> QED BY <1>1, <2>1 DEF Means, Awaits, Boot!At, Boot!Exists
<1>6. checkpoint' \in Checkpoints /\ Recorded' /\ NotBefore(c, {})
  BY <1>1, <1>3, <1>4, <1>5, IdentifiedTrue
<1>7. BootTypes'
  BY <1>1, <1>4, <1>6, BootTyped DEF BootTypes
<1>8. Placed(c)' /\ \A q \in wire : q.to # c
  BY <1>1, <1>2, <1>4, PlacedPlain, Unaddressed
<1> QED BY <1>1, <1>2, <1>4, <1>6, <1>7, <1>8, Quiet

LEMMA AdoptKeeps ==
  ASSUME BootInv, NEW c \in Clients, Boot!Adopt(c)
  PROVE  BootInv'
<1>1. /\ UNCHANGED <<Boot!identity, Boot!objects, wire, answers>> /\ UNCHANGED <<lockFile, mainFile, copies, proc>>
      /\ proc[c].at = "loop" /\ Active(c)
  BY DEF Boot!Adopt, Boot!tenancyVars, Boot!Step, Boot!At, Active
<1>2. lockFile /\ (\A d \in Clients \ {c} : ~Active(d)) /\ Placed(c)
  BY <1>1, Running
<1>3. proc[c].workspace \in Nat /\ proc[c].principal \in Nat
  BY BootTyped DEF Processes
<1>4. checkpoint' \in Checkpoints /\ Recorded' /\ NotBefore(c, {})
  <2>1. CASE /\ checkpoint.step = "workspace:in-flight" /\ Boot!Validated(proc[c].workspace, 0)
             /\ Boot!Save(Boot!Identified(proc[c].workspace))
    <3>1. Boot!Exists(proc[c].workspace)
      BY <2>1 DEF Boot!Validated
    <3> QED BY <1>1, <1>3, <2>1, <3>1, IdentifiedTrue
  <2>2. CASE /\ checkpoint.step = "principal:in-flight" /\ proc[c].principal # 0
             /\ Boot!Validated(checkpoint.workspace, proc[c].principal)
             /\ Boot!Save(Boot!Identified(proc[c].principal))
    <3>1. Boot!Listed(checkpoint.workspace, proc[c].principal)
      BY <2>2 DEF Boot!Validated
    <3> QED BY <1>1, <1>3, <2>2, <3>1, IdentifiedTrue
  <2> QED BY <2>1, <2>2 DEF Boot!Adopt, Boot!Step
<1>5. BootTypes'
  BY <1>1, <1>4, BootTyped DEF BootTypes
<1>6. Placed(c)' /\ (\A q \in wire : q.to # c) /\ answers[c].status = "none"
  BY <1>1, <1>2, PlacedPlain, NotAwaiting
<1> QED BY <1>1, <1>2, <1>4, <1>5, <1>6, Quiet

(* The key *)
LEMMA SaveFileTo ==
  ASSUME BootInv, NEW step \in Boot!Steps, NEW file \in Int, Boot!Save([Boot!To(step) EXCEPT !.file = file])
  PROVE  /\ checkpoint' \in Checkpoints /\ checkpoint'.step = step /\ checkpoint'.workspace = checkpoint.workspace
         /\ checkpoint'.principal = checkpoint.principal /\ checkpoint'.file = file
<1>1. PICK n : n = [checkpoint EXCEPT !.step = step]
  OBVIOUS
<1>2. /\ n \in Checkpoints /\ n.step = step /\ n.workspace = checkpoint.workspace
      /\ n.principal = checkpoint.principal
  BY <1>1, BootTyped, Saves
<1>3. checkpoint' = [n EXCEPT !.file = file]
  BY <1>1 DEF Boot!Save, Boot!To
<1> QED BY <1>2, <1>3 DEF Checkpoints

LEMMA InFile ==
  /\ Boot!KeyIn(Boot!NoFile) = 0 /\ Boot!KeyIn(Boot!Main) = mainFile
  /\ \A k \in Nat : k # 0 => Boot!KeyIn(k) = k /\ k \in Boot!Recovered
  /\ Boot!Main \notin Boot!Recovered /\ Boot!NoFile \notin Boot!Recovered /\ Boot!Main \in Int /\ Boot!NoFile \in Int
BY DEF Boot!KeyIn, Boot!Main, Boot!NoFile, Boot!Recovered

(* From a step with a Principal to another one *)
LEMMA KeyStep ==
  ASSUME BootInv, UNCHANGED <<Boot!identity, Boot!objects, mainFile, copies>>,
         checkpoint.step \in Boot!WithPrincipal, checkpoint'.step \in Boot!WithPrincipal,
         checkpoint'.workspace = checkpoint.workspace, checkpoint'.principal = checkpoint.principal,
         checkpoint'.file = checkpoint.file \/ checkpoint'.file \notin Boot!Recovered \/ checkpoint'.file \in copies,
         checkpoint'.step = "key:saved" => OfRecorded(Boot!KeyIn(checkpoint'.file))
  PROVE  Recorded'
<1>1. checkpoint.step \in Boot!WithWorkspace /\ claimed = Us
  BY DEF BootInv, Recorded, Boot!EvidenceTrue, Boot!WithUser, Boot!WithWorkspace
<1> QED BY <1>1, RecordedStep

LEMMA AnnounceKeeps ==
  ASSUME BootInv, NEW c \in Clients, Boot!Announce(c)
  PROVE  BootInv'
<1>1. /\ UNCHANGED <<Boot!identity, Boot!objects, wire, answers>> /\ UNCHANGED <<lockFile, mainFile, copies>>
      /\ proc[c].at = "loop" /\ Active(c) /\ checkpoint.step = "principal:saved"
      /\ Boot!Save([Boot!To("key:in-flight") EXCEPT !.file = Boot!Main]) /\ Boot!Moves(c, "asking")
  BY DEF Boot!Announce, Boot!tenancyVars, Boot!Step, Boot!At, Active
<1>2. lockFile /\ (\A d \in Clients \ {c} : ~Active(d)) /\ Placed(c)
  BY <1>1, Running
<1>3. "asking" \in Places /\ "key:in-flight" \in Boot!Steps
  BY DEF Places, Boot!Steps
<1>4. /\ proc' \in [Clients -> Processes] /\ \A d \in Clients \ {c} : proc'[d] = proc[d]
      /\ proc'[c].at = "asking"
  BY <1>1, <1>3, MovesTo
<1>5. /\ checkpoint' \in Checkpoints /\ checkpoint'.step = "key:in-flight"
      /\ checkpoint'.workspace = checkpoint.workspace /\ checkpoint'.principal = checkpoint.principal
      /\ checkpoint'.file = Boot!Main
  BY <1>1, <1>3, InFile, SaveFileTo
<1>6. Recorded'
  BY <1>1, <1>5, InFile, KeyStep DEF Boot!WithPrincipal
<1>7. BootTypes' /\ Placed(c)'
  <2>1. BootTypes'
    BY <1>1, <1>4, <1>5, BootTyped DEF BootTypes
  <2>2. Placed(c)'
    BY <1>1, <1>2, <1>4, <1>5 DEF Placed, Active, Boot!At
  <2> QED BY <2>1, <2>2
<1>8. NotBefore(c, {})
  <2>1. /\ checkpoint'.step \notin NoWorkspaceYet /\ checkpoint'.step \notin NoPrincipalYet /\ checkpoint.step \in NoKeyAsked
    BY <1>1, <1>5 DEF NoWorkspaceYet, NoPrincipalYet, NoKeyAsked, Boot!Steps, Boot!WithPrincipal
  <2> QED BY <2>1, Earlier
<1>9. (\A q \in wire : q.to # c) /\ answers[c].status = "none"
  BY <1>1, NotAwaiting
<1> QED BY <1>1, <1>2, <1>4, <1>6, <1>7, <1>8, <1>9, Quiet

LEMMA AskKeeps ==
  ASSUME BootInv, NEW c \in Clients, Boot!Ask(c)
  PROVE  BootInv'
<1>1. /\ UNCHANGED <<Boot!identity, Boot!objects, wire, answers>> /\ UNCHANGED <<lockFile, checkpoint, mainFile, copies>>
      /\ proc[c].at = "asking" /\ Active(c) /\ Boot!Moves(c, "issuing")
  BY DEF Boot!Ask, Boot!tenancyVars, Boot!At, Active
<1>2. lockFile /\ (\A d \in Clients \ {c} : ~Active(d)) /\ Placed(c)
  BY <1>1, Running
<1>3. "issuing" \in Places
  BY DEF Places
<1>4. /\ proc' \in [Clients -> Processes] /\ \A d \in Clients \ {c} : proc'[d] = proc[d]
      /\ proc'[c].at = "issuing"
  BY <1>1, <1>3, MovesTo
<1>5. BootTypes'
  BY <1>1, <1>4, BootTyped DEF BootTypes
<1>6. Placed(c)'
  BY <1>1, <1>2, <1>4 DEF Placed, Active, Boot!At
<1>7. Recorded' /\ NotBefore(c, {})
  BY <1>1, RecordedSame, Earlier
<1>8. (\A q \in wire : q.to # c) /\ answers[c].status = "none"
  BY <1>1, NotAwaiting
<1> QED BY <1>1, <1>2, <1>4, <1>5, <1>6, <1>7, <1>8, Quiet

LEMMA SendIssueKeeps ==
  ASSUME BootInv, NEW c \in Clients, Boot!SendIssue(c)
  PROVE  BootInv'
<1>1. /\ UNCHANGED <<Boot!identity, Boot!objects, answers>> /\ UNCHANGED <<lockFile, checkpoint, mainFile, copies>>
      /\ proc[c].at = "issuing" /\ Active(c) /\ Boot!Moves(c, "issued")
      /\ Boot!Post(c, "key", checkpoint.principal, Boot!Absent)
  BY DEF Boot!SendIssue, Boot!At, Active
<1>2. lockFile /\ (\A d \in Clients \ {c} : ~Active(d)) /\ Placed(c)
  BY <1>1, Running
<1>3. "issued" \in Places /\ "key" \in OperationNames /\ checkpoint.principal \in Nat /\ Boot!Absent \in Values
  BY BootTyped DEF Places, OperationNames, Values
<1>4. /\ proc' \in [Clients -> Processes] /\ \A d \in Clients \ {c} : proc'[d] = proc[d]
      /\ proc'[c].at = "issued"
  BY <1>1, <1>3, MovesTo
<1>5. BootTypes'
  BY <1>1, <1>4, BootTyped DEF BootTypes
<1>6. Placed(c)'
  BY <1>1, <1>2, <1>4 DEF Placed, Active, Boot!At
<1>7. Recorded' /\ NotBefore(c, {})
  BY <1>1, RecordedSame, Earlier
<1>8. Unasked("key", keys, wire)
  BY <1>1 DEF BootInv, Onces
<1>9. checkpoint'.step \notin NoKeyAsked /\ Awaits(c, "key")'
  BY <1>1, <1>2, <1>4 DEF Placed, NoKeyAsked, Awaits, Boot!At
<1> QED BY <1>1, <1>2, <1>3, <1>4, <1>5, <1>6, <1>7, <1>8, <1>9, Requesting

LEMMA NothingSentKeeps ==
  ASSUME BootInv, NEW c \in Clients, Boot!NothingSent(c)
  PROVE  BootInv'
<1>1. /\ UNCHANGED <<Boot!identity, Boot!objects, wire, answers>> /\ UNCHANGED <<mainFile, copies>>
      /\ proc[c].at \in {"asking", "issuing"} /\ Active(c) /\ Boot!Ends(c) /\ Boot!Save(Boot!Unsent)
  BY DEF Boot!NothingSent, Boot!tenancyVars, Active
<1>2. (\A d \in Clients \ {c} : ~Active(d)) /\ Placed(c)
  BY <1>1, Running
<1>3. /\ proc' \in [Clients -> Processes] /\ \A d \in Clients \ {c} : proc'[d] = proc[d]
      /\ proc'[c].at = "idle" /\ lockFile' \in BOOLEAN
  BY <1>1, EndsTo
<1>4. /\ checkpoint' \in Checkpoints /\ checkpoint'.step = "principal:saved"
      /\ checkpoint'.workspace = checkpoint.workspace /\ checkpoint'.principal = checkpoint.principal
      /\ checkpoint'.file = Boot!NoFile
  <2>1. "principal:saved" \in Boot!Steps
    BY DEF Boot!Steps
  <2>2. checkpoint' = [checkpoint EXCEPT !.step = "principal:saved", !.file = Boot!NoFile]
    BY <1>1 DEF Boot!Save, Boot!Unsent
  <2> QED BY <2>1, <2>2, BootTyped, InFile DEF Checkpoints
<1>5. Recorded'
  <2>1. checkpoint.step = "key:in-flight"
    BY <1>1, <1>2 DEF Placed
  <2> QED BY <1>1, <1>4, <2>1, InFile, KeyStep DEF Boot!WithPrincipal
<1>6. BootTypes' /\ Placed(c)'
  <2>1. BootTypes'
    BY <1>1, <1>3, <1>4, BootTyped DEF BootTypes
  <2> QED BY <1>2, <1>3, <2>1, PlacedPlain
<1>7. NotBefore(c, {})
  <2>1. checkpoint'.step \notin NoWorkspaceYet /\ checkpoint'.step \notin NoPrincipalYet
    BY <1>4 DEF NoWorkspaceYet, NoPrincipalYet, Boot!WithPrincipal
  <2> QED BY <1>1, <1>3, <2>1, Earlier
<1>8. (\A q \in wire : q.to # c) /\ answers[c].status = "none"
  BY <1>1, NotAwaiting
<1> QED BY <1>1, <1>2, <1>3, <1>5, <1>6, <1>7, <1>8, Quiet

LEMMA IssuedKeeps ==
  ASSUME BootInv, NEW c \in Clients, Boot!Issued(c)
  PROVE  BootInv'
<1>1. /\ UNCHANGED <<Boot!identity, Boot!objects, wire>> /\ UNCHANGED <<lockFile, checkpoint, mainFile, copies>>
      /\ proc[c].at = "issued" /\ Active(c) /\ answers[c].status = "ok" /\ Boot!Take(c)
      /\ proc' = [proc EXCEPT ![c].at = "write", ![c].key = answers[c].value]
  BY DEF Boot!Issued, Boot!Answered, Boot!At, Active
<1>2. lockFile /\ (\A d \in Clients \ {c} : ~Active(d)) /\ Placed(c) /\ Heard(c)
  BY <1>1, Running
<1>3. /\ proc' \in [Clients -> Processes] /\ \A d \in Clients \ {c} : proc'[d] = proc[d]
      /\ proc'[c].at = "write" /\ proc'[c].key = answers[c].value
  <2>1. proc \in [Clients -> Processes] /\ proc[c] \in Processes /\ answers[c].value \in Nat
    BY AnswersAre, BootTyped
  <2>2. PICK p, n : p = [proc[c] EXCEPT !.at = "write"] /\ n = [p EXCEPT !.key = answers[c].value]
    OBVIOUS
  <2>3. n \in Processes /\ n.at = "write" /\ n.key = answers[c].value
    BY <2>1, <2>2 DEF Processes, Places
  <2>4. proc' = [proc EXCEPT ![c] = n]
    BY <1>1, <2>1, <2>2
  <2> QED BY <2>1, <2>3, <2>4
<1>4. OfRecorded(answers[c].value)
  BY <1>1, <1>2 DEF Heard, Means, Awaits, Boot!At
<1>5. BootTypes'
  BY <1>1, <1>3, BootTyped DEF BootTypes
<1>6. Placed(c)'
  <2>1. OfRecorded(proc[c].key)'
    BY <1>1, <1>3, <1>4 DEF OfRecorded, Boot!objects
  <2> QED BY <1>1, <1>2, <1>3, <2>1 DEF Placed, Active, Boot!At
<1>7. Recorded' /\ NotBefore(c, {}) /\ \A q \in wire : q.to # c
  BY <1>1, <1>3, RecordedSame, Earlier, Unaddressed
<1> QED BY <1>1, <1>2, <1>3, <1>5, <1>6, <1>7, Quiet

LEMMA WriteKeyKeeps ==
  ASSUME BootInv, NEW c \in Clients, Boot!WriteKey(c)
  PROVE  BootInv'
<1>1. /\ UNCHANGED <<Boot!identity, Boot!objects, wire, answers>> /\ UNCHANGED <<lockFile, checkpoint, copies>>
      /\ proc[c].at = "write" /\ Active(c) /\ mainFile' = proc[c].key /\ Boot!Moves(c, "mark")
  BY DEF Boot!WriteKey, Boot!tenancyVars, Boot!At, Active
<1>2. lockFile /\ (\A d \in Clients \ {c} : ~Active(d)) /\ Placed(c)
  BY <1>1, Running
<1>3. "mark" \in Places /\ proc[c].key \in Nat
  BY BootTyped DEF Places, Processes
<1>4. /\ proc' \in [Clients -> Processes] /\ \A d \in Clients \ {c} : proc'[d] = proc[d]
      /\ proc'[c].at = "mark" /\ proc'[c].key = proc[c].key
  BY <1>1, <1>3, MovesTo
<1>5. BootTypes'
  BY <1>1, <1>3, <1>4, BootTyped DEF BootTypes
<1>6. Placed(c)'
  <2>1. OfRecorded(proc[c].key)
    BY <1>1, <1>2 DEF Placed
  <2>2. OfRecorded(proc[c].key)'
    BY <1>1, <1>4, <2>1 DEF OfRecorded, Boot!objects
  <2> QED BY <1>1, <1>2, <1>4, <2>2 DEF Placed, Active, Boot!At
<1>7. Recorded'
  <2>1. checkpoint.step = "key:in-flight"
    BY <1>1, <1>2 DEF Placed
  <2> QED BY <1>1, <2>1 DEF BootInv, Recorded, Boot!EvidenceTrue, Boot!Exists, Boot!Listed, Boot!identity, Boot!objects
<1>8. NotBefore(c, {}) /\ (\A q \in wire : q.to # c) /\ answers[c].status = "none"
  BY <1>1, <1>4, Earlier, NotAwaiting
<1> QED BY <1>1, <1>2, <1>4, <1>5, <1>6, <1>7, <1>8, Quiet

LEMMA MarkKeeps ==
  ASSUME BootInv, NEW c \in Clients, Boot!Mark(c)
  PROVE  BootInv'
<1>1. /\ UNCHANGED <<Boot!identity, Boot!objects, wire, answers>> /\ UNCHANGED <<lockFile, mainFile, copies>>
      /\ proc[c].at = "mark" /\ Active(c) /\ Boot!Save(Boot!To("key:saved")) /\ Boot!Moves(c, "loop")
  BY DEF Boot!Mark, Boot!tenancyVars, Boot!At, Active
<1>2. lockFile /\ (\A d \in Clients \ {c} : ~Active(d)) /\ Placed(c)
  BY <1>1, Running
<1>3. "loop" \in Places /\ "key:saved" \in Boot!Steps
  BY DEF Places, Boot!Steps
<1>4. /\ proc' \in [Clients -> Processes] /\ \A d \in Clients \ {c} : proc'[d] = proc[d]
      /\ proc'[c].at = "loop"
  BY <1>1, <1>3, MovesTo
<1>5. /\ checkpoint' \in Checkpoints /\ checkpoint'.step = "key:saved"
      /\ checkpoint'.workspace = checkpoint.workspace /\ checkpoint'.principal = checkpoint.principal
      /\ checkpoint'.file = checkpoint.file
  BY <1>1, <1>3, SaveTo
<1>6. BootTypes' /\ Placed(c)'
  <2>1. BootTypes'
    BY <1>1, <1>4, <1>5, BootTyped DEF BootTypes
  <2> QED BY <1>1, <1>2, <1>4, <2>1, PlacedPlain
<1>7. checkpoint.step = "key:in-flight" /\ checkpoint.file = Boot!Main /\ OfRecorded(mainFile)
  BY <1>1, <1>2 DEF Placed, Boot!At
<1>8. Recorded'
  <2>1. OfRecorded(Boot!KeyIn(checkpoint'.file))
    BY <1>5, <1>7, InFile
  <2> QED BY <1>1, <1>5, <1>7, <2>1, KeyStep DEF Boot!WithPrincipal
<1>9. NotBefore(c, {})
  <2>1. checkpoint'.step \notin NoWorkspaceYet /\ checkpoint'.step \notin NoPrincipalYet /\ checkpoint'.step \notin NoKeyAsked
    BY <1>5 DEF NoWorkspaceYet, NoPrincipalYet, NoKeyAsked, Boot!WithPrincipal
  <2> QED BY <1>4, <2>1, Earlier
<1>10. (\A q \in wire : q.to # c) /\ answers[c].status = "none"
  BY <1>1, NotAwaiting
<1> QED BY <1>1, <1>2, <1>4, <1>6, <1>8, <1>9, <1>10, Quiet

LEMMA AmbiguousKeeps ==
  ASSUME BootInv, NEW c \in Clients, Boot!Ambiguous(c)
  PROVE  BootInv'
<1>1. /\ UNCHANGED <<Boot!identity, Boot!objects>> /\ UNCHANGED <<mainFile, copies>>
      /\ proc[c].at \in {"asking", "issuing", "issued", "write", "mark"} /\ Active(c) /\ Boot!Ends(c) /\ Boot!Forget(c)
      /\ Boot!Save(Boot!To("key:ambiguous")) \/ UNCHANGED checkpoint
  BY DEF Boot!Ambiguous, Boot!At, Active
<1>2. (\A d \in Clients \ {c} : ~Active(d)) /\ checkpoint.step = "key:in-flight"
  BY <1>1, Running DEF Placed
<1>3. /\ proc' \in [Clients -> Processes] /\ \A d \in Clients \ {c} : proc'[d] = proc[d]
      /\ proc'[c].at = "idle" /\ lockFile' \in BOOLEAN
  BY <1>1, EndsTo
<1>4. /\ checkpoint' \in Checkpoints /\ checkpoint'.step \in {"key:ambiguous", "key:in-flight"}
      /\ checkpoint'.workspace = checkpoint.workspace /\ checkpoint'.principal = checkpoint.principal
      /\ checkpoint'.file = checkpoint.file
  <2>1. "key:ambiguous" \in Boot!Steps
    BY DEF Boot!Steps
  <2> QED BY <1>1, <1>2, <2>1, SaveTo, BootTyped
<1>5. Recorded'
  BY <1>1, <1>2, <1>4, KeyStep DEF Boot!WithPrincipal
<1>6. BootTypes' /\ Placed(c)'
  <2>1. BootTypes'
    BY <1>1, <1>3, <1>4, BootTyped DEF BootTypes
  <2> QED BY <1>2, <1>3, <2>1, PlacedPlain
<1>7. NotBefore(c, {})
  <2>1. checkpoint'.step \notin NoWorkspaceYet /\ checkpoint'.step \notin NoPrincipalYet /\ checkpoint'.step \notin NoKeyAsked
    BY <1>4 DEF NoWorkspaceYet, NoPrincipalYet, NoKeyAsked, Boot!WithPrincipal
  <2> QED BY <1>3, <2>1, Earlier
<1> QED BY <1>1, <1>2, <1>3, <1>5, <1>6, <1>7, Forgetting

LEMMA ResumeKeeps ==
  ASSUME BootInv, NEW c \in Clients, Boot!Resume(c)
  PROVE  BootInv'
<1>1. /\ UNCHANGED <<Boot!identity, Boot!objects, wire, answers>> /\ UNCHANGED <<lockFile, mainFile, copies, proc>>
      /\ proc[c].at = "loop" /\ Active(c) /\ checkpoint.step = "key:in-flight"
      /\ \/ Boot!Verified(Boot!KeyIn(checkpoint.file)) /\ Boot!Save(Boot!To("key:saved"))
         \/ Boot!Save(Boot!To("key:ambiguous"))
  BY DEF Boot!Resume, Boot!tenancyVars, Boot!Step, Boot!At, Active
<1>2. lockFile /\ (\A d \in Clients \ {c} : ~Active(d))
  BY <1>1, Running
<1>3. /\ checkpoint' \in Checkpoints /\ checkpoint'.step \in {"key:ambiguous", "key:saved"}
      /\ checkpoint'.workspace = checkpoint.workspace /\ checkpoint'.principal = checkpoint.principal
      /\ checkpoint'.file = checkpoint.file
      /\ checkpoint'.step = "key:saved" => Boot!Verified(Boot!KeyIn(checkpoint.file))
  <2>1. "key:ambiguous" \in Boot!Steps /\ "key:saved" \in Boot!Steps
    BY DEF Boot!Steps
  <2>2. CASE Boot!Verified(Boot!KeyIn(checkpoint.file)) /\ Boot!Save(Boot!To("key:saved"))
    BY <2>1, <2>2, SaveTo
  <2>3. CASE Boot!Save(Boot!To("key:ambiguous"))
    BY <2>1, <2>3, SaveTo
  <2> QED BY <1>1, <2>2, <2>3
<1>4. checkpoint'.step = "key:saved" => OfRecorded(Boot!KeyIn(checkpoint'.file))
  BY <1>3 DEF Boot!Verified, Boot!Authenticates, OfRecorded
<1>5. Recorded'
  BY <1>1, <1>3, <1>4, KeyStep DEF Boot!WithPrincipal
<1>6. BootTypes' /\ Placed(c)'
  <2>1. BootTypes'
    BY <1>1, <1>3, BootTyped DEF BootTypes
  <2> QED BY <1>1, <1>2, <2>1, PlacedPlain
<1>7. NotBefore(c, {})
  <2>1. checkpoint'.step \notin NoWorkspaceYet /\ checkpoint'.step \notin NoPrincipalYet /\ checkpoint'.step \notin NoKeyAsked
    BY <1>3 DEF NoWorkspaceYet, NoPrincipalYet, NoKeyAsked, Boot!WithPrincipal
  <2> QED BY <1>1, <2>1, Earlier
<1>8. (\A q \in wire : q.to # c) /\ answers[c].status = "none"
  BY <1>1, NotAwaiting
<1> QED BY <1>1, <1>2, <1>5, <1>6, <1>7, <1>8, Quiet

LEMMA CopyKeeps ==
  ASSUME BootInv, NEW c \in Clients, Boot!Copy(c)
  PROVE  BootInv'
<1>1. /\ UNCHANGED <<Boot!identity, Boot!objects, wire, answers>> /\ UNCHANGED <<lockFile, checkpoint, mainFile>>
      /\ proc[c].at = "loop" /\ Active(c) /\ checkpoint.step \in {"key:ambiguous", "key:saved"}
      /\ proc[c].recover # 0 /\ Boot!Verified(proc[c].recover)
      /\ copies' = copies \cup {proc[c].recover} /\ Boot!Moves(c, "copied")
  BY DEF Boot!Copy, Boot!tenancyVars, Boot!Step, Boot!At, Active
<1>2. lockFile /\ (\A d \in Clients \ {c} : ~Active(d))
  BY <1>1, Running
<1>3. "copied" \in Places /\ proc[c].recover \in Nat
  BY BootTyped DEF Places, Processes
<1>4. /\ proc' \in [Clients -> Processes] /\ \A d \in Clients \ {c} : proc'[d] = proc[d]
      /\ proc'[c].at = "copied" /\ proc'[c].recover = proc[c].recover
  BY <1>1, <1>3, MovesTo
<1>5. BootTypes'
  BY <1>1, <1>3, <1>4, BootTyped DEF BootTypes
<1>6. Placed(c)'
  <2>1. OfRecorded(proc[c].recover)
    BY <1>1 DEF Boot!Verified, Boot!Authenticates, OfRecorded
  <2>2. OfRecorded(proc[c].recover)'
    BY <1>1, <1>4, <2>1 DEF OfRecorded, Boot!objects
  <2> QED BY <1>1, <1>2, <1>4, <2>2 DEF Placed, Active, Boot!At
<1>7. Recorded'
  BY <1>1 DEF BootInv, Recorded, Boot!EvidenceTrue, Boot!KeyIn, Boot!Exists, Boot!Listed, Boot!identity, Boot!objects
<1>8. NotBefore(c, {}) /\ (\A q \in wire : q.to # c) /\ answers[c].status = "none"
  BY <1>1, <1>4, Earlier, NotAwaiting
<1> QED BY <1>1, <1>2, <1>4, <1>5, <1>6, <1>7, <1>8, Quiet

LEMMA RecordKeeps ==
  ASSUME BootInv, NEW c \in Clients, Boot!Record(c)
  PROVE  BootInv'
<1>1. /\ UNCHANGED <<Boot!identity, Boot!objects, wire, answers>> /\ UNCHANGED <<mainFile, copies>>
      /\ proc[c].at = "copied" /\ Active(c) /\ Boot!Ends(c)
      /\ Boot!Save([Boot!To("key:saved") EXCEPT !.file = proc[c].recover]) \/ UNCHANGED checkpoint
  BY DEF Boot!Record, Boot!tenancyVars, Boot!At, Active
<1>2. (\A d \in Clients \ {c} : ~Active(d)) /\ Placed(c)
  BY <1>1, Running
<1>3. /\ checkpoint.step \in {"key:ambiguous", "key:saved"} /\ proc[c].recover # 0 /\ proc[c].recover \in copies
      /\ OfRecorded(proc[c].recover) /\ proc[c].recover \in Nat
  BY <1>1, <1>2, BootTyped DEF Placed, Boot!At, Processes
<1>4. /\ proc' \in [Clients -> Processes] /\ \A d \in Clients \ {c} : proc'[d] = proc[d]
      /\ proc'[c].at = "idle" /\ lockFile' \in BOOLEAN
  BY <1>1, EndsTo
<1>5. /\ checkpoint' \in Checkpoints /\ Recorded' /\ checkpoint'.step \in {"key:ambiguous", "key:saved"}
  <2>1. CASE UNCHANGED checkpoint
    BY <1>1, <1>3, <2>1, RecordedSame, BootTyped
  <2>2. CASE Boot!Save([Boot!To("key:saved") EXCEPT !.file = proc[c].recover])
    <3>1. "key:saved" \in Boot!Steps /\ proc[c].recover \in Int
      BY <1>3 DEF Boot!Steps
    <3>2. /\ checkpoint' \in Checkpoints /\ checkpoint'.step = "key:saved"
          /\ checkpoint'.workspace = checkpoint.workspace /\ checkpoint'.principal = checkpoint.principal
          /\ checkpoint'.file = proc[c].recover
      BY <2>2, <3>1, SaveFileTo
    <3>3. OfRecorded(Boot!KeyIn(checkpoint'.file))
      BY <1>3, <3>2, InFile
    <3> QED BY <1>1, <1>3, <3>2, <3>3, KeyStep DEF Boot!WithPrincipal
  <2> QED BY <1>1, <2>1, <2>2
<1>6. BootTypes' /\ Placed(c)'
  <2>1. BootTypes'
    BY <1>1, <1>4, <1>5, BootTyped DEF BootTypes
  <2> QED BY <1>2, <1>4, <2>1, PlacedPlain
<1>7. NotBefore(c, {})
  <2>1. checkpoint'.step \notin NoWorkspaceYet /\ checkpoint'.step \notin NoPrincipalYet /\ checkpoint'.step \notin NoKeyAsked
    BY <1>5 DEF NoWorkspaceYet, NoPrincipalYet, NoKeyAsked, Boot!WithPrincipal
  <2> QED BY <1>4, <2>1, Earlier
<1>8. (\A q \in wire : q.to # c) /\ answers[c].status = "none"
  BY <1>1, NotAwaiting
<1> QED BY <1>1, <1>2, <1>4, <1>5, <1>6, <1>7, <1>8, Quiet
-----------------------------------------------------------------------------
LEMMA BootBegins == ASSUME Boot!Init PROVE BootInv
<1>1. /\ users = {} /\ claimed = Nobody /\ capability = Boot!Absent /\ hash = Boot!Absent /\ server = "down" /\ stops = 0
      /\ workspaces = <<>> /\ principals = <<>> /\ keys = <<>> /\ wire = {}
      /\ answers = [c \in Clients |-> Boot!NoAnswer] /\ lockFile = FALSE
      /\ checkpoint = [step |-> "initial", workspace |-> 0, principal |-> 0, file |-> 0]
      /\ mainFile = 0 /\ copies = {} /\ proc = [c \in Clients |-> Boot!Idle]
  BY DEF Boot!Init, Boot!TenancyInit, Boot!NoFile
<1>2. TenancyTypes
  <2>1. answers \in [Clients -> Boot!Answer]
    BY <1>1, AnswersAre
  <2> QED BY <1>1, <2>1, BootConstants DEF TenancyTypes, Values
<1>3. BootTypes
  <2>1. proc \in [Clients -> Processes]
    BY <1>1, IdleIs
  <2>2. checkpoint \in Checkpoints
    BY <1>1 DEF Checkpoints, Boot!Steps
  <2> QED BY <1>1, <2>1, <2>2 DEF BootTypes
<1>4. Published /\ Wired /\ Alone /\ \A q \in wire : Awaited(q)
  BY <1>1 DEF Published, Wired, Alone
<1>5. Onces
  <2>1. Boot!Mine(workspaces) = {} /\ Boot!Mine(principals) = {} /\ Boot!Mine(keys) = {}
    BY <1>1 DEF Boot!Mine
  <2> QED BY <1>1, <2>1 DEF Onces, Once, Unasked
<1>6. ASSUME NEW c \in Clients PROVE Placed(c) /\ Heard(c)
  <2>1. proc[c].at = "idle" /\ answers[c].status = "none"
    BY <1>1, IdleIs, AnswersAre
  <2> QED BY <2>1 DEF Placed, Heard, Active, Boot!At
<1>7. Recorded
  BY <1>1 DEF Recorded, Boot!EvidenceTrue, Boot!WithUser, Boot!WithWorkspace, Boot!WithPrincipal, Boot!Recovered, Boot!NoFile
<1> QED BY <1>2, <1>3, <1>4, <1>5, <1>6, <1>7 DEF BootInv

LEMMA BootSteps == ASSUME BootInv, [Boot!Next]_(Boot!vars) PROVE BootInv'
<1>1. CASE Boot!TenancyNext /\ UNCHANGED Boot!bootVars
  BY <1>1, TenancyKeeps
<1>2. ASSUME NEW c \in Clients, Boot!Runs(c) PROVE BootInv'
  <2>1. PICK w, p, k : /\ w = 0 \/ w \in DOMAIN workspaces
                       /\ p = 0 \/ p \in DOMAIN principals
                       /\ k = 0 \/ k \in DOMAIN keys
                       /\ Boot!Run(c, w, p, k)
    BY <1>2 DEF Boot!Runs
  <2>2. w \in Nat /\ p \in Nat /\ k \in Nat
    BY <2>1, BootTyped DEF TenancyTypes
  <2> QED BY <2>1, <2>2, RunKeeps
<1>3. ASSUME NEW c \in Clients, Boot!Walk(c) PROVE BootInv'
  BY <1>3, EnrollKeeps, EnrolledKeeps, EnrollAgainKeeps, FailsKeeps, AskWorkspaceKeeps, AskPrincipalKeeps,
     CreatedKeeps, AdoptKeeps, AnnounceKeeps, AskKeeps, SendIssueKeeps, NothingSentKeeps, IssuedKeeps,
     WriteKeyKeeps, MarkKeeps, AmbiguousKeeps, ResumeKeeps, CopyKeeps, RecordKeeps DEF Boot!Walk
<1>4. CASE UNCHANGED Boot!vars
  <2>1. /\ UNCHANGED <<users, claimed, capability, hash, server, stops, workspaces, principals, keys, wire, answers>>
        /\ UNCHANGED Boot!bootVars
    BY <1>4 DEF Boot!vars, Boot!tenancyVars, Boot!identity, Boot!objects
  <2>2. More
    BY <2>1 DEF More, Grows
  <2>3. TenancyTypes' /\ Published' /\ Wired' /\ Alone'
    BY <2>1 DEF BootInv, TenancyTypes, Published, Wired, Alone
  <2>4. Onces'
    BY <2>1, OncesKept DEF Boot!objects, Boot!bootVars
  <2>5. \A q \in wire' : q.to # Gone => \E o \in wire : o.to = q.to /\ o.op = q.op /\ o.on = q.on
    BY <2>1
  <2> QED BY <2>1, <2>2, <2>3, <2>4, <2>5, HeardSame, AwaitedSame, ServerKeeps
<1> QED BY <1>1, <1>2, <1>3, <1>4, GiveUpKeeps, KillKeeps, ClearLockKeeps DEF Boot!Next

LEMMA BootHolds == Boot!Spec => []BootInv
BY BootBegins, BootSteps, PTL DEF Boot!Spec

LEMMA SameCount == \A S : Boot!Cardinality(S) = Cardinality(S)
BY DEF Boot!Cardinality, Cardinality

(* Whatever is killed, lost or run again, one checkpoint provisions one    *)
(* Workspace, one Principal and one key at most, and what it calls saved   *)
(* is there (bootstrap.ts:133).  Why: an invocation runs alone (the lock), *)
(* asks for a thing only after it saved that it will, and never from a     *)
(* checkpoint that says so already; so what was asked for is on the wire   *)
(* once, or made once, and nothing addressed to an invocation outlives it. *)
THEOREM ProvisionsOnce == Boot!Spec => []Provisioned
<1>1. ASSUME BootInv, NEW op, NEW made, NEW S, made \in Seq(S), Once(op, made, wire)
      PROVE  Cardinality(Boot!Mine(made)) <= 1
  <2>1. CASE Boot!Mine(made) = {}
    BY <2>1, FS_EmptySet
  <2>2. ASSUME NEW n \in Boot!Mine(made) PROVE Cardinality(Boot!Mine(made)) = 1
    <3>1. Boot!Mine(made) = {n}
      BY <1>1 DEF Once
    <3> QED BY <3>1, FS_Singleton
  <2> QED BY <2>1, <2>2
<1>2. BootInv => Provisioned
  <2>1. ASSUME BootInv PROVE Provisioned
    <3>1. /\ Once("workspace", workspaces, wire) /\ Once("principal", principals, wire) /\ Once("key", keys, wire)
          /\ Boot!EvidenceTrue
      BY <2>1 DEF BootInv, Onces, Recorded
    <3>2. /\ Cardinality(Boot!Mine(workspaces)) <= 1 /\ Cardinality(Boot!Mine(principals)) <= 1
          /\ Cardinality(Boot!Mine(keys)) <= 1
      <4>1. /\ workspaces \in Seq([by : Boot!Makers]) /\ principals \in Seq([by : Boot!Makers, workspace : Nat])
            /\ keys \in Seq([by : Boot!Makers, principal : Nat])
        BY <2>1, BootTyped DEF TenancyTypes
      <4>2. Cardinality(Boot!Mine(workspaces)) <= 1
        BY <1>1, <2>1, <3>1, <4>1
      <4>3. Cardinality(Boot!Mine(principals)) <= 1
        BY <1>1, <2>1, <3>1, <4>1
      <4>4. Cardinality(Boot!Mine(keys)) <= 1
        BY <1>1, <2>1, <3>1, <4>1
      <4> QED BY <4>2, <4>3, <4>4
    <3> QED BY <3>1, <3>2, SameCount DEF Provisioned, Boot!Provisioned, Boot!ProvisionedOnce
  <2> QED BY <2>1
<1> QED BY <1>2, BootHolds, PTL

(* A capability the server reports as pending can be used: the file holds  *)
(* what the process's digest is of, and a User exists exactly when the     *)
(* enrollment is claimed (enrollment.ts:21).                               *)
THEOREM CapabilityUsable == Boot!Spec => []CapabilityWorks
<1>1. BootInv => CapabilityWorks
  <2>1. ASSUME BootInv, Boot!Observed = "pending" PROVE capability = hash
    <3>1. claimed = Nobody /\ hash # Boot!Absent
      BY <2>1 DEF Boot!Observed
    <3> QED BY <2>1, <3>1 DEF BootInv, Published
  <2> QED BY <2>1 DEF BootInv, Published, CapabilityWorks, Boot!CapabilityWorks
<1> QED BY <1>1, BootHolds, PTL

-----------------------------------------------------------------------------
(* StatementPolicy.  The walk of the policy and the rule of PostgreSQL are *)
(* two recursive functions of a tree: one goes down with the names in      *)
(* scope, the other one up to what is around a name.  What relates them is *)
(* OuterNames, the scope of a node said in terms of what is around it.     *)

(* Every set of node numbers that is not empty has a first one.            *)
LEMMA FirstOne ==
  ASSUME NEW N \in Nat, NEW S \in SUBSET (1 .. N), S # {}
  PROVE  \E n \in S : \A m \in S : n <= m
<1> SUFFICES ASSUME \A n \in S : \E m \in S : m < n
             PROVE  FALSE
  OBVIOUS
<1> DEFINE B == {i \in 1 .. N : \E m \in S : m <= i}
<1>1. B \in SUBSET (1 .. N) /\ B # {} /\ IsFiniteSet(1 .. N)
  <2>1. \A i \in S : i \in B
    OBVIOUS
  <2>2. IsFiniteSet(1 .. N)
    BY FS_Interval
  <2>3. QED
    BY <2>1, <2>2
<1>2. IsFiniteSet(B)
  BY <1>1, FS_Subset
<1>3. ASSUME NEW i \in B
      PROVE  i - 1 \in B
  OBVIOUS
<1>4. PICK i : i \in B
  BY <1>1
<1> DEFINE h == [j \in B |-> IF j <= i THEN j - 1 ELSE j]
<1>5. h \in [B -> B]
  BY <1>3
<1>6. ASSUME NEW j \in B, NEW k \in B, h[j] = h[k]
      PROVE  j = k
  <2>1. i \in Nat /\ j \in Nat /\ k \in Nat
    BY <1>1, <1>4
  <2>2. /\ h[j] = IF j <= i THEN j - 1 ELSE j
        /\ h[k] = IF k <= i THEN k - 1 ELSE k
    OBVIOUS
  <2>3. (IF j <= i THEN j - 1 ELSE j) = (IF k <= i THEN k - 1 ELSE k)
    BY <1>6, <2>2
  <2> HIDE DEF h, B
  <2>4. QED
    BY <2>1, <2>3
<1>7. ASSUME NEW j \in B
      PROVE  h[j] # i
  <2>1. i \in Nat /\ j \in Nat
    BY <1>1, <1>4
  <2>2. h[j] = IF j <= i THEN j - 1 ELSE j
    OBVIOUS
  <2> HIDE DEF h, B
  <2>3. QED
    BY <2>1, <2>2
<1> HIDE DEF B, h
<1>8. h \in Injection(B, B)
  BY <1>5, <1>6 DEF Injection, IsInjective
<1>9. h \in Surjection(B, B)
  BY <1>2, <1>8, FS_Injection
<1>10. QED
  BY <1>4, <1>7, <1>9 DEF Surjection

(* What holds of a node when it holds of all before it holds of all nodes, *)
(* and likewise from the last node to the first.                           *)
LEMMA Ascending ==
  ASSUME NEW N \in Nat, NEW A,
         \A n \in 1 .. N : (\A m \in 1 .. N : m < n => m \in A) => n \in A
  PROVE  \A n \in 1 .. N : n \in A
<1> DEFINE S == {n \in 1 .. N : n \notin A}
<1>1. CASE S = {}
  BY <1>1
<1>2. CASE S # {}
  <2>1. PICK n \in S : \A m \in S : n <= m
    BY <1>2, FirstOne
  <2>2. QED
    BY <2>1
<1>3. QED
  BY <1>1, <1>2

LEMMA Descending ==
  ASSUME NEW N \in Nat, NEW A,
         \A n \in 1 .. N : (\A m \in 1 .. N : m > n => m \in A) => n \in A
  PROVE  \A n \in 1 .. N : n \in A
<1> DEFINE B == {k \in 1 .. N : N + 1 - k \in A}
<1>1. ASSUME NEW k \in 1 .. N, \A m \in 1 .. N : m < k => m \in B
      PROVE  k \in B
  <2>1. ASSUME NEW m \in 1 .. N, m > N + 1 - k
        PROVE  m \in A
    <3>1. N + 1 - m \in 1 .. N /\ N + 1 - m < k
      BY <2>1
    <3>2. N + 1 - (N + 1 - m) = m
      OBVIOUS
    <3>3. QED
      BY <1>1, <3>1, <3>2
  <2>2. N + 1 - k \in 1 .. N
    OBVIOUS
  <2>3. QED
    BY <2>1, <2>2
<1>2. \A k \in 1 .. N : k \in B
  <2> HIDE DEF B
  <2>1. QED
    BY <1>1, Ascending
<1>3. ASSUME NEW n \in 1 .. N
      PROVE  n \in A
  <2>1. N + 1 - n \in B
    BY <1>2
  <2>2. N + 1 - (N + 1 - n) = n
    OBVIOUS
  <2>3. QED
    BY <2>1, <2>2
<1>4. QED
  BY <1>3

PolicyNodes == 1 .. MaxNodes
LEMMA SomeNodes == MaxNodes \in Nat /\ MaxNodes >= 1 /\ 1 \in PolicyNodes
BY PartsGiven DEF Sql!StatementAssumption, PolicyNodes

LEMMA ParentsBefore ==
  ASSUME NEW t \in Sql!Trees, NEW n \in PolicyNodes, n # 1
  PROVE  t.parent[n] \in PolicyNodes /\ t.parent[n] < n /\ n \in 2 .. MaxNodes
<1>1. n \in 2 .. MaxNodes /\ MaxNodes \in Nat
  BY SomeNodes DEF PolicyNodes
<1>2. t.parent \in Sql!Parents
  BY DEF Sql!Trees
<1>3. t.parent[n] \in 1 .. MaxNodes - 1 /\ t.parent[n] < n
  BY <1>1, <1>2 DEF Sql!Parents
<1>4. QED
  BY <1>1, <1>3 DEF PolicyNodes

LEMMA ChildrenAfter ==
  ASSUME NEW t \in Sql!Trees, NEW n \in PolicyNodes, NEW c \in Sql!Children(t, n)
  PROVE  c \in PolicyNodes /\ c # 1 /\ t.parent[c] = n /\ n < c
<1>1. c \in 2 .. MaxNodes /\ t.parent[c] = n
  BY DEF Sql!Children
<1>2. c \in PolicyNodes /\ c # 1
  BY <1>1, SomeNodes DEF PolicyNodes
<1>3. QED
  BY <1>1, <1>2, ParentsBefore

LEMMA ChildOfItsParent ==
  ASSUME NEW t \in Sql!Trees, NEW n \in PolicyNodes, n # 1
  PROVE  n \in Sql!Children(t, t.parent[n])
BY ParentsBefore DEF Sql!Children

(* The nodes around a node: it, and those around its parent.               *)
AroundOf(t, up) == [n \in PolicyNodes |-> {n} \cup IF n = 1 THEN {} ELSE up[t.parent[n]]]
LEMMA AroundIsOf ==
  ASSUME NEW t, NEW n
  PROVE  Sql!Around(t, n) = (CHOOSE up : up = AroundOf(t, up))[n]
BY DEF Sql!Around, AroundOf, PolicyNodes

UpTo(t, k, up) ==
  /\ DOMAIN up = PolicyNodes
  /\ \A n \in PolicyNodes : n <= k =>
       up[n] = {n} \cup IF n = 1 THEN {} ELSE up[t.parent[n]]
LEMMA AroundUpTo ==
  ASSUME NEW t \in Sql!Trees
  PROVE  \A k \in PolicyNodes : \E up : UpTo(t, k, up)
<1> DEFINE A == {k \in PolicyNodes : \E up : UpTo(t, k, up)}
<1>1. ASSUME NEW k \in 1 .. MaxNodes, \A m \in 1 .. MaxNodes : m < k => m \in A
      PROVE  k \in A
  <2>1. k \in PolicyNodes
    BY DEF PolicyNodes
  <2>2. CASE k = 1
    <3> DEFINE up == [n \in PolicyNodes |-> {n}]
    <3>1. \A n \in PolicyNodes : n <= k => n = 1
      BY <2>2 DEF PolicyNodes
    <3>2. UpTo(t, k, up)
      BY <3>1 DEF UpTo
    <3>3. QED
      BY <2>1, <3>2
  <2>3. CASE k # 1
    <3>1. k - 1 \in 1 .. MaxNodes /\ k - 1 < k
      BY <2>3, SomeNodes
    <3>2. PICK up : UpTo(t, k - 1, up)
      BY <1>1, <3>1
    <3> DEFINE next == [n \in PolicyNodes |-> IF n = k THEN {k} \cup up[t.parent[k]] ELSE up[n]]
    <3>3. DOMAIN next = PolicyNodes
      OBVIOUS
    <3>4. ASSUME NEW n \in PolicyNodes, n <= k
          PROVE  next[n] = {n} \cup IF n = 1 THEN {} ELSE next[t.parent[n]]
      <4>1. n # 1 => t.parent[n] \in PolicyNodes /\ t.parent[n] < n
        BY ParentsBefore
      <4>2. n # 1 => t.parent[n] # k
        BY <3>4, <4>1 DEF PolicyNodes
      <4>3. n # 1 => next[t.parent[n]] = up[t.parent[n]]
        BY <4>1, <4>2
      <4>4. CASE n = k
        BY <2>3, <4>3, <4>4
      <4>5. CASE n # k
        <5>1. n <= k - 1
          BY <3>4, <4>5 DEF PolicyNodes
        <5>2. up[n] = {n} \cup IF n = 1 THEN {} ELSE up[t.parent[n]]
          BY <3>2, <5>1 DEF UpTo
        <5>3. next[n] = up[n]
          BY <4>5
        <5>4. QED
          BY <4>3, <5>2, <5>3
      <4>6. QED
        BY <4>4, <4>5
    <3> HIDE DEF next
    <3>5. UpTo(t, k, next)
      BY <3>3, <3>4 DEF UpTo
    <3>6. QED
      BY <2>1, <3>5
  <2>4. QED
    BY <2>2, <2>3
<1>2. \A k \in 1 .. MaxNodes : k \in A
  <2> HIDE DEF A
  <2>1. QED
    BY <1>1, Ascending, SomeNodes
<1>3. QED
  BY <1>2 DEF PolicyNodes

LEMMA AroundStep ==
  ASSUME NEW t \in Sql!Trees, NEW n \in PolicyNodes
  PROVE  Sql!Around(t, n) = {n} \cup IF n = 1 THEN {} ELSE Sql!Around(t, t.parent[n])
<1> DEFINE chosen == CHOOSE up : up = AroundOf(t, up)
<1>1. \E up : up = AroundOf(t, up)
  <2>1. MaxNodes \in PolicyNodes /\ \A m \in PolicyNodes : m <= MaxNodes
    BY SomeNodes DEF PolicyNodes
  <2>2. PICK up : UpTo(t, MaxNodes, up)
    BY <2>1, AroundUpTo
  <2> DEFINE f == [m \in PolicyNodes |-> up[m]]
  <2>3. ASSUME NEW m \in PolicyNodes
        PROVE  f[m] = {m} \cup IF m = 1 THEN {} ELSE f[t.parent[m]]
    <3>1. up[m] = {m} \cup IF m = 1 THEN {} ELSE up[t.parent[m]]
      BY <2>1, <2>2 DEF UpTo
    <3>2. m # 1 => f[t.parent[m]] = up[t.parent[m]]
      BY ParentsBefore
    <3>3. QED
      BY <3>1, <3>2
  <2>4. f = AroundOf(t, f)
    <3>1. f = [m \in PolicyNodes |-> f[m]]
      OBVIOUS
    <3> HIDE DEF f
    <3>2. QED
      BY <2>3, <3>1 DEF AroundOf
  <2>5. QED
    BY <2>4
<1>2. chosen = AroundOf(t, chosen)
  <2>1. PICK up : up = AroundOf(t, up)
    BY <1>1
  <2>2. QED
    BY <2>1
<1>3. \A m : Sql!Around(t, m) = chosen[m]
  BY AroundIsOf
<1> HIDE DEF chosen
<1>4. chosen[n] = {n} \cup IF n = 1 THEN {} ELSE chosen[t.parent[n]]
  BY <1>2 DEF AroundOf
<1>5. QED
  BY <1>3, <1>4

LEMMA AroundBefore ==
  ASSUME NEW t \in Sql!Trees
  PROVE  \A n \in PolicyNodes : \A a \in Sql!Around(t, n) : a \in PolicyNodes /\ a <= n
<1> DEFINE A == {n \in PolicyNodes : \A a \in Sql!Around(t, n) : a \in PolicyNodes /\ a <= n}
<1>1. ASSUME NEW n \in 1 .. MaxNodes, \A m \in 1 .. MaxNodes : m < n => m \in A
      PROVE  n \in A
  <2>1. n \in PolicyNodes
    BY DEF PolicyNodes
  <2>2. ASSUME NEW a \in Sql!Around(t, n)
        PROVE  a \in PolicyNodes /\ a <= n
    <3>1. CASE a = n
      BY <2>1, <3>1 DEF PolicyNodes
    <3>2. CASE a # n
      <4>1. n # 1 /\ a \in Sql!Around(t, t.parent[n])
        BY <2>1, <2>2, <3>2, AroundStep
      <4>2. t.parent[n] \in PolicyNodes /\ t.parent[n] < n
        BY <2>1, <4>1, ParentsBefore
      <4>3. a \in PolicyNodes /\ a <= t.parent[n]
        BY <1>1, <4>1, <4>2 DEF PolicyNodes
      <4>4. QED
        BY <4>2, <4>3 DEF PolicyNodes
    <3>3. QED
      BY <3>1, <3>2
  <2>3. QED
    BY <2>1, <2>2
<1>2. \A n \in 1 .. MaxNodes : n \in A
  <2> HIDE DEF A
  <2>1. QED
    BY <1>1, Ascending, SomeNodes
<1>3. QED
  BY <1>2 DEF PolicyNodes

LEMMA RootAround ==
  ASSUME NEW t \in Sql!Trees
  PROVE  \A n \in PolicyNodes : 1 \in Sql!Around(t, n)
<1> DEFINE A == {n \in PolicyNodes : 1 \in Sql!Around(t, n)}
<1>1. ASSUME NEW n \in 1 .. MaxNodes, \A m \in 1 .. MaxNodes : m < n => m \in A
      PROVE  n \in A
  <2>1. n \in PolicyNodes
    BY DEF PolicyNodes
  <2>2. n # 1 => t.parent[n] \in A
    BY <1>1, <2>1, ParentsBefore DEF PolicyNodes
  <2>3. 1 \in Sql!Around(t, n)
    BY <2>1, <2>2, AroundStep
  <2>4. QED
    BY <2>1, <2>3
<1>2. \A n \in 1 .. MaxNodes : n \in A
  <2> HIDE DEF A
  <2>1. QED
    BY <1>1, Ascending, SomeNodes
<1>3. QED
  BY <1>2 DEF PolicyNodes

(* Whatever is below a node is it or is below one of its children.         *)
BelowChild(t, n, m) ==
  n \in Sql!Around(t, m) /\ m # n => \E c \in Sql!Children(t, n) : c \in Sql!Around(t, m)
LEMMA AroundDown ==
  ASSUME NEW t \in Sql!Trees, NEW n \in PolicyNodes
  PROVE  \A m \in PolicyNodes : BelowChild(t, n, m)
<1> DEFINE A == {m \in PolicyNodes : BelowChild(t, n, m)}
<1>1. ASSUME NEW m \in 1 .. MaxNodes, \A k \in 1 .. MaxNodes : k < m => k \in A
      PROVE  m \in A
  <2>1. m \in PolicyNodes
    BY DEF PolicyNodes
  <2>2. ASSUME n \in Sql!Around(t, m), m # n
        PROVE  \E c \in Sql!Children(t, n) : c \in Sql!Around(t, m)
    <3>1. m # 1 /\ n \in Sql!Around(t, t.parent[m])
      BY <2>1, <2>2, AroundStep
    <3>2. t.parent[m] \in PolicyNodes /\ t.parent[m] < m
      BY <2>1, <3>1, ParentsBefore
    <3>3. /\ m \in Sql!Around(t, m)
          /\ \A c \in Sql!Around(t, t.parent[m]) : c \in Sql!Around(t, m)
      BY <2>1, <3>1, AroundStep
    <3>4. CASE t.parent[m] = n
      BY <2>1, <3>1, <3>3, <3>4, ChildOfItsParent
    <3>5. CASE t.parent[m] # n
      <4>1. BelowChild(t, n, t.parent[m])
        BY <1>1, <3>2 DEF PolicyNodes
      <4>2. PICK c \in Sql!Children(t, n) : c \in Sql!Around(t, t.parent[m])
        BY <3>1, <3>5, <4>1 DEF BelowChild
      <4>3. QED
        BY <3>3, <4>2
    <3>6. QED
      BY <3>4, <3>5
  <2>3. QED
    BY <2>1, <2>2 DEF BelowChild
<1>2. \A m \in 1 .. MaxNodes : m \in A
  <2> HIDE DEF A
  <2>1. QED
    BY <1>1, Ascending, SomeNodes
<1>3. QED
  BY <1>2 DEF PolicyNodes

AroundChild(t, n, c, m) == c \in Sql!Around(t, m) => n \in Sql!Around(t, m)
LEMMA AroundUp ==
  ASSUME NEW t \in Sql!Trees, NEW n \in PolicyNodes, NEW c \in Sql!Children(t, n)
  PROVE  \A m \in PolicyNodes : AroundChild(t, n, c, m)
<1> DEFINE A == {m \in PolicyNodes : AroundChild(t, n, c, m)}
<1>1. ASSUME NEW m \in 1 .. MaxNodes, \A k \in 1 .. MaxNodes : k < m => k \in A
      PROVE  m \in A
  <2>1. m \in PolicyNodes
    BY DEF PolicyNodes
  <2>2. ASSUME c \in Sql!Around(t, m)
        PROVE  n \in Sql!Around(t, m)
    <3>1. c \in PolicyNodes /\ c # 1 /\ t.parent[c] = n
      BY ChildrenAfter
    <3>2. n \in Sql!Around(t, n)
      BY AroundStep
    <3>3. CASE m = c
      BY <3>1, <3>2, <3>3, AroundStep
    <3>4. CASE m # c
      <4>1. m # 1 /\ c \in Sql!Around(t, t.parent[m])
        BY <2>1, <2>2, <3>4, AroundStep
      <4>2. t.parent[m] \in PolicyNodes /\ t.parent[m] < m
        BY <2>1, <4>1, ParentsBefore
      <4>3. AroundChild(t, n, c, t.parent[m])
        BY <1>1, <4>2 DEF PolicyNodes
      <4>4. n \in Sql!Around(t, t.parent[m])
        BY <4>1, <4>3 DEF AroundChild
      <4>5. QED
        BY <2>1, <4>1, <4>4, AroundStep
    <3>5. QED
      BY <3>3, <3>4
  <2>3. QED
    BY <2>1, <2>2 DEF AroundChild
<1>2. \A m \in 1 .. MaxNodes : m \in A
  <2> HIDE DEF A
  <2>1. QED
    BY <1>1, Ascending, SomeNodes
<1>3. QED
  BY <1>2 DEF PolicyNodes

(* The common table expressions of a that are seen from n, and all names   *)
(* of those around n, without and with the ones of n itself.               *)
SeenFrom(t, n, a) ==
  {c \in Sql!Ctes(t, a) : \A d \in Sql!Around(t, n) \cap Sql!Ctes(t, a) : c < d}
NamesAt(t, n, a) == Sql!CteNames(t, SeenFrom(t, n, a))
OuterNames(t, n) == UNION {NamesAt(t, n, a) : a \in Sql!Around(t, n) \ {n}}
LocalNames(t, n) == OuterNames(t, n) \cup Sql!CteNames(t, Sql!Ctes(t, n))

LEMMA CtesAreChildren ==
  ASSUME NEW t \in Sql!Trees, NEW n \in PolicyNodes, NEW c \in Sql!Ctes(t, n)
  PROVE  c \in Sql!Children(t, n) /\ t.node[c].cte \in TableNames
<1>1. c \in Sql!Children(t, n) /\ t.node[c].cte # Sql!None
  BY DEF Sql!Ctes
<1>2. c \in 2 .. MaxNodes
  BY <1>1 DEF Sql!Children
<1>3. t.node[c] \in Sql!Inner
  BY <1>2 DEF Sql!Trees
<1>4. QED
  BY <1>1, <1>3 DEF Sql!Inner

LEMMA NamesTyped ==
  ASSUME NEW t \in Sql!Trees, NEW n \in PolicyNodes, NEW D \in SUBSET Sql!Ctes(t, n)
  PROVE  Sql!CteNames(t, D) \subseteq TableNames
BY CtesAreChildren DEF Sql!CteNames

LEMMA OuterTyped ==
  ASSUME NEW t \in Sql!Trees, NEW n \in PolicyNodes
  PROVE  OuterNames(t, n) \in SUBSET TableNames
<1>1. ASSUME NEW a \in Sql!Around(t, n)
      PROVE  NamesAt(t, n, a) \subseteq TableNames
  <2>1. a \in PolicyNodes
    BY AroundBefore
  <2>2. SeenFrom(t, n, a) \in SUBSET Sql!Ctes(t, a)
    BY DEF SeenFrom
  <2>3. QED
    BY <2>1, <2>2, NamesTyped DEF NamesAt
<1>2. QED
  BY <1>1 DEF OuterNames

LEMMA OwnSeen ==
  ASSUME NEW t \in Sql!Trees, NEW n \in PolicyNodes
  PROVE  SeenFrom(t, n, n) = Sql!Ctes(t, n)
<1>1. ASSUME NEW d \in Sql!Around(t, n) \cap Sql!Ctes(t, n)
      PROVE  FALSE
  <2>1. d \in PolicyNodes /\ d <= n
    BY AroundBefore
  <2>2. n < d
    BY CtesAreChildren, ChildrenAfter
  <2>3. QED
    BY <2>1, <2>2 DEF PolicyNodes
<1>2. QED
  BY <1>1 DEF SeenFrom

LEMMA AroundAChild ==
  ASSUME NEW t \in Sql!Trees, NEW n \in PolicyNodes, NEW c \in Sql!Children(t, n)
  PROVE  /\ Sql!Around(t, c) = {c} \cup Sql!Around(t, n)
         /\ c \notin Sql!Around(t, n)
<1>1. c \in PolicyNodes /\ c # 1 /\ t.parent[c] = n /\ n < c
  BY ChildrenAfter
<1>2. Sql!Around(t, c) = {c} \cup Sql!Around(t, n)
  BY <1>1, AroundStep
<1>3. c \notin Sql!Around(t, n)
  BY <1>1, AroundBefore DEF PolicyNodes
<1>4. QED
  BY <1>2, <1>3

LEMMA SeenFarther ==
  ASSUME NEW t \in Sql!Trees, NEW n \in PolicyNodes, NEW c \in Sql!Children(t, n),
         NEW a \in Sql!Around(t, n), a # n
  PROVE  SeenFrom(t, c, a) = SeenFrom(t, n, a)
<1>1. c \notin Sql!Ctes(t, a)
  BY ChildrenAfter DEF Sql!Ctes, Sql!Children
<1>2. Sql!Around(t, c) \cap Sql!Ctes(t, a) = Sql!Around(t, n) \cap Sql!Ctes(t, a)
  BY <1>1, AroundAChild
<1>3. QED
  BY <1>2 DEF SeenFrom

LEMMA SeenAtParent ==
  ASSUME NEW t \in Sql!Trees, NEW n \in PolicyNodes, NEW c \in Sql!Children(t, n)
  PROVE  SeenFrom(t, c, n) =
           IF c \in Sql!Ctes(t, n) THEN {d \in Sql!Ctes(t, n) : d < c} ELSE Sql!Ctes(t, n)
<1>1. Sql!Around(t, n) \cap Sql!Ctes(t, n) = {}
  <2>1. ASSUME NEW d \in Sql!Around(t, n) \cap Sql!Ctes(t, n)
        PROVE  FALSE
    <3>1. d \in PolicyNodes /\ d <= n
      BY AroundBefore
    <3>2. n < d
      BY CtesAreChildren, ChildrenAfter
    <3>3. QED
      BY <3>1, <3>2 DEF PolicyNodes
  <2>2. QED
    BY <2>1
<1>2. Sql!Around(t, c) \cap Sql!Ctes(t, n) = IF c \in Sql!Ctes(t, n) THEN {c} ELSE {}
  BY <1>1, AroundAChild
<1>3. QED
  BY <1>2 DEF SeenFrom

LEMMA OuterOfChild ==
  ASSUME NEW t \in Sql!Trees, NEW n \in PolicyNodes, NEW c \in Sql!Children(t, n)
  PROVE  OuterNames(t, c) = OuterNames(t, n) \cup NamesAt(t, c, n)
<1>1. Sql!Around(t, c) \ {c} = Sql!Around(t, n)
  BY AroundAChild
<1>2. n \in Sql!Around(t, n)
  BY AroundStep
<1>3. ASSUME NEW a \in Sql!Around(t, n) \ {n}
      PROVE  NamesAt(t, c, a) = NamesAt(t, n, a)
  BY SeenFarther DEF NamesAt
<1>4. \A x : x \in OuterNames(t, c) <=> \E a \in Sql!Around(t, n) : x \in NamesAt(t, c, a)
  BY <1>1 DEF OuterNames
<1>5. \A x : x \in OuterNames(t, n) <=> \E a \in Sql!Around(t, n) \ {n} : x \in NamesAt(t, n, a)
  BY DEF OuterNames
<1>6. ASSUME NEW x
      PROVE  x \in OuterNames(t, c) <=> x \in OuterNames(t, n) \cup NamesAt(t, c, n)
  BY <1>2, <1>3, <1>4, <1>5
<1>7. QED
  BY <1>6

LEMMA ScopeOfChild ==
  ASSUME NEW t \in Sql!Trees, NEW n \in PolicyNodes, NEW c \in Sql!Children(t, n)
  PROVE  /\ c \in Sql!Ctes(t, n) =>
              OuterNames(t, c) =
                OuterNames(t, n) \cup Sql!CteNames(t, {d \in Sql!Ctes(t, n) : d < c})
         /\ c \notin Sql!Ctes(t, n) => OuterNames(t, c) = LocalNames(t, n)
BY OuterOfChild, SeenAtParent DEF NamesAt, LocalNames

LEMMA ScopeOfRoot ==
  ASSUME NEW t \in Sql!Trees
  PROVE  OuterNames(t, 1) = {}
<1>1. Sql!Around(t, 1) = {1}
  BY AroundStep, SomeNodes
<1>2. QED
  BY <1>1 DEF OuterNames

(* What PostgreSQL takes for a common table expression is a name in scope. *)
LEMMA CteInScope ==
  ASSUME NEW t \in Sql!Trees, NEW n \in PolicyNodes
  PROVE  Sql!IsCte(t, n) <=> t.reads[n].name \in LocalNames(t, n)
<1> DEFINE name == t.reads[n].name
<1>1. Sql!IsCte(t, n) <=> \E a \in Sql!Around(t, n) : name \in NamesAt(t, n, a)
  <2>1. \A a : name \in NamesAt(t, n, a) <=> \E c \in SeenFrom(t, n, a) : t.node[c].cte = name
    BY DEF NamesAt, Sql!CteNames
  <2> HIDE DEF name
  <2>2. Sql!IsCte(t, n) <=>
          \E a \in Sql!Around(t, n) : \E c \in SeenFrom(t, n, a) : t.node[c].cte = name
    BY DEF Sql!IsCte, SeenFrom, name
  <2>3. QED
    BY <2>1, <2>2
<1>2. n \in Sql!Around(t, n)
  BY AroundStep
<1>3. NamesAt(t, n, n) = Sql!CteNames(t, Sql!Ctes(t, n))
  BY OwnSeen DEF NamesAt
<1> HIDE DEF name
<1>4. name \in LocalNames(t, n) <=>
        (\E a \in Sql!Around(t, n) \ {n} : name \in NamesAt(t, n, a)) \/ name \in NamesAt(t, n, n)
  BY <1>3 DEF LocalNames, OuterNames
<1>5. QED
  BY <1>1, <1>2, <1>4 DEF name

(* The walk: what it finds at a node depends on what it finds at the       *)
(* children, so there is one such function.                                *)
Preceding(t, n, c, scope) == scope \cup Sql!CteNames(t, {d \in Sql!Ctes(t, n) : d < c})
Inside(t, n, scope) == scope \cup Sql!CteNames(t, Sql!Ctes(t, n))
Found(t, visit, n, scope) ==
  Sql!RangeVar(t.reads[n], Inside(t, n, scope))
  \cup (UNION {visit[c][Preceding(t, n, c, scope)] : c \in Sql!Ctes(t, n)})
  \cup (UNION {visit[c][Inside(t, n, scope)] : c \in Sql!Children(t, n) \ Sql!Ctes(t, n)})
VisitOf(t, visit) ==
  [n \in PolicyNodes |-> [scope \in SUBSET TableNames |-> Found(t, visit, n, scope)]]
LEMMA WalkIsOf ==
  ASSUME NEW t
  PROVE  Sql!Walk(t) = (CHOOSE visit : visit = VisitOf(t, visit))[1][{}]
BY DEF Sql!Walk, VisitOf, Found, Preceding, Inside, PolicyNodes

LEMMA FoundOnce ==
  ASSUME NEW t \in Sql!Trees, NEW n \in PolicyNodes, NEW f, NEW g,
         \A c \in Sql!Children(t, n) : f[c] = g[c], NEW scope
  PROVE  Found(t, f, n, scope) = Found(t, g, n, scope)
<1>1. \A c \in Sql!Ctes(t, n) : f[c] = g[c]
  BY CtesAreChildren
<1>2. {f[c][Preceding(t, n, c, scope)] : c \in Sql!Ctes(t, n)} =
      {g[c][Preceding(t, n, c, scope)] : c \in Sql!Ctes(t, n)}
  BY <1>1
<1>3. {f[c][Inside(t, n, scope)] : c \in Sql!Children(t, n) \ Sql!Ctes(t, n)} =
      {g[c][Inside(t, n, scope)] : c \in Sql!Children(t, n) \ Sql!Ctes(t, n)}
  OBVIOUS
<1>4. QED
  BY <1>2, <1>3, Zenon DEF Found

(* What is in it, said without the unions                                  *)
LEMMA FoundIn ==
  ASSUME NEW t, NEW visit, NEW n, NEW scope, NEW x
  PROVE  x \in Found(t, visit, n, scope) <=>
           \/ x \in Sql!RangeVar(t.reads[n], Inside(t, n, scope))
           \/ \E c \in Sql!Ctes(t, n) : x \in visit[c][Preceding(t, n, c, scope)]
           \/ \E c \in Sql!Children(t, n) \ Sql!Ctes(t, n) : x \in visit[c][Inside(t, n, scope)]
<1>1. x \in UNION {visit[c][Preceding(t, n, c, scope)] : c \in Sql!Ctes(t, n)} <=>
        \E c \in Sql!Ctes(t, n) : x \in visit[c][Preceding(t, n, c, scope)]
  OBVIOUS
<1>2. x \in UNION {visit[c][Inside(t, n, scope)] : c \in Sql!Children(t, n) \ Sql!Ctes(t, n)} <=>
        \E c \in Sql!Children(t, n) \ Sql!Ctes(t, n) : x \in visit[c][Inside(t, n, scope)]
  OBVIOUS
<1> DEFINE R == Sql!RangeVar(t.reads[n], Inside(t, n, scope))
           C == UNION {visit[c][Preceding(t, n, c, scope)] : c \in Sql!Ctes(t, n)}
           D == UNION {visit[c][Inside(t, n, scope)] : c \in Sql!Children(t, n) \ Sql!Ctes(t, n)}
<1>3. Found(t, visit, n, scope) = R \cup C \cup D
  BY DEF Found
<1> HIDE DEF C, D
<1>4. x \in R \cup C \cup D <=> x \in R \/ x \in C \/ x \in D
  OBVIOUS
<1>5. QED
  BY <1>1, <1>2, <1>3, <1>4 DEF C, D

DownTo(t, k, visit) ==
  /\ visit = [n \in PolicyNodes |-> visit[n]]
  /\ \A n \in PolicyNodes : n >= k =>
       visit[n] = [scope \in SUBSET TableNames |-> Found(t, visit, n, scope)]

LEMMA VisitDownTo ==
  ASSUME NEW t \in Sql!Trees
  PROVE  \A k \in PolicyNodes : \E visit : DownTo(t, k, visit)
<1> DEFINE A == {k \in PolicyNodes : \E visit : DownTo(t, k, visit)}
<1>1. ASSUME NEW k \in 1 .. MaxNodes, \A m \in 1 .. MaxNodes : m > k => m \in A
      PROVE  k \in A
  <2>1. k \in PolicyNodes
    BY DEF PolicyNodes
  <2>2. \E visit : DownTo(t, k + 1, visit)
    <3>1. CASE k = MaxNodes
      <4> DEFINE blank == [n \in PolicyNodes |-> {}]
      <4>1. \A n \in PolicyNodes : ~ n >= k + 1
        BY <3>1, SomeNodes DEF PolicyNodes
      <4>2. blank = [n \in PolicyNodes |-> blank[n]]
        OBVIOUS
      <4> HIDE DEF blank
      <4>3. DownTo(t, k + 1, blank)
        BY <4>1, <4>2 DEF DownTo
      <4>4. QED
        BY <4>3
    <3>2. CASE k # MaxNodes
      <4>1. k + 1 \in 1 .. MaxNodes /\ k + 1 > k
        BY <3>2, SomeNodes
      <4>2. QED
        BY <1>1, <4>1
    <3>3. QED
      BY <3>1, <3>2
  <2>3. PICK visit : DownTo(t, k + 1, visit)
    BY <2>2
  <2> DEFINE new == [scope \in SUBSET TableNames |-> Found(t, visit, k, scope)]
             next == [n \in PolicyNodes |-> IF n = k THEN new ELSE visit[n]]
  <2>4. next = [n \in PolicyNodes |-> next[n]]
    OBVIOUS
  <2>5. \A n \in PolicyNodes : next[n] = IF n = k THEN new ELSE visit[n]
    OBVIOUS
  <2> HIDE DEF next
  <2>6. ASSUME NEW n \in PolicyNodes, n >= k
        PROVE  next[n] = [scope \in SUBSET TableNames |-> Found(t, next, n, scope)]
    <3>1. ASSUME NEW c \in Sql!Children(t, n)
          PROVE  next[c] = visit[c]
      <4>1. c \in PolicyNodes /\ c # k
        BY <2>6, ChildrenAfter DEF PolicyNodes
      <4>2. QED
        BY <2>5, <4>1
    <3>2. \A scope : Found(t, next, n, scope) = Found(t, visit, n, scope)
      BY <3>1, FoundOnce
    <3>3. next[n] = [scope \in SUBSET TableNames |-> Found(t, visit, n, scope)]
      <4>1. CASE n = k
        BY <2>5, <4>1
      <4>2. CASE n # k
        <5>1. n >= k + 1
          BY <2>6, <4>2 DEF PolicyNodes
        <5>2. visit[n] = [scope \in SUBSET TableNames |-> Found(t, visit, n, scope)]
          BY <2>3, <5>1 DEF DownTo
        <5>3. QED
          BY <2>5, <4>2, <5>2
      <4>3. QED
        BY <4>1, <4>2
    <3>4. QED
      BY <3>2, <3>3
  <2>7. DownTo(t, k, next)
    BY <2>4, <2>6 DEF DownTo
  <2>8. QED
    BY <2>1, <2>7
<1>2. \A k \in 1 .. MaxNodes : k \in A
  <2> HIDE DEF A
  <2>1. QED
    BY <1>1, Descending, SomeNodes
<1>3. QED
  BY <1>2 DEF PolicyNodes

LEMMA WalkStep ==
  ASSUME NEW t \in Sql!Trees
  PROVE  \E visit :
           /\ Sql!Walk(t) = visit[1][{}]
           /\ \A n \in PolicyNodes : \A scope \in SUBSET TableNames :
                visit[n][scope] = Found(t, visit, n, scope)
<1> DEFINE chosen == CHOOSE visit : visit = VisitOf(t, visit)
<1>1. \E visit : visit = VisitOf(t, visit)
  <2>1. \A n \in PolicyNodes : n >= 1
    BY DEF PolicyNodes
  <2>2. PICK visit : DownTo(t, 1, visit)
    BY SomeNodes, VisitDownTo
  <2>3. visit = VisitOf(t, visit)
    BY <2>1, <2>2 DEF DownTo, VisitOf
  <2>4. QED
    BY <2>3
<1>2. chosen = VisitOf(t, chosen)
  <2>1. PICK visit : visit = VisitOf(t, visit)
    BY <1>1
  <2>2. QED
    BY <2>1
<1>3. Sql!Walk(t) = chosen[1][{}]
  BY WalkIsOf
<1> HIDE DEF chosen
<1>4. ASSUME NEW n \in PolicyNodes, NEW scope \in SUBSET TableNames
      PROVE  chosen[n][scope] = Found(t, chosen, n, scope)
  BY <1>2 DEF VisitOf
<1>5. QED
  BY <1>3, <1>4

(* What the walk finds below a node, when it comes there with the names    *)
(* that are in scope.                                                      *)
ReadsAt(t, n) == Sql!RangeVar(t.reads[n], LocalNames(t, n))
FoundBelow(t, visit, n) ==
  \A x : x \in visit[n][OuterNames(t, n)] <=>
           \E m \in PolicyNodes : n \in Sql!Around(t, m) /\ x \in ReadsAt(t, m)

LEMMA BelowSplits ==
  ASSUME NEW t \in Sql!Trees, NEW n \in PolicyNodes, NEW x
  PROVE  (\E m \in PolicyNodes : n \in Sql!Around(t, m) /\ x \in ReadsAt(t, m)) <=>
           \/ x \in ReadsAt(t, n)
           \/ \E c \in Sql!Children(t, n) :
                \E m \in PolicyNodes : c \in Sql!Around(t, m) /\ x \in ReadsAt(t, m)
<1>1. ASSUME NEW m \in PolicyNodes, n \in Sql!Around(t, m), x \in ReadsAt(t, m), m # n
      PROVE  \E c \in Sql!Children(t, n) : c \in Sql!Around(t, m)
  BY <1>1, AroundDown DEF BelowChild
<1>2. ASSUME NEW c \in Sql!Children(t, n), NEW m \in PolicyNodes, c \in Sql!Around(t, m)
      PROVE  n \in Sql!Around(t, m)
  BY <1>2, AroundUp DEF AroundChild
<1>3. n \in Sql!Around(t, n)
  BY AroundStep
<1>4. QED
  BY <1>1, <1>2, <1>3

LEMMA WalkFinds ==
  ASSUME NEW t \in Sql!Trees, NEW visit,
         \A n \in PolicyNodes : \A scope \in SUBSET TableNames :
           visit[n][scope] = Found(t, visit, n, scope)
  PROVE  \A n \in PolicyNodes : FoundBelow(t, visit, n)
<1> DEFINE A == {n \in PolicyNodes : FoundBelow(t, visit, n)}
<1>1. ASSUME NEW n \in 1 .. MaxNodes, \A m \in 1 .. MaxNodes : m > n => m \in A
      PROVE  n \in A
  <2>1. n \in PolicyNodes
    BY DEF PolicyNodes
  <2>2. OuterNames(t, n) \in SUBSET TableNames
    BY <2>1, OuterTyped
  <2>3. visit[n][OuterNames(t, n)] = Found(t, visit, n, OuterNames(t, n))
    BY <2>1, <2>2
  <2>4. Inside(t, n, OuterNames(t, n)) = LocalNames(t, n)
    BY DEF Inside, LocalNames
  <2>5. ASSUME NEW c \in Sql!Children(t, n)
        PROVE  /\ FoundBelow(t, visit, c)
               /\ c \in Sql!Ctes(t, n) => Preceding(t, n, c, OuterNames(t, n)) = OuterNames(t, c)
               /\ c \notin Sql!Ctes(t, n) => LocalNames(t, n) = OuterNames(t, c)
    <3>1. c \in 1 .. MaxNodes /\ c > n
      BY <2>1, ChildrenAfter DEF PolicyNodes
    <3>2. FoundBelow(t, visit, c)
      BY <1>1, <3>1
    <3>3. QED
      BY <2>1, <3>2, ScopeOfChild DEF Preceding
  <2>6. Sql!Ctes(t, n) \subseteq Sql!Children(t, n)
    BY <2>1, CtesAreChildren
  <2>7. ASSUME NEW x
        PROVE  x \in visit[n][OuterNames(t, n)] <=>
                 \E m \in PolicyNodes : n \in Sql!Around(t, m) /\ x \in ReadsAt(t, m)
    <3>1. x \in visit[n][OuterNames(t, n)] <=>
            \/ x \in ReadsAt(t, n)
            \/ \E c \in Sql!Ctes(t, n) : x \in visit[c][Preceding(t, n, c, OuterNames(t, n))]
            \/ \E c \in Sql!Children(t, n) \ Sql!Ctes(t, n) : x \in visit[c][LocalNames(t, n)]
      BY <2>3, <2>4, FoundIn DEF ReadsAt
    <3>2. x \in visit[n][OuterNames(t, n)] <=>
            \/ x \in ReadsAt(t, n)
            \/ \E c \in Sql!Children(t, n) : x \in visit[c][OuterNames(t, c)]
      BY <2>5, <2>6, <3>1
    <3>3. \A c \in Sql!Children(t, n) :
            x \in visit[c][OuterNames(t, c)] <=>
              \E m \in PolicyNodes : c \in Sql!Around(t, m) /\ x \in ReadsAt(t, m)
      BY <2>5 DEF FoundBelow
    <3>4. QED
      BY <2>1, <3>2, <3>3, BelowSplits
  <2>8. FoundBelow(t, visit, n)
    BY <2>7 DEF FoundBelow
  <2>9. QED
    BY <2>1, <2>8
<1>2. \A n \in 1 .. MaxNodes : n \in A
  <2> HIDE DEF A
  <2>1. QED
    BY <1>1, Descending, SomeNodes
<1>3. QED
  BY <1>2 DEF PolicyNodes

(* The policy finds what PostgreSQL touches.                               *)
LEMMA WalkIsTouched ==
  ASSUME NEW t \in Sql!Trees, \A n \in PolicyNodes : ~Sql!Forbidden(t.reads[n])
  PROVE  Sql!Walk(t) \cup Sql!Target(t, {}) = Sql!Touched(t)
<1>1. PICK visit :
        /\ Sql!Walk(t) = visit[1][{}]
        /\ \A n \in PolicyNodes : \A scope \in SUBSET TableNames :
             visit[n][scope] = Found(t, visit, n, scope)
  BY WalkStep
<1>2. FoundBelow(t, visit, 1) /\ OuterNames(t, 1) = {}
  BY <1>1, WalkFinds, SomeNodes, ScopeOfRoot
<1>3. \A x : x \in Sql!Walk(t) <=> \E m \in PolicyNodes : x \in ReadsAt(t, m)
  BY <1>1, <1>2, RootAround DEF FoundBelow
<1>4. ASSUME NEW m \in PolicyNodes
      PROVE  ReadsAt(t, m) = IF t.reads[m].schema \/ ~Sql!IsCte(t, m) THEN {t.reads[m].name} ELSE {}
  BY CteInScope DEF ReadsAt, Sql!RangeVar
<1>5. \A x : x \in Sql!Walk(t) <=>
        \E m \in PolicyNodes : (t.reads[m].schema \/ ~Sql!IsCte(t, m)) /\ x = t.reads[m].name
  BY <1>3, <1>4
<1> DEFINE W == {t.reads[n].name : n \in {m \in PolicyNodes : t.reads[m].schema \/ ~Sql!IsCte(t, m)}}
<1>6. \A x : x \in W <=>
        \E m \in PolicyNodes : (t.reads[m].schema \/ ~Sql!IsCte(t, m)) /\ x = t.reads[m].name
  OBVIOUS
<1>7. Sql!Touched(t) = W \cup Sql!Target(t, {})
  BY DEF Sql!Touched, Sql!Target, PolicyNodes
<1> HIDE DEF W
<1>8. Sql!Walk(t) \cup Sql!Target(t, {}) = W \cup Sql!Target(t, {})
  BY <1>5, <1>6
<1>9. QED
  BY <1>7, <1>8

LEMMA NoForbidden ==
  ASSUME NEW t, Sql!statementPolicy(t).ok
  PROVE  /\ \A n \in PolicyNodes : ~Sql!Forbidden(t.reads[n])
         /\ \A n \in 2 .. MaxNodes : t.node[n].cte # Sql!None => t.node[n].stmt = "SelectStmt"
         /\ Sql!statementPolicy(t).relations = Sql!Walk(t) \cup Sql!Target(t, {})
         /\ Sql!statementPolicy(t).writeTable = t.root.relation
BY DEF Sql!statementPolicy, Sql!Rejected, PolicyNodes

LEMMA StatementSeen ==
  ASSUME NEW t \in Sql!Trees, Sql!statementPolicy(t).ok
  PROVE  /\ Sql!statementPolicy(t).relations = Sql!Touched(t)
         /\ Sql!Written(t) \subseteq {Sql!statementPolicy(t).writeTable}
<1>1. ASSUME NEW n \in 2 .. MaxNodes
      PROVE  t.node[n].stmt = "SelectStmt"
  <2>1. t.node[n] \in Sql!Inner
    BY DEF Sql!Trees
  <2>2. CASE t.node[n].cte = Sql!None
    <3>1. Sql!None \notin TableNames
      BY PartsGiven DEF Sql!StatementAssumption
    <3>2. QED
      BY <2>1, <2>2, <3>1 DEF Sql!Inner
  <2>3. CASE t.node[n].cte # Sql!None
    BY <2>3, NoForbidden
  <2>4. QED
    BY <2>2, <2>3
<1>2. Sql!Written(t) \subseteq {t.root.relation}
  BY <1>1 DEF Sql!Written
<1>3. QED
  BY <1>2, NoForbidden, WalkIsTouched

-----------------------------------------------------------------------------
(* The index of a migration is the one there was, or of a table that an    *)
(* earlier statement names.                                                *)
IndexOf(at) == [i \in 1 .. MaxDdl + 1 |->
  IF i = 1 THEN index
  ELSE IF i - 1 \notin DOMAIN text \/ ~Sql!IsDdl(text[i - 1]) THEN at[i - 1]
  ELSE IF text[i - 1].stmt = "IndexStmt" THEN text[i - 1].relation
  ELSE IF text[i - 1].stmt = "DropStmt" /\ Sql!OnIndex(text[i - 1]) THEN Sql!None ELSE at[i - 1]]
LEMMA IndexIsOf == Sql!IndexAt = (CHOOSE at : at = IndexOf(at))
BY DEF Sql!IndexAt, IndexOf

IndexUpTo(k, at) ==
  /\ DOMAIN at = 1 .. MaxDdl + 1
  /\ \A i \in 1 .. MaxDdl + 1 : i <= k => at[i] = IndexOf(at)[i]
LEMMA SomeDdl == MaxDdl \in Nat
BY PartsGiven DEF Sql!StatementAssumption

LEMMA IndexSame ==
  ASSUME NEW f, NEW g, NEW i \in 1 .. MaxDdl + 1, i = 1 \/ f[i - 1] = g[i - 1]
  PROVE  IndexOf(f)[i] = IndexOf(g)[i]
BY DEF IndexOf

LEMMA IndexBuilt == \A k \in 1 .. MaxDdl + 1 : \E at : IndexUpTo(k, at)
<1> DEFINE A == {k \in 1 .. MaxDdl + 1 : \E at : IndexUpTo(k, at)}
<1>1. ASSUME NEW k \in 1 .. MaxDdl + 1, \A m \in 1 .. MaxDdl + 1 : m < k => m \in A
      PROVE  k \in A
  <2>1. \E at : DOMAIN at = 1 .. MaxDdl + 1 /\ \A i \in 1 .. MaxDdl + 1 : i < k => at[i] = IndexOf(at)[i]
    <3>1. CASE k = 1
      <4> DEFINE blank == [i \in 1 .. MaxDdl + 1 |-> 0]
      <4>1. DOMAIN blank = 1 .. MaxDdl + 1 /\ \A i \in 1 .. MaxDdl + 1 : ~ i < k
        BY <3>1, SomeDdl
      <4>2. QED
        BY <4>1
    <3>2. CASE k # 1
      <4>1. k - 1 \in 1 .. MaxDdl + 1 /\ k - 1 < k
        BY <3>2, SomeDdl
      <4>2. PICK at : IndexUpTo(k - 1, at)
        BY <1>1, <4>1
      <4>3. \A i \in 1 .. MaxDdl + 1 : i < k => i <= k - 1
        BY SomeDdl
      <4>4. QED
        BY <4>2, <4>3 DEF IndexUpTo
    <3>3. QED
      BY <3>1, <3>2
  <2>2. PICK at : DOMAIN at = 1 .. MaxDdl + 1 /\ \A i \in 1 .. MaxDdl + 1 : i < k => at[i] = IndexOf(at)[i]
    BY <2>1
  <2> DEFINE next == [i \in 1 .. MaxDdl + 1 |-> IF i = k THEN IndexOf(at)[k] ELSE at[i]]
  <2>3. DOMAIN next = 1 .. MaxDdl + 1 /\ \A i \in 1 .. MaxDdl + 1 : next[i] = IF i = k THEN IndexOf(at)[k] ELSE at[i]
    OBVIOUS
  <2> HIDE DEF next
  <2>4. ASSUME NEW i \in 1 .. MaxDdl + 1, i <= k
        PROVE  next[i] = IndexOf(next)[i]
    <3>1. i # 1 => i - 1 \in 1 .. MaxDdl + 1 /\ i - 1 # k
      BY <2>4, SomeDdl
    <3>2. i = 1 \/ next[i - 1] = at[i - 1]
      BY <2>3, <3>1
    <3>3. IndexOf(next)[i] = IndexOf(at)[i]
      BY <3>2, IndexSame
    <3>4. i # k => i < k
      BY <2>4
    <3>5. QED
      BY <2>2, <2>3, <3>3, <3>4
  <2>5. IndexUpTo(k, next)
    BY <2>3, <2>4 DEF IndexUpTo
  <2>6. QED
    BY <2>5
<1>2. \A k \in 1 .. MaxDdl + 1 : k \in A
  <2>1. MaxDdl + 1 \in Nat
    BY SomeDdl
  <2> HIDE DEF A
  <2>2. QED
    BY <1>1, <2>1, Ascending
<1>3. QED
  BY <1>2

LEMMA IndexStep ==
  ASSUME NEW i \in 1 .. MaxDdl + 1
  PROVE  Sql!IndexAt[i] = IndexOf(Sql!IndexAt)[i]
<1> DEFINE chosen == CHOOSE at : at = IndexOf(at)
<1>1. \E at : at = IndexOf(at)
  <2>1. MaxDdl + 1 \in 1 .. MaxDdl + 1 /\ \A k \in 1 .. MaxDdl + 1 : k <= MaxDdl + 1
    BY SomeDdl
  <2>2. PICK at : IndexUpTo(MaxDdl + 1, at)
    BY <2>1, IndexBuilt
  <2> DEFINE f == [k \in 1 .. MaxDdl + 1 |-> at[k]]
  <2>3. ASSUME NEW k \in 1 .. MaxDdl + 1
        PROVE  f[k] = IndexOf(f)[k]
    <3>1. at[k] = IndexOf(at)[k]
      BY <2>1, <2>2 DEF IndexUpTo
    <3>2. k # 1 => k - 1 \in 1 .. MaxDdl + 1
      BY SomeDdl
    <3>3. f[k] = at[k] /\ (k = 1 \/ f[k - 1] = at[k - 1])
      BY <3>2
    <3> HIDE DEF f
    <3>4. QED
      BY <3>1, <3>3, IndexSame
  <2>4. f = [k \in 1 .. MaxDdl + 1 |-> f[k]]
    OBVIOUS
  <2> HIDE DEF f
  <2>5. DOMAIN IndexOf(f) = 1 .. MaxDdl + 1 /\ IndexOf(f) = [k \in 1 .. MaxDdl + 1 |-> IndexOf(f)[k]]
    BY DEF IndexOf
  <2>6. f = IndexOf(f)
    BY <2>3, <2>4, <2>5
  <2>7. QED
    BY <2>6
<1>2. chosen = IndexOf(chosen)
  <2>1. PICK at : at = IndexOf(at)
    BY <1>1
  <2>2. QED
    BY <2>1
<1>3. Sql!IndexAt = chosen
  BY IndexIsOf
<1> HIDE DEF chosen
<1>4. QED
  BY <1>2, <1>3

IndexNamed(i) ==
  \/ Sql!IndexAt[i] \in {index, Sql!None}
  \/ \E j \in DOMAIN text : text[j].stmt = "IndexStmt" /\ Sql!IsDdl(text[j]) /\ Sql!IndexAt[i] = text[j].relation
LEMMA IndexIsNamed == \A i \in 1 .. MaxDdl + 1 : IndexNamed(i)
<1> DEFINE A == {i \in 1 .. MaxDdl + 1 : IndexNamed(i)}
<1>1. ASSUME NEW i \in 1 .. MaxDdl + 1, \A m \in 1 .. MaxDdl + 1 : m < i => m \in A
      PROVE  i \in A
  <2>1. Sql!IndexAt[i] = IndexOf(Sql!IndexAt)[i]
    BY IndexStep
  <2>2. i # 1 => IndexNamed(i - 1)
    <3>1. i # 1 => i - 1 \in 1 .. MaxDdl + 1 /\ i - 1 < i
      BY SomeDdl
    <3>2. QED
      BY <1>1, <3>1
  <2>3. IndexNamed(i)
    <3>1. CASE i = 1
      BY <2>1, <3>1 DEF IndexOf, IndexNamed
    <3>2. CASE i # 1
      <4>1. \/ Sql!IndexAt[i] = Sql!IndexAt[i - 1]
            \/ Sql!IndexAt[i] = Sql!None
            \/ /\ i - 1 \in DOMAIN text /\ Sql!IsDdl(text[i - 1])
               /\ text[i - 1].stmt = "IndexStmt" /\ Sql!IndexAt[i] = text[i - 1].relation
        BY <2>1, <3>2 DEF IndexOf
      <4>2. QED
        BY <2>2, <3>2, <4>1 DEF IndexNamed
    <3>3. QED
      BY <3>1, <3>2
  <2>4. QED
    BY <2>3
<1>2. \A i \in 1 .. MaxDdl + 1 : i \in A
  <2>1. MaxDdl + 1 \in Nat
    BY SomeDdl
  <2> HIDE DEF A
  <2>2. QED
    BY <1>1, <2>1, Ascending
<1>3. QED
  BY <1>2

-----------------------------------------------------------------------------
(* The invariant: what was decided is what the policies say of the text.   *)
Texts ==
  \/ \E t \in Sql!Trees : text = <<t>>
  \/ \E k \in 1 .. MaxDdl : text \in [1 .. k -> Sql!Ddl]
Judgements ==
  /\ decision = Sql!Undecided \/ (~Sql!IsDdl(text[1]) /\ decision = Sql!statementPolicy(text[1]))
  /\ plan = Sql!Undecided \/ plan = Sql!migrationPolicy(text)

LEMMA TreesAreNoDdl ==
  ASSUME NEW t \in Sql!Trees
  PROVE  ~Sql!IsDdl(t)
BY DEF Sql!IsDdl, Sql!Trees

LEMMA DdlIsDdl ==
  ASSUME NEW s \in Sql!Ddl
  PROVE  Sql!IsDdl(s) /\ (s.stmt = "IndexStmt" => ~Sql!OnIndex(s))
<1>1. CASE s \in [stmt : {"CreateStmt"}, relation : TableNames, fk : TableNames \cup {Sql!None}]
  BY <1>1 DEF Sql!IsDdl
<1>2. CASE s \in [stmt : {"AlterTableStmt"}, relation : TableNames, fk : TableNames \cup {Sql!None},
                  cmd : {"AT_AddConstraint", "AT_DropColumn"}]
  BY <1>2 DEF Sql!IsDdl
<1>3. CASE s \in [stmt : {"IndexStmt"}, relation : TableNames]
  BY <1>3 DEF Sql!IsDdl, Sql!OnIndex
<1>4. CASE s \in [stmt : {"DropStmt", "CommentStmt"}, relation : TableNames]
  BY <1>4 DEF Sql!IsDdl
<1>5. CASE s \in [stmt : {"DropStmt", "CommentStmt"}, index : {TRUE}]
  BY <1>5 DEF Sql!IsDdl
<1>6. QED
  BY <1>1, <1>2, <1>3, <1>4, <1>5 DEF Sql!Ddl

LEMMA TextsPlaced ==
  ASSUME Texts, NEW i \in DOMAIN text
  PROVE  /\ i \in 1 .. MaxDdl + 1
         /\ Sql!IsDdl(text[i]) => text[i] \in Sql!Ddl
         /\ ~Sql!IsDdl(text[i]) => text[i] \in Sql!Trees
<1>1. CASE \E t \in Sql!Trees : text = <<t>>
  <2>1. PICK t \in Sql!Trees : text = <<t>>
    BY <1>1
  <2>2. i = 1 /\ text[i] = t
    BY <2>1
  <2>3. QED
    BY <2>2, TreesAreNoDdl, SomeDdl
<1>2. CASE \E k \in 1 .. MaxDdl : text \in [1 .. k -> Sql!Ddl]
  <2>1. PICK k \in 1 .. MaxDdl : text \in [1 .. k -> Sql!Ddl]
    BY <1>2
  <2>2. i \in 1 .. k /\ text[i] \in Sql!Ddl
    BY <2>1
  <2>3. i \in 1 .. MaxDdl + 1
    BY <2>2, SomeDdl
  <2>4. QED
    BY <2>2, <2>3, DdlIsDdl
<1>3. QED
  BY <1>1, <1>2 DEF Texts

LEMMA PlanTables ==
  ASSUME Sql!migrationPolicy(text).ok
  PROVE  /\ \A i \in DOMAIN text : Sql!Valid(text[i])
         /\ \A i \in DOMAIN text : Sql!Tables(text[i]) \subseteq Sql!migrationPolicy(text).tables
<1>1. ~ \E i \in DOMAIN text : ~Sql!Valid(text[i])
  BY DEF Sql!migrationPolicy, Sql!Rejected
<1>2. Sql!migrationPolicy(text).tables = UNION {Sql!Tables(text[i]) : i \in DOMAIN text}
  BY <1>1 DEF Sql!migrationPolicy
<1>3. QED
  BY <1>1, <1>2

LEMMA MigrationSeen ==
  ASSUME Texts, plan = Sql!migrationPolicy(text), plan.ok, NEW i \in DOMAIN text
  PROVE  Sql!Changed(i) \ {Sql!None} \subseteq Sql!Named
<1>1. plan.tables \subseteq Sql!Named
  BY DEF Sql!Named
<1>2. \A j \in DOMAIN text : Sql!Valid(text[j]) /\ Sql!Tables(text[j]) \subseteq Sql!Named
  BY <1>1, PlanTables
<1>3. CASE ~Sql!IsDdl(text[i])
  <2>1. text[i] \in Sql!Trees
    BY <1>3, TextsPlaced
  <2>2. Sql!statementPolicy(text[i]).ok
    BY <1>2, <1>3 DEF Sql!Valid
  <2>3. Sql!Tables(text[i]) = Sql!Touched(text[i])
    BY <1>3, <2>1, <2>2, StatementSeen DEF Sql!Tables
  <2>4. Sql!Changed(i) = Sql!Touched(text[i])
    BY <1>3 DEF Sql!Changed
  <2>5. QED
    BY <1>2, <2>3, <2>4
<1>4. CASE Sql!IsDdl(text[i])
  <2>1. ASSUME Sql!OnIndex(text[i])
        PROVE  {Sql!IndexAt[i]} \ {Sql!None} \subseteq Sql!Named
    <3>1. IndexNamed(i)
      BY TextsPlaced, IndexIsNamed
    <3>2. CASE Sql!IndexAt[i] = Sql!None
      BY <3>2
    <3>3. CASE Sql!IndexAt[i] = index
      BY <1>4, <2>1, <3>3 DEF Sql!Named
    <3>4. CASE \E j \in DOMAIN text : text[j].stmt = "IndexStmt" /\ Sql!IsDdl(text[j]) /\ Sql!IndexAt[i] = text[j].relation
      <4>1. PICK j \in DOMAIN text : text[j].stmt = "IndexStmt" /\ Sql!IsDdl(text[j]) /\ Sql!IndexAt[i] = text[j].relation
        BY <3>4
      <4>2. ~Sql!OnIndex(text[j])
        BY <4>1, TextsPlaced, DdlIsDdl
      <4>3. text[j].relation \in Sql!Tables(text[j])
        BY <4>1, <4>2 DEF Sql!Tables
      <4>4. QED
        BY <1>2, <4>1, <4>3
    <3>5. QED
      BY <3>1, <3>2, <3>3, <3>4 DEF IndexNamed
  <2>2. Sql!Changed(i) =
          (IF Sql!OnIndex(text[i]) THEN {Sql!IndexAt[i]} ELSE {text[i].relation})
          \cup (IF "fk" \in DOMAIN text[i] THEN {text[i].fk} ELSE {})
    BY <1>4 DEF Sql!Changed
  <2>3. Sql!Tables(text[i]) =
          (IF Sql!OnIndex(text[i]) THEN {} ELSE {text[i].relation})
          \cup (IF "fk" \in DOMAIN text[i] THEN {text[i].fk} \ {Sql!None} ELSE {})
    BY <1>4 DEF Sql!Tables
  <2>4. QED
    BY <1>2, <2>1, <2>2, <2>3
<1>5. QED
  BY <1>3, <1>4

LEMMA SeenWhenJudged ==
  ASSUME Texts, Judgements
  PROVE  Sql!PolicySeesAll
<1>1. ASSUME decision.ok
      PROVE  /\ decision.relations = Sql!Touched(text[1])
             /\ Sql!Written(text[1]) \subseteq {decision.writeTable}
  <2>1. ~Sql!IsDdl(text[1]) /\ decision = Sql!statementPolicy(text[1])
    BY <1>1 DEF Judgements, Sql!Undecided
  <2>2. 1 \in DOMAIN text
    BY DEF Texts
  <2>3. text[1] \in Sql!Trees
    BY <2>1, <2>2, TextsPlaced
  <2>4. QED
    BY <1>1, <2>1, <2>3, StatementSeen
<1>2. ASSUME plan.ok, NEW i \in DOMAIN text
      PROVE  Sql!Changed(i) \ {Sql!None} \subseteq Sql!Named
  <2>1. plan = Sql!migrationPolicy(text)
    BY <1>2 DEF Judgements, Sql!Undecided
  <2>2. QED
    BY <1>2, <2>1, MigrationSeen
<1>3. QED
  BY <1>1, <1>2 DEF Sql!PolicySeesAll

(* Every table that PostgreSQL reads or writes for a statement that        *)
(* statementPolicy accepts is among those whose contract is checked, and   *)
(* only those are; it writes only the table whose gate is checked; and all *)
(* tables of a migration that migrationPolicy accepts are compared with    *)
(* the gates: for trees of any size and migrations of any length.          *)
THEOREM PolicyComplete == Sql!Spec => []PolicySeesAll
<1>1. Sql!Init => Texts /\ Judgements
  BY DEF Sql!Init, Texts, Judgements
<1>2. Texts /\ Judgements /\ [Sql!Next]_sqlVars => (Texts /\ Judgements)'
  <2> SUFFICES ASSUME Texts, Judgements, [Sql!Next]_sqlVars
               PROVE  (Texts /\ Judgements)'
    OBVIOUS
  <2>1. CASE UNCHANGED sqlVars
    BY <2>1 DEF Texts, Judgements, sqlVars
  <2>2. CASE Sql!Execute
    BY <2>2 DEF Sql!Execute, Texts, Judgements
  <2>3. CASE Sql!Preview
    BY <2>3 DEF Sql!Preview, Texts, Judgements
  <2>4. QED
    BY <2>1, <2>2, <2>3 DEF Sql!Next
<1>3. Texts /\ Judgements => PolicySeesAll
  BY SeenWhenJudged DEF PolicySeesAll
<1>4. QED
  BY <1>1, <1>2, <1>3, PTL DEF Sql!Spec, Sql!vars, sqlVars
=============================================================================
