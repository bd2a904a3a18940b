------------------------- MODULE RunContext_proofs -------------------------
(***************************************************************************)
(* Theorems about RunContext, for any number of Workspaces, Principals,    *)
(* Runs and sessions, and about the other behaviours of MCRunContext,      *)
(* those of StorageBinding, for any servers, stores and bytes.             *)
(*                                                                         *)
(* RunContext.  The inductive invariant says of the committed database,    *)
(* and likewise of the backup, that its log is sound (BaseOK); of each     *)
(* transaction, what it may rely on at its step (DraftOK), which is what   *)
(* the cursor lock is for (Exclusive); and of the gate, what its being     *)
(* open means (GateOK).                                                    *)
(*                                                                         *)
(* StorageBinding.  A binding belongs to one store for good (Housed);      *)
(* what servers serve is whole (Served) and stays so while bytes and rows  *)
(* are under way (Sent); and an intent still has what its repetition must  *)
(* match, also in a capture (Underway, Captured, IntentKept).              *)
(***************************************************************************)
EXTENDS MCRunContext, SequenceTheorems, TLAPS

-----------------------------------------------------------------------------
(* A database: cursors, events, status and Runs.                           *)

CursorOK(cur) == cur \in [Workspaces -> [head : 0 .. MaxHead, generation : Nat]]
LogOK(cur, ev) ==
  /\ DOMAIN ev = Workspaces
  /\ \A w \in Workspaces :
       DOMAIN ev[w] = 1 .. cur[w].head /\ ev[w] \in [1 .. cur[w].head -> Event]

RevokedAt(log, p, i) == log[i].kind = "principal.revoked" /\ log[i].of = p
(* RevocationFinal *)
StatusOK(ev, st) ==
  /\ st \in [Principals -> {"active", "revoked"}]
  /\ \A p \in Principals :
       LET log == ev[Home[p]]
       IN  /\ st[p] = "revoked" <=> \E i \in DOMAIN log : RevokedAt(log, p, i)
           /\ \A i, j \in DOMAIN log : RevokedAt(log, p, i) /\ i < j => log[j].by # p

CreatedAt(log, r, p, i) ==
  log[i].kind = "runs.created" /\ log[i].run = r /\ log[i].by = p
(* Each Run has its creation in the log of its Principal, and each event   *)
(* under a Run is the Principal's and comes after that.                    *)
RunsOK(ev, rn) ==
  /\ rn \in [RunIds -> Principals \cup {Nobody}]
  /\ \A w \in Workspaces : \A j \in DOMAIN ev[w] :
       ev[w][j].run # NoRun =>
         /\ rn[ev[w][j].run] = ev[w][j].by
         /\ \E i \in DOMAIN ev[w] : i <= j /\ CreatedAt(ev[w], ev[w][j].run, ev[w][j].by, i)
  /\ \A r \in RunIds : rn[r] # Nobody =>
       \E i \in DOMAIN ev[Home[rn[r]]] : CreatedAt(ev[Home[rn[r]]], r, rn[r], i)

Base(cur, ev, st, rn) ==
  CursorOK(cur) /\ LogOK(cur, ev) /\ StatusOK(ev, st) /\ RunsOK(ev, rn)

BaseOK ==
  /\ Base(cursor, events, status, runs)
  /\ Base(saved.cursor, saved.events, saved.status, saved.runs)
  /\ \A w \in Workspaces : saved.cursor[w].head <= cursor[w].head
  /\ \A r \in RunIds : (runs[r] # Nobody \/ saved.runs[r] # Nobody) => r \in drawn
  /\ drawn \subseteq RunIds

-----------------------------------------------------------------------------
(* The gate: open, it was never shut or everything is released; a released *)
(* Workspace is in the generation of the restore.                          *)
GateOK ==
  /\ gate \in [active : BOOLEAN, epoch : 0 .. MaxRestores,
               rotated : [Workspaces -> BOOLEAN], done : [Workspaces -> BOOLEAN]]
  /\ ~gate.active => gate.epoch = 0 \/ \A w \in Workspaces : gate.done[w]
  /\ GateNotStuck
  /\ \A w \in Workspaces :
       /\ gate.done[w] => gate.rotated[w]
       /\ gate.rotated[w] => cursor[w].generation = gate.epoch
       /\ cursor[w].generation <= gate.epoch
       /\ saved.cursor[w].generation <= gate.epoch

-----------------------------------------------------------------------------
(* A transaction.  RowsOK: what it emitted follows the head that it found  *)
(* behind the lock, which nobody moves meanwhile.                          *)

RowsOK(tx, head) ==
  /\ tx.head \in 0 .. MaxHead /\ head <= tx.head
  /\ tx.rows \in [head + 1 .. tx.head -> Event]
  /\ \A i \in DOMAIN tx.rows : tx.rows[i].by = tx.request.by /\ tx.rows[i].run = tx.request.run

(* What was rechecked behind the lock still holds. *)
ActsOK(tx) ==
  LET q == tx.request IN
  q.by # User =>
    /\ tx.gateLock = "share" /\ ~gate.active /\ status[q.by] = "active"
    /\ q.verb = "work" => runs[q.run] = q.by

One(tx, head, kind) == tx.head = head + 1 /\ tx.rows[head + 1].kind = kind
(* What each verb has emitted once it is done *)
DoneOK(tx, head) ==
  LET q == tx.request IN
  CASE q.verb = "work" -> FALSE
    [] q.verb = "create" -> One(tx, head, "runs.created")
    [] q.verb = "revoke" ->
         \/ tx.head = head /\ status[q.of] = "revoked"
         \/ One(tx, head, "principal.revoked") /\ tx.rows[head + 1].of = q.of
    [] OTHER ->
         /\ tx.gateLock = "update"
         /\ tx.head > head =>
              /\ One(tx, head, "restore.progress")
              /\ gate.active /\ gate.epoch > 0 /\ ~gate.done[q.workspace]
              /\ tx.opens <=> tx.finishes /\ LastToFinish(q.workspace)

Transaction ==
  [step : Steps, request : Request \cup {NoRequest}, head : 0 .. MaxHead,
   rows : UNION {[S -> Event] : S \in SUBSET Positions},
   gateLock : {"none", "share", "update"}, finishes : BOOLEAN, opens : BOOLEAN]

DraftOK(s) ==
  LET tx == sessions[s]
      q == tx.request
      head == cursor[q.workspace].head
  IN
  /\ tx.step = "idle" => tx = Idle
  /\ tx.step # "idle" => q \in Asks
  /\ tx.step = "waiting" => tx.head = 0 /\ tx.rows = <<>>
  /\ tx.step \in {"locked", "bound", "worked"} => RowsOK(tx, head)
  /\ tx.step = "locked" => tx.head = head
  /\ tx.step = "bound" =>
       IF q.verb = "work" THEN \A i \in DOMAIN tx.rows : tx.rows[i].kind = "work"
       ELSE tx.head = head
  /\ tx.step \in {"bound", "worked"} => ActsOK(tx)
  /\ tx.step = "worked" => DoneOK(tx, head)
  /\ tx.step # "idle" /\ q.verb = "create" => q.run \in drawn /\ runs[q.run] = Nobody
  /\ tx.gateLock = "update" => tx.step = "worked" /\ q.verb = "release"
  /\ tx.step \notin {"bound", "worked"} => tx.gateLock = "none"

(* One transaction at a time holds a Workspace, makes a Run, or has the    *)
(* gate to itself.                                                         *)
Exclusive == \A s, t \in Sessions : s # t =>
  /\ \A w \in Workspaces : ~(Holds(s, w) /\ Holds(t, w))
  /\ sessions[s].step # "idle" /\ sessions[t].step # "idle"
     /\ Of(s).verb = "create" /\ Of(t).verb = "create" => Of(s).run # Of(t).run
  /\ sessions[s].gateLock = "update" => sessions[t].gateLock = "none"

SessionsOK == sessions \in [Sessions -> Transaction] /\ \A s \in Sessions : DraftOK(s)

IInv == BaseOK /\ GateOK /\ SessionsOK /\ Exclusive

-----------------------------------------------------------------------------
(* What is asked for *)

LEMMA AskTyped ==
  ASSUME NEW q \in Asks
  PROVE  /\ q \in Request
         /\ q.verb \in {"work", "create"} =>
              q.by \in Principals /\ q.by # User /\ q.workspace = Home[q.by] /\ q.run \in RunIds
         /\ q.verb \in {"revoke", "release"} => q.by = User /\ q.run = NoRun
         /\ q.verb = "revoke" => q.of \in Principals /\ q.workspace = Home[q.of]
         /\ q.verb = "release" => q.epoch \in 1 .. MaxRestores
<1> USE ContextAssumption DEF Asked, Request, Verbs
<1>1. CASE \E v \in {"work", "create"}, p \in Principals, r \in RunIds :
             q = Asked(v, Home[p], p, r, Nobody, 0)
  BY <1>1
<1>2. CASE \E p \in Revocable : q = Asked("revoke", Home[p], User, NoRun, p, 0)
  BY <1>2
<1>3. CASE \E w \in Workspaces, e \in 1 .. MaxRestores :
             q = Asked("release", w, User, NoRun, Nobody, e)
  BY <1>3
<1> QED BY <1>1, <1>2, <1>3 DEF Asks

-----------------------------------------------------------------------------
(* Initial states *)

LEMMA EmptyRows == <<>> \in UNION {[S -> Event] : S \in SUBSET Positions} /\ DOMAIN <<>> = {}
<1>1. <<>> \in [{} -> Event]
  OBVIOUS
<1>2. {} \in SUBSET Positions
  OBVIOUS
<1> QED BY <1>1, <1>2

LEMMA IdleTyped == Idle \in Transaction
BY EmptyRows, ContextAssumption DEF Idle, Transaction, Steps

LEMMA NewGateIs ==
  ASSUME NEW e \in 0 .. MaxRestores
  PROVE  /\ NewGate(e) \in [active : BOOLEAN, epoch : 0 .. MaxRestores,
                          rotated : [Workspaces -> BOOLEAN], done : [Workspaces -> BOOLEAN]]
         /\ e > 0 /\ Workspaces # {} => NewGate(e).active = TRUE
         /\ e = 0 \/ Workspaces = {} => NewGate(e).active = FALSE
         /\ NewGate(e).epoch = e
         /\ \A w \in Workspaces : NewGate(e).rotated[w] = FALSE /\ NewGate(e).done[w] = FALSE
<1> DEFINE shut == e > 0 /\ Workspaces # {}
<1>1. NewGate(e) = [active |-> shut, epoch |-> e, rotated |-> [w \in Workspaces |-> FALSE],
                    done |-> [w \in Workspaces |-> FALSE]]
  BY DEF NewGate
<1>2. shut \in BOOLEAN
  BY DEF shut
<1>3. /\ e > 0 /\ Workspaces # {} => NewGate(e).active = TRUE
      /\ e = 0 \/ Workspaces = {} => NewGate(e).active = FALSE
  <2>1. /\ e > 0 /\ Workspaces # {} => shut = TRUE
        /\ e = 0 \/ Workspaces = {} => shut = FALSE
    OBVIOUS
  <2> HIDE DEF shut
  <2> QED BY <1>1, <2>1
<1> HIDE DEF shut
<1>4. [w \in Workspaces |-> FALSE] \in [Workspaces -> BOOLEAN]
  OBVIOUS
<1>5. NewGate(e) \in [active : BOOLEAN, epoch : 0 .. MaxRestores,
                     rotated : [Workspaces -> BOOLEAN], done : [Workspaces -> BOOLEAN]]
  BY <1>1, <1>2, <1>4
<1>6. NewGate(e).epoch = e
  BY <1>1
<1>7. \A w \in Workspaces : NewGate(e).rotated[w] = FALSE /\ NewGate(e).done[w] = FALSE
  BY <1>1
<1> QED BY <1>3, <1>5, <1>6, <1>7

LEMMA Beginning == Init => IInv
<1> SUFFICES ASSUME Init PROVE IInv
  OBVIOUS
<1> USE ContextAssumption DEF Init
<1>1. Base(cursor, events, status, runs)
  BY EmptyRows DEF Base, CursorOK, LogOK, StatusOK, RunsOK
<1>2. BaseOK
  BY <1>1 DEF BaseOK
<1>3. GateOK
  <2>0. 0 \in 0 .. MaxRestores
    OBVIOUS
  <2>1. gate.active = FALSE /\ gate.epoch = 0
    BY <2>0, NewGateIs
  <2>2. \A w \in Workspaces : ~gate.rotated[w] /\ ~gate.done[w]
    BY <2>0, NewGateIs
  <2>3. gate \in [active : BOOLEAN, epoch : 0 .. MaxRestores,
                 rotated : [Workspaces -> BOOLEAN], done : [Workspaces -> BOOLEAN]]
    BY <2>0, NewGateIs
  <2> QED BY <2>1, <2>2, <2>3 DEF GateOK, GateNotStuck
<1>4. SessionsOK
  BY IdleTyped DEF SessionsOK, DraftOK, Idle
<1>5. Exclusive
  BY DEF Exclusive, Holds, Idle
<1> QED BY <1>2, <1>3, <1>4, <1>5 DEF IInv

-----------------------------------------------------------------------------
(* Steps within a transaction                                              *)

LEMMA Kept ==
  ASSUME NEW t \in Sessions, DraftOK(t), sessions'[t] = sessions[t],
         UNCHANGED <<Data, saved>>, drawn \subseteq drawn'
  PROVE  DraftOK(t)'
BY DEF DraftOK, Data, RowsOK, ActsOK, DoneOK, One, LastToFinish

(* A step of s does no harm to the others if they still exclude each other. *)
LEMMA Within ==
  ASSUME IInv, NEW s \in Sessions,
         sessions' \in [Sessions -> Transaction],
         \A t \in Sessions \ {s} : sessions'[t] = sessions[t],
         UNCHANGED <<Data, saved>>, drawn \subseteq drawn', drawn' \subseteq RunIds,
         DraftOK(s)',
         \A t \in Sessions \ {s} :
           /\ \A w \in Workspaces : ~(Holds(s, w)' /\ Holds(t, w))
           /\ sessions'[s].step # "idle" /\ sessions[t].step # "idle"
              /\ Of(s)'.verb = "create" /\ Of(t).verb = "create" => Of(s)'.run # Of(t).run
           /\ sessions'[s].gateLock = "update" => sessions[t].gateLock = "none"
           /\ sessions[t].gateLock = "update" => sessions'[s].gateLock = "none"
  PROVE  IInv'
<1>1. BaseOK'
  BY DEF IInv, BaseOK, Data
<1>2. GateOK'
  BY DEF IInv, GateOK, GateNotStuck, Data
<1>3. SessionsOK'
  <2>1. ASSUME NEW t \in Sessions, t # s PROVE DraftOK(t)'
    BY <2>1, Kept DEF IInv, SessionsOK
  <2> QED BY <2>1 DEF SessionsOK
<1>4. Exclusive'
  <2> SUFFICES ASSUME NEW t \in Sessions, NEW u \in Sessions, t # u
               PROVE /\ \A w \in Workspaces : ~(Holds(t, w)' /\ Holds(u, w)')
                     /\ sessions'[t].step # "idle" /\ sessions'[u].step # "idle"
                        /\ Of(t)'.verb = "create" /\ Of(u)'.verb = "create" => Of(t)'.run # Of(u)'.run
                     /\ sessions'[t].gateLock = "update" => sessions'[u].gateLock = "none"
    BY DEF Exclusive
  <2>1. \A v \in Sessions \ {s} : Of(v)' = Of(v) /\ \A w \in Workspaces : Holds(v, w)' <=> Holds(v, w)
    BY DEF Of, Holds
  <2>2. CASE t # s /\ u # s
    BY <2>1, <2>2 DEF IInv, Exclusive
  <2>3. CASE t = s
    BY <2>1, <2>3
  <2>4. CASE u = s
    BY <2>1, <2>4
  <2> QED BY <2>2, <2>3, <2>4
<1> QED BY <1>1, <1>2, <1>3, <1>4 DEF IInv

LEMMA Asking ==
  ASSUME IInv, NEW s \in Sessions, NEW q \in Asks, Ask(s, q)
  PROVE  IInv'
<1> DEFINE tx == [Idle EXCEPT !.step = "waiting", !.request = q]
<1>1. tx \in Transaction /\ tx.step = "waiting" /\ tx.request = q /\ tx.gateLock = "none"
      /\ tx.head = 0 /\ tx.rows = <<>>
  BY AskTyped, IdleTyped DEF Transaction, Steps, Idle
<1>2. /\ sessions' \in [Sessions -> Transaction] /\ sessions'[s] = tx
      /\ \A t \in Sessions \ {s} : sessions'[t] = sessions[t]
  BY <1>1 DEF IInv, SessionsOK, Ask, Now
<1> HIDE DEF tx
<1>3. /\ drawn \subseteq drawn' /\ drawn' \subseteq RunIds
      /\ q.verb = "create" => q.run \in drawn' /\ q.run \notin drawn /\ runs[q.run] = Nobody
  BY AskTyped DEF Ask, IInv, BaseOK, Base, RunsOK
<1>4. UNCHANGED <<Data, saved>>
  BY DEF Ask
<1>5. DraftOK(s)'
  BY <1>1, <1>2, <1>3, <1>4 DEF DraftOK, Data
<1>6. ASSUME NEW t \in Sessions \ {s}
      PROVE  /\ \A w \in Workspaces : ~(Holds(s, w)' /\ Holds(t, w))
             /\ sessions[t].step # "idle" /\ Of(s)'.verb = "create" /\ Of(t).verb = "create"
                => Of(s)'.run # Of(t).run
             /\ sessions'[s].gateLock # "update"
             /\ sessions[t].gateLock = "update" => sessions'[s].gateLock = "none"
  <2>1. DraftOK(t)
    BY DEF IInv, SessionsOK
  <2> QED BY <1>1, <1>2, <1>3, <2>1 DEF Holds, Of, DraftOK
<1> QED BY <1>2, <1>3, <1>4, <1>5, <1>6, Within

(* A transaction that holds its Workspace goes on, or is over. *)
LEMMA Further ==
  ASSUME IInv, NEW s \in Sessions, NEW t \in Sessions, t # s,
         \/ sessions'[s] = Idle
         \/ /\ sessions[s].step \in {"locked", "bound", "worked"}
            /\ sessions'[s].request = sessions[s].request
            /\ sessions'[s].gateLock = sessions[s].gateLock
  PROVE  /\ \A w \in Workspaces : ~(Holds(s, w)' /\ Holds(t, w))
         /\ sessions'[s].step # "idle" /\ sessions[t].step # "idle"
            /\ Of(s)'.verb = "create" /\ Of(t).verb = "create" => Of(s)'.run # Of(t).run
         /\ sessions'[s].gateLock = "update" => sessions[t].gateLock = "none"
         /\ sessions[t].gateLock = "update" => sessions'[s].gateLock = "none"
<1>1. CASE sessions'[s] = Idle
  BY <1>1 DEF Holds, Of, Idle
<1>2. CASE sessions'[s] # Idle
  BY <1>2 DEF IInv, Exclusive, Holds, Of
<1> QED BY <1>1, <1>2

LEMMA Aborting ==
  ASSUME IInv, NEW s \in Sessions, Abort(s)
  PROVE  IInv'
<1>1. /\ sessions' \in [Sessions -> Transaction] /\ sessions'[s] = Idle
      /\ \A t \in Sessions \ {s} : sessions'[t] = sessions[t]
  BY IdleTyped DEF IInv, SessionsOK, Abort, Now
<1>2. UNCHANGED <<Data, saved, drawn>> /\ drawn' \subseteq RunIds
  BY DEF Abort, IInv, BaseOK
<1>3. DraftOK(s)'
  BY <1>1, <1>2 DEF DraftOK, Idle
<1> QED BY <1>1, <1>2, <1>3, Further, Within

LEMMA NoRows ==
  ASSUME NEW h \in Nat
  PROVE  <<>> \in [h + 1 .. h -> Event]
<1>1. h + 1 .. h = {}
  OBVIOUS
<1> QED BY <1>1

LEMMA Locking ==
  ASSUME IInv, NEW s \in Sessions, Lock(s)
  PROVE  IInv'
<1> DEFINE q == sessions[s].request
           tx == [sessions[s] EXCEPT !.step = "locked", !.head = cursor[q.workspace].head]
<1>1. sessions[s] \in Transaction /\ DraftOK(s) /\ sessions[s].step = "waiting" /\ q \in Asks
  BY DEF IInv, SessionsOK, Lock, DraftOK
<1>2. q.workspace \in Workspaces /\ q \in Request
  BY <1>1, AskTyped DEF Request
<1>3. cursor[q.workspace].head \in 0 .. MaxHead
  BY <1>2 DEF IInv, BaseOK, Base, CursorOK
<1>4. /\ tx \in Transaction /\ tx.step = "locked" /\ tx.head = cursor[q.workspace].head
      /\ tx.request = q /\ tx.rows = <<>> /\ tx.gateLock = "none"
  BY <1>1, <1>3 DEF Transaction, Steps, DraftOK
<1>5. /\ sessions' \in [Sessions -> Transaction] /\ sessions'[s] = tx
      /\ \A t \in Sessions \ {s} : sessions'[t] = sessions[t]
  BY <1>4 DEF IInv, SessionsOK, Lock, Now, Of
<1>6. UNCHANGED <<Data, saved, drawn>> /\ drawn' \subseteq RunIds
  BY DEF Lock, IInv, BaseOK
<1> HIDE DEF tx
<1>7. RowsOK(tx, cursor[q.workspace].head)
  BY <1>3, <1>4, NoRows, EmptyRows DEF RowsOK
<1>8. DraftOK(s)'
  BY <1>1, <1>4, <1>5, <1>6, <1>7 DEF DraftOK, RowsOK, Data
<1>9. ASSUME NEW t \in Sessions \ {s}
      PROVE  /\ \A w \in Workspaces : ~(Holds(s, w)' /\ Holds(t, w))
             /\ sessions'[s].step # "idle" /\ sessions[t].step # "idle"
                /\ Of(s)'.verb = "create" /\ Of(t).verb = "create" => Of(s)'.run # Of(t).run
             /\ sessions'[s].gateLock = "none"
  BY <1>1, <1>4, <1>5 DEF Lock, Holds, Of, IInv, Exclusive
<1> QED BY <1>5, <1>6, <1>8, <1>9, Within

LEMMA BindingRun ==
  ASSUME IInv, NEW s \in Sessions, Bind(s)
  PROVE  IInv'
<1> DEFINE q == sessions[s].request
           tx == [sessions[s] EXCEPT
                   !.step = "bound", !.gateLock = IF q.by = User THEN "none" ELSE "share"]
<1>1. sessions[s] \in Transaction /\ DraftOK(s) /\ sessions[s].step = "locked" /\ q \in Asks
  BY DEF IInv, SessionsOK, Bind, DraftOK
<1>2. /\ tx \in Transaction /\ tx.step = "bound" /\ tx.head = sessions[s].head
      /\ tx.request = q /\ tx.rows = sessions[s].rows
      /\ tx.gateLock = IF q.by = User THEN "none" ELSE "share"
  BY <1>1 DEF Transaction, Steps
<1>3. /\ sessions' \in [Sessions -> Transaction] /\ sessions'[s] = tx
      /\ \A t \in Sessions \ {s} : sessions'[t] = sessions[t]
  BY <1>2 DEF IInv, SessionsOK, Bind, Now, Of
<1>4. UNCHANGED <<Data, saved, drawn>> /\ drawn' \subseteq RunIds
  BY DEF Bind, IInv, BaseOK
<1> HIDE DEF tx
<1>5. RowsOK(tx, cursor[q.workspace].head) /\ tx.head = cursor[q.workspace].head
  BY <1>1, <1>2 DEF DraftOK, RowsOK
<1>6. tx.rows = <<>> /\ DOMAIN tx.rows = {}
  <2>1. tx.head \in Nat /\ tx.rows \in [tx.head + 1 .. tx.head -> Event]
    BY <1>5 DEF RowsOK
  <2>2. tx.head + 1 .. tx.head = {}
    BY <2>1
  <2> QED BY <2>1, <2>2
<1>7. ActsOK(tx)
  <2>1. q.by # User => q.verb \in {"work", "create"}
    BY <1>1, AskTyped DEF Request, Verbs
  <2>2. q.by # User => MayAct(q)
    BY DEF Bind, Of
  <2> QED BY <1>2, <2>1, <2>2 DEF ActsOK, MayAct
<1>8. DraftOK(s)'
  <2>1. /\ tx.step \notin {"idle", "waiting", "locked", "worked"} /\ q \in Asks
        /\ RowsOK(tx, cursor[q.workspace].head) /\ ActsOK(tx)
        /\ IF q.verb = "work" THEN \A i \in DOMAIN tx.rows : tx.rows[i].kind = "work"
           ELSE tx.head = cursor[q.workspace].head
        /\ q.verb = "create" => q.run \in drawn /\ runs[q.run] = Nobody
        /\ tx.gateLock # "update"
    BY <1>1, <1>2, <1>5, <1>6, <1>7 DEF DraftOK
  <2> QED BY <1>2, <1>3, <1>4, <2>1 DEF DraftOK, Data, RowsOK, ActsOK
<1>9. ASSUME NEW t \in Sessions \ {s}
      PROVE  /\ \A w \in Workspaces : ~(Holds(s, w)' /\ Holds(t, w))
             /\ sessions'[s].step # "idle" /\ sessions[t].step # "idle"
                /\ Of(s)'.verb = "create" /\ Of(t).verb = "create" => Of(s)'.run # Of(t).run
             /\ sessions'[s].gateLock # "update"
             /\ sessions[t].gateLock = "update" => sessions'[s].gateLock = "none"
  BY <1>1, <1>2, <1>3 DEF Bind, FreeGate, Holds, Of, IInv, Exclusive
<1> QED BY <1>3, <1>4, <1>8, <1>9, Within

-----------------------------------------------------------------------------
(* Emitting an event *)

LEMMA OneMore ==
  ASSUME NEW tx \in Transaction, tx.request \in Request,
         NEW h \in Nat, RowsOK(tx, h), tx.head < MaxHead,
         NEW kind \in Kinds, NEW of \in Principals \cup {Nobody}
  PROVE  LET new == Emitted(tx, kind, of) IN
         /\ new \in Transaction /\ RowsOK(new, h) /\ new.head = tx.head + 1
         /\ \A i \in DOMAIN new.rows :
              \/ i \in DOMAIN tx.rows /\ new.rows[i] = tx.rows[i]
              \/ i = tx.head + 1 /\ new.rows[i].kind = kind /\ new.rows[i].of = of
         /\ new.rows[tx.head + 1].kind = kind /\ new.rows[tx.head + 1].of = of
         /\ new.step = tx.step /\ new.request = tx.request /\ new.gateLock = tx.gateLock
         /\ new.finishes = tx.finishes /\ new.opens = tx.opens
<1> DEFINE row == [kind |-> kind, by |-> tx.request.by, run |-> tx.request.run, of |-> of]
           rows == Over(tx.rows, [i \in {tx.head + 1} |-> row])
           new == Emitted(tx, kind, of)
<1>1. row \in Event
  BY DEF Event, Request
<1>2. tx.head \in 0 .. MaxHead /\ DOMAIN tx.rows = h + 1 .. tx.head /\ h <= tx.head
      /\ \A i \in DOMAIN tx.rows : tx.rows[i] \in Event
  BY DEF RowsOK
<1>3. /\ DOMAIN rows = h + 1 .. tx.head + 1
      /\ rows = [i \in h + 1 .. tx.head + 1 |-> IF i = tx.head + 1 THEN row ELSE tx.rows[i]]
  BY <1>2 DEF Over
<1> HIDE DEF row, rows
<1>4. rows \in [h + 1 .. tx.head + 1 -> Event]
  BY <1>1, <1>2, <1>3
<1>5. rows \in UNION {[S -> Event] : S \in SUBSET Positions}
  <2>1. h + 1 .. tx.head + 1 \subseteq Positions
    BY <1>2, ContextAssumption DEF Positions
  <2> QED BY <1>4, <2>1
<1>6. new = [tx EXCEPT !.head = @ + 1, !.rows = rows]
  BY DEF Emitted, row, rows
<1> HIDE DEF new
<1>7. /\ new \in Transaction /\ new.head = tx.head + 1 /\ new.rows = rows
      /\ new.step = tx.step /\ new.request = tx.request /\ new.gateLock = tx.gateLock
      /\ new.finishes = tx.finishes /\ new.opens = tx.opens
  <2>1. tx.head + 1 \in 0 .. MaxHead
    BY <1>2, ContextAssumption
  <2> QED BY <1>5, <1>6, <2>1 DEF Transaction
<1>8. /\ row.kind = kind /\ row.of = of /\ row.by = tx.request.by /\ row.run = tx.request.run
  BY DEF row
<1>9. tx.head + 1 \in 0 .. MaxHead /\ h <= tx.head + 1
  BY <1>2, ContextAssumption
<1>10. RowsOK(new, h)
  <2>1. ASSUME NEW i \in DOMAIN rows
        PROVE  rows[i].by = tx.request.by /\ rows[i].run = tx.request.run
    BY <1>2, <1>3, <1>8 DEF RowsOK
  <2> QED BY <1>4, <1>7, <1>9, <2>1 DEF RowsOK
<1> QED BY <1>2, <1>3, <1>7, <1>8, <1>10 DEF new

(* A transaction past bind_context *)
LEMMA Bound ==
  ASSUME IInv, NEW s \in Sessions, sessions[s].step = "bound"
  PROVE  LET tx == sessions[s]
             q == tx.request
             head == cursor[q.workspace].head
         IN  /\ tx \in Transaction /\ q \in Asks /\ q \in Request /\ q.workspace \in Workspaces
             /\ head \in Nat /\ RowsOK(tx, head) /\ ActsOK(tx) /\ tx.gateLock # "update"
             /\ q.verb # "work" => tx.head = head
             /\ q.verb = "work" => \A i \in DOMAIN tx.rows : tx.rows[i].kind = "work"
             /\ q.verb = "create" => q.run \in drawn /\ runs[q.run] = Nobody
<1>1. DraftOK(s) /\ sessions[s] \in Transaction
  BY DEF IInv, SessionsOK
<1>2. sessions[s].request \in Asks
  BY <1>1 DEF DraftOK
<1>3. sessions[s].request \in Request /\ sessions[s].request.workspace \in Workspaces
  BY <1>2, AskTyped DEF Request
<1>4. cursor[sessions[s].request.workspace].head \in Nat
  BY <1>3 DEF IInv, BaseOK, Base, CursorOK
<1> QED BY <1>1, <1>2, <1>3, <1>4 DEF DraftOK

LEMMA Working ==
  ASSUME IInv, NEW s \in Sessions, Work(s)
  PROVE  IInv'
<1> DEFINE old == sessions[s]
           head == cursor[old.request.workspace].head
           tx == Emitted(old, "work", Nobody)
<1>1. /\ old \in Transaction /\ old.request \in Asks /\ old.request \in Request /\ old.step = "bound"
      /\ head \in Nat /\ RowsOK(old, head) /\ ActsOK(old) /\ old.gateLock # "update"
      /\ old.request.verb = "work" /\ \A i \in DOMAIN old.rows : old.rows[i].kind = "work"
  BY Bound DEF Work, Of
<1>2. /\ tx \in Transaction /\ RowsOK(tx, head)
      /\ \A i \in DOMAIN tx.rows : tx.rows[i].kind = "work"
      /\ tx.step = "bound" /\ tx.request = old.request /\ tx.gateLock = old.gateLock
  BY <1>1, OneMore DEF Work, Kinds
<1>3. /\ sessions' \in [Sessions -> Transaction] /\ sessions'[s] = tx
      /\ \A t \in Sessions \ {s} : sessions'[t] = sessions[t]
  BY <1>2 DEF IInv, SessionsOK, Work, Now
<1>4. UNCHANGED <<Data, saved, drawn>> /\ drawn' \subseteq RunIds
  BY DEF Work, IInv, BaseOK
<1> HIDE DEF tx
<1>5. ActsOK(tx)
  BY <1>1, <1>2 DEF ActsOK
<1>6. DraftOK(s)'
  BY <1>1, <1>2, <1>3, <1>4, <1>5 DEF DraftOK, Data, RowsOK, ActsOK
<1> QED BY <1>1, <1>2, <1>3, <1>4, <1>6, Further, Within

LEMMA Creating ==
  ASSUME IInv, NEW s \in Sessions, Create(s)
  PROVE  IInv'
<1> DEFINE old == sessions[s]
           head == cursor[old.request.workspace].head
           emitted == Emitted(old, "runs.created", Nobody)
           tx == [emitted EXCEPT !.step = "worked"]
<1>1. /\ old \in Transaction /\ old.request \in Asks /\ old.request \in Request /\ old.step = "bound"
      /\ head \in Nat /\ RowsOK(old, head) /\ ActsOK(old) /\ old.gateLock # "update"
      /\ old.request.verb = "create" /\ old.head = head
      /\ old.request.run \in drawn /\ runs[old.request.run] = Nobody
  BY Bound DEF Create, Of
<1>2. /\ emitted \in Transaction /\ RowsOK(emitted, head) /\ emitted.head = head + 1
      /\ emitted.rows[head + 1].kind = "runs.created"
      /\ emitted.request = old.request /\ emitted.gateLock = old.gateLock
  BY <1>1, OneMore DEF Create, Kinds
<1> HIDE DEF emitted
<1>3. /\ tx \in Transaction /\ RowsOK(tx, head) /\ One(tx, head, "runs.created")
      /\ tx.step = "worked" /\ tx.request = old.request /\ tx.gateLock = old.gateLock
  BY <1>2 DEF Transaction, Steps, RowsOK, One
<1>4. /\ sessions' \in [Sessions -> Transaction] /\ sessions'[s] = tx
      /\ \A t \in Sessions \ {s} : sessions'[t] = sessions[t]
  BY <1>3 DEF IInv, SessionsOK, Create, Now, emitted
<1>5. UNCHANGED <<Data, saved, drawn>> /\ drawn' \subseteq RunIds
  BY DEF Create, IInv, BaseOK
<1> HIDE DEF tx
<1>6. ActsOK(tx) /\ DoneOK(tx, head)
  BY <1>1, <1>3 DEF ActsOK, DoneOK
<1>7. DraftOK(s)'
  BY <1>1, <1>3, <1>4, <1>5, <1>6 DEF DraftOK, Data, RowsOK, ActsOK, DoneOK, One, LastToFinish
<1> QED BY <1>1, <1>3, <1>4, <1>5, <1>7, Further, Within

LEMMA Revoking ==
  ASSUME IInv, NEW s \in Sessions, Revoke(s)
  PROVE  IInv'
<1> DEFINE old == sessions[s]
           q == old.request
           head == cursor[q.workspace].head
           emitted == IF status[q.of] = "revoked" THEN old
                      ELSE Emitted(old, "principal.revoked", q.of)
           tx == [emitted EXCEPT !.step = "worked"]
<1>1. /\ old \in Transaction /\ q \in Asks /\ q \in Request /\ old.step = "bound"
      /\ head \in Nat /\ RowsOK(old, head) /\ ActsOK(old) /\ old.gateLock # "update"
      /\ q.verb = "revoke" /\ old.head = head
  BY Bound DEF Revoke, Of
<1>2. q.by = User /\ q.of \in Principals
  BY <1>1, AskTyped
<1>3. /\ emitted \in Transaction /\ RowsOK(emitted, head)
      /\ \/ status[q.of] = "revoked" /\ emitted.head = head
         \/ /\ emitted.head = head + 1
            /\ emitted.rows[head + 1].kind = "principal.revoked" /\ emitted.rows[head + 1].of = q.of
      /\ emitted.request = q /\ emitted.gateLock = old.gateLock
  <2>1. CASE status[q.of] = "revoked"
    BY <1>1, <2>1
  <2>2. CASE status[q.of] # "revoked"
    <3> DEFINE new == Emitted(old, "principal.revoked", q.of)
    <3>1. emitted = new
      BY <2>2
    <3>2. old.head < MaxHead /\ "principal.revoked" \in Kinds
      BY DEF Revoke, Kinds
    <3> HIDE DEF new, emitted
    <3>3. /\ new \in Transaction /\ RowsOK(new, head) /\ new.head = old.head + 1
          /\ new.rows[old.head + 1].kind = "principal.revoked" /\ new.rows[old.head + 1].of = q.of
          /\ new.request = q /\ new.gateLock = old.gateLock
      BY <1>1, <1>2, <3>2, OneMore DEF new
    <3> QED BY <1>1, <3>1, <3>3
  <2> QED BY <2>1, <2>2
<1>4. sessions' = [sessions EXCEPT ![s] = tx]
  BY DEF Revoke, Now, Of
<1> HIDE DEF emitted
<1>5. /\ tx \in Transaction /\ RowsOK(tx, head)
      /\ \/ status[q.of] = "revoked" /\ tx.head = head
         \/ One(tx, head, "principal.revoked") /\ tx.rows[head + 1].of = q.of
      /\ tx.step = "worked" /\ tx.request = q /\ tx.gateLock = old.gateLock
  BY <1>3 DEF Transaction, Steps, RowsOK, One
<1>6. /\ sessions' \in [Sessions -> Transaction] /\ sessions'[s] = tx
      /\ \A t \in Sessions \ {s} : sessions'[t] = sessions[t]
  BY <1>4, <1>5 DEF IInv, SessionsOK
<1>7. UNCHANGED <<Data, saved, drawn>> /\ drawn' \subseteq RunIds
  BY DEF Revoke, IInv, BaseOK
<1> HIDE DEF tx
<1>8. ActsOK(tx) /\ DoneOK(tx, head)
  BY <1>1, <1>2, <1>5 DEF ActsOK, DoneOK
<1>9. DraftOK(s)'
  BY <1>1, <1>5, <1>6, <1>7, <1>8 DEF DraftOK, Data, RowsOK, ActsOK, DoneOK, One, LastToFinish
<1> QED BY <1>1, <1>5, <1>6, <1>7, <1>9, Further, Within

LEMMA Releasing ==
  ASSUME IInv, NEW s \in Sessions, NEW finishes \in BOOLEAN, Release(s, finishes)
  PROVE  IInv'
<1> DEFINE old == sessions[s]
           q == old.request
           w == q.workspace
           head == cursor[w].head
           emitted == Emitted(old, "restore.progress", Nobody)
           opens == finishes /\ LastToFinish(w)
           tx == IF gate.done[w] THEN [old EXCEPT !.step = "worked", !.gateLock = "update"]
                 ELSE [emitted EXCEPT !.step = "worked", !.gateLock = "update",
                         !.finishes = finishes, !.opens = opens]
<1>1. /\ old \in Transaction /\ q \in Asks /\ q \in Request /\ old.step = "bound" /\ w \in Workspaces
      /\ head \in Nat /\ RowsOK(old, head) /\ old.gateLock # "update"
      /\ q.verb = "release" /\ old.head = head
  BY Bound DEF Release, Of
<1>2. q.by = User /\ q.epoch \in 1 .. MaxRestores /\ q.epoch = gate.epoch
  BY <1>1, AskTyped DEF Release, Of
<1>3. sessions' = [sessions EXCEPT ![s] = tx]
  BY DEF Release, Now, Of
<1>4. /\ tx \in Transaction /\ RowsOK(tx, head) /\ DoneOK(tx, head)
      /\ tx.step = "worked" /\ tx.request = q /\ tx.gateLock = "update"
  <2>1. CASE gate.done[w]
    <3>1. tx = [old EXCEPT !.step = "worked", !.gateLock = "update"]
      BY <2>1
    <3>2. old \in Transaction /\ old.head = head
      BY <1>1
    <3> HIDE DEF tx, old
    <3>3. /\ tx \in Transaction /\ tx.head = head /\ tx.rows = old.rows
          /\ tx.step = "worked" /\ tx.request = q /\ tx.gateLock = "update"
      BY <3>1, <3>2 DEF Transaction, Steps
    <3> QED BY <1>1, <3>3 DEF RowsOK, DoneOK
  <2>2. CASE ~gate.done[w]
    <3>1. /\ emitted \in Transaction /\ RowsOK(emitted, head) /\ emitted.head = head + 1
          /\ emitted.rows[head + 1].kind = "restore.progress" /\ emitted.request = q
      <4>1. /\ old \in Transaction /\ old.request \in Request /\ head \in Nat /\ RowsOK(old, head)
            /\ old.head < MaxHead /\ old.head = head
            /\ "restore.progress" \in Kinds /\ Nobody \in Principals \cup {Nobody}
        BY <1>1 DEF Release, Kinds
      <4>2. emitted = Emitted(old, "restore.progress", Nobody)
        OBVIOUS
      <4>3. q = old.request
        OBVIOUS
      <4> HIDE DEF old, emitted, q, w, head, opens, tx
      <4> QED BY <4>1, <4>2, <4>3, OneMore
    <3>2. tx = [emitted EXCEPT !.step = "worked", !.gateLock = "update",
                  !.finishes = finishes, !.opens = opens]
      BY <2>2
    <3>3. opens \in BOOLEAN
      OBVIOUS
    <3>4. opens <=> finishes /\ LastToFinish(w)
      OBVIOUS
    <3> HIDE DEF emitted, opens, tx
    <3>5. /\ tx \in Transaction /\ tx.head = emitted.head /\ tx.rows = emitted.rows
          /\ tx.step = "worked" /\ tx.request = q /\ tx.gateLock = "update"
          /\ tx.finishes = finishes /\ tx.opens = opens
      <4> HIDE DEF old, q, w, head
      <4> QED BY <3>1, <3>2, <3>3 DEF Transaction, Steps
    <3>6. gate.epoch > 0 /\ gate.active
      BY <1>1, <1>2, <2>2 DEF IInv, GateOK
    <3>7. RowsOK(tx, head) /\ One(tx, head, "restore.progress")
      BY <3>1, <3>5 DEF RowsOK, One
    <3> QED BY <1>1, <2>2, <3>4, <3>5, <3>6, <3>7 DEF DoneOK
  <2> QED BY <2>1, <2>2
<1> HIDE DEF tx
<1>5. /\ sessions' \in [Sessions -> Transaction] /\ sessions'[s] = tx
      /\ \A t \in Sessions \ {s} : sessions'[t] = sessions[t]
  BY <1>3, <1>4 DEF IInv, SessionsOK
<1>6. UNCHANGED <<Data, saved, drawn>> /\ drawn' \subseteq RunIds
  BY DEF Release, IInv, BaseOK
<1>7. ActsOK(tx)
  BY <1>2, <1>4 DEF ActsOK
<1>8. DraftOK(s)'
  BY <1>1, <1>4, <1>5, <1>6, <1>7 DEF DraftOK, Data, RowsOK, ActsOK, DoneOK, One, LastToFinish
<1>9. ASSUME NEW t \in Sessions \ {s}
      PROVE  /\ \A v \in Workspaces : ~(Holds(s, v)' /\ Holds(t, v))
             /\ Of(s)'.verb # "create"
             /\ sessions[t].gateLock = "none"
  BY <1>1, <1>4, <1>5 DEF Release, UnsharedGate, Holds, Of, IInv, Exclusive
<1> QED BY <1>5, <1>6, <1>8, <1>9, Within

-----------------------------------------------------------------------------
(* Commit *)

(* What a transaction that may commit has emitted *)
Ready(s) ==
  LET tx == sessions[s]
      q == tx.request
      head == cursor[q.workspace].head
  IN
  /\ tx \in Transaction /\ q \in Asks /\ q \in Request /\ q.workspace \in Workspaces
  /\ head \in Nat /\ RowsOK(tx, head) /\ ActsOK(tx)
  /\ tx.step \in {"bound", "worked"}
  /\ \A i \in DOMAIN tx.rows : tx.rows[i].kind = "principal.revoked" =>
       q.verb = "revoke" /\ tx.rows[i].of = q.of
  /\ q.verb = "revoke" =>
       \/ status[q.of] = "revoked"
       \/ head + 1 \in DOMAIN tx.rows /\ RevokedAt(tx.rows, q.of, head + 1)
  /\ q.verb = "create" =>
       /\ CreatedAt(tx.rows, q.run, q.by, head + 1) /\ tx.head = head + 1
       /\ q.run \in drawn /\ runs[q.run] = Nobody
  /\ q.verb = "release" => DoneOK(tx, head)

LEMMA Committable ==
  ASSUME IInv, NEW s \in Sessions, Commit(s)
  PROVE  Ready(s)
<1> DEFINE tx == sessions[s]
           q == tx.request
           head == cursor[q.workspace].head
<1>1. DraftOK(s) /\ tx \in Transaction
  BY DEF IInv, SessionsOK
<1>2. /\ tx.step = "worked" \/ (tx.step = "bound" /\ q.verb = "work")
      /\ q \in Asks
  BY <1>1 DEF Commit, Of, DraftOK
<1>3. q \in Request /\ q.workspace \in Workspaces /\ q.verb \in Verbs
  BY <1>2, AskTyped DEF Request
<1>4. head \in Nat
  BY <1>3 DEF IInv, BaseOK, Base, CursorOK
<1>5. RowsOK(tx, head) /\ ActsOK(tx) /\ DOMAIN tx.rows = head + 1 .. tx.head
  BY <1>1, <1>2 DEF DraftOK, RowsOK
<1>6. CASE q.verb = "work"
  <2>1. \A i \in DOMAIN tx.rows : tx.rows[i].kind = "work"
    BY <1>1, <1>2, <1>6 DEF DraftOK, DoneOK
  <2> QED BY <1>1, <1>2, <1>3, <1>4, <1>5, <1>6, <2>1 DEF Ready
<1>7. CASE q.verb = "create"
  <2>1. One(tx, head, "runs.created") /\ q.run \in drawn /\ runs[q.run] = Nobody
    BY <1>1, <1>2, <1>7 DEF DraftOK, DoneOK
  <2>2. DOMAIN tx.rows = {head + 1}
    BY <1>4, <1>5, <2>1 DEF One
  <2>3. tx.rows[head + 1].run = q.run /\ tx.rows[head + 1].by = q.by
    BY <1>5, <2>2 DEF RowsOK
  <2> QED BY <1>1, <1>2, <1>3, <1>4, <1>5, <1>7, <2>1, <2>2, <2>3 DEF Ready, One, CreatedAt
<1>8. CASE q.verb = "revoke"
  <2>1. \/ tx.head = head /\ status[q.of] = "revoked"
        \/ One(tx, head, "principal.revoked") /\ tx.rows[head + 1].of = q.of
    BY <1>1, <1>2, <1>8 DEF DraftOK, DoneOK
  <2>2. \A i \in DOMAIN tx.rows : i = head + 1 /\ One(tx, head, "principal.revoked") /\ tx.rows[i].of = q.of
    BY <1>4, <1>5, <2>1 DEF One
  <2>3. status[q.of] = "revoked" \/ head + 1 \in DOMAIN tx.rows
    BY <1>4, <1>5, <2>1 DEF One
  <2> QED BY <1>1, <1>2, <1>3, <1>4, <1>5, <1>8, <2>1, <2>2, <2>3 DEF Ready, One, RevokedAt
<1>9. CASE q.verb = "release"
  <2>1. DoneOK(tx, head)
    BY <1>1, <1>2, <1>9 DEF DraftOK
  <2>2. tx.head > head => One(tx, head, "restore.progress")
    BY <1>9, <2>1 DEF DoneOK
  <2>3. tx.head \in Nat
    BY <1>5 DEF RowsOK
  <2>4. \A i \in DOMAIN tx.rows : i = head + 1 /\ tx.rows[i].kind = "restore.progress"
    BY <1>4, <1>5, <2>2, <2>3 DEF One
  <2> QED BY <1>1, <1>2, <1>3, <1>4, <1>5, <1>9, <2>1, <2>4, SMTT(30) DEF Ready
<1> QED BY <1>3, <1>6, <1>7, <1>8, <1>9 DEF Verbs

(* The log after the commit: what it was, and the transaction's rows. *)
LEMMA Logged ==
  ASSUME IInv, NEW s \in Sessions, Commit(s)
  PROVE  LET tx == sessions[s]
             w == tx.request.workspace
         IN  /\ CursorOK(cursor') /\ LogOK(cursor', events')
             /\ cursor'[w].head = tx.head /\ cursor'[w].generation = GenerationAfter(s)
             /\ cursor[w].head <= tx.head /\ DOMAIN events[w] = 1 .. cursor[w].head
             /\ DOMAIN events'[w] = 1 .. tx.head
             /\ \A i \in 1 .. cursor[w].head : events'[w][i] = events[w][i]
             /\ \A i \in DOMAIN tx.rows : events'[w][i] = tx.rows[i]
             /\ DOMAIN tx.rows = cursor[w].head + 1 .. tx.head
             /\ \A v \in Workspaces \ {w} : cursor'[v] = cursor[v] /\ events'[v] = events[v]
<1> DEFINE tx == sessions[s]
           w == tx.request.workspace
           h == cursor[w].head
           log == Over(tx.rows, events[w])
<1>1. /\ w \in Workspaces /\ h \in Nat /\ tx.head \in 0 .. MaxHead /\ h <= tx.head
      /\ tx.rows \in [h + 1 .. tx.head -> Event]
  BY Committable DEF Ready, RowsOK
<1>2. events[w] \in [1 .. h -> Event] /\ DOMAIN events[w] = 1 .. h
      /\ DOMAIN events = Workspaces /\ CursorOK(cursor) /\ LogOK(cursor, events)
  BY <1>1 DEF IInv, BaseOK, Base, LogOK
<1>3. DOMAIN tx.rows \cup DOMAIN events[w] = 1 .. tx.head
  BY <1>1, <1>2
<1>4. /\ log \in [1 .. tx.head -> Event]
      /\ \A i \in 1 .. h : log[i] = events[w][i]
      /\ \A i \in DOMAIN tx.rows : log[i] = tx.rows[i]
  <2>1. log = [i \in 1 .. tx.head |-> IF i \in DOMAIN tx.rows THEN tx.rows[i] ELSE events[w][i]]
    BY <1>3 DEF Over
  <2> HIDE DEF log
  <2>2. ASSUME NEW i \in 1 .. h
        PROVE  i \in 1 .. tx.head /\ i \notin DOMAIN tx.rows /\ log[i] = events[w][i]
    BY <1>1, <2>1
  <2>3. ASSUME NEW i \in DOMAIN tx.rows
        PROVE  i \in 1 .. tx.head /\ log[i] = tx.rows[i] /\ log[i] \in Event
    <3>1. DOMAIN tx.rows = h + 1 .. tx.head /\ tx.rows[i] \in Event
      BY <1>1
    <3>2. i \in 1 .. tx.head
      BY <1>1, <3>1
    <3> QED BY <2>1, <3>1, <3>2
  <2>4. ASSUME NEW i \in 1 .. tx.head PROVE log[i] \in Event
    BY <1>1, <1>2, <1>3, <2>2, <2>3
  <2> QED BY <2>1, <2>2, <2>3, <2>4
<1>5. GenerationAfter(s) \in Nat
  BY <1>1, <1>2 DEF GenerationAfter, CursorOK, IInv, GateOK, Of
<1>6. /\ cursor' = [cursor EXCEPT ![w] = [head |-> tx.head, generation |-> GenerationAfter(s)]]
      /\ events' = [events EXCEPT ![w] = log]
  BY DEF Commit, Of
<1> HIDE DEF log, tx
<1>7. CursorOK(cursor')
  BY <1>1, <1>2, <1>5, <1>6 DEF CursorOK
<1>8. LogOK(cursor', events')
  BY <1>1, <1>2, <1>4, <1>6 DEF CursorOK, LogOK
<1>9. cursor'[w] = [head |-> tx.head, generation |-> GenerationAfter(s)] /\ events'[w] = log
  BY <1>1, <1>2, <1>6 DEF CursorOK
<1> QED BY <1>1, <1>2, <1>4, <1>6, <1>7, <1>8, <1>9 DEF CursorOK, tx

(* Whoever is revoked emits nothing more: its status was read behind the lock. *)
LEMMA StatusAfter ==
  ASSUME IInv, NEW s \in Sessions, Commit(s)
  PROVE  StatusOK(events', status')
<1> DEFINE tx == sessions[s]
           q == tx.request
           w == q.workspace
           h == cursor[w].head
<1>1. /\ w \in Workspaces /\ h \in Nat /\ tx.head \in 0 .. MaxHead /\ q \in Asks
      /\ \A i \in DOMAIN tx.rows : tx.rows[i].by = q.by
  BY Committable DEF Ready, RowsOK
<1>2. /\ DOMAIN events[w] = 1 .. h /\ DOMAIN events'[w] = 1 .. tx.head /\ h <= tx.head
      /\ \A i \in 1 .. h : events'[w][i] = events[w][i]
      /\ \A i \in DOMAIN tx.rows : events'[w][i] = tx.rows[i]
      /\ DOMAIN tx.rows = h + 1 .. tx.head
      /\ \A v \in Workspaces \ {w} : events'[v] = events[v]
  BY Logged
<1>3. /\ \A i \in DOMAIN tx.rows : tx.rows[i].kind = "principal.revoked" =>
           q.verb = "revoke" /\ tx.rows[i].of = q.of
      /\ q.verb = "revoke" =>
           \/ status[q.of] = "revoked"
           \/ h + 1 \in DOMAIN tx.rows /\ RevokedAt(tx.rows, q.of, h + 1)
      /\ q.by # User => status[q.by] = "active"
  BY Committable DEF Ready, ActsOK
<1>4. status' = [p \in Principals |->
                  IF q.verb = "revoke" /\ q.of = p THEN "revoked" ELSE status[p]]
  BY DEF Commit, Of
<1>5. StatusOK(events, status)
  BY DEF IInv, BaseOK, Base
<1>6. q.verb = "revoke" => q.of \in Principals /\ w = Home[q.of]
  BY <1>1, AskTyped
<1> HIDE DEF tx, q, w, h
<1>7. ASSUME NEW p \in Principals
      PROVE  /\ status'[p] = "revoked" <=>
                  \E i \in DOMAIN events'[Home[p]] : RevokedAt(events'[Home[p]], p, i)
             /\ \A i, j \in DOMAIN events'[Home[p]] :
                  RevokedAt(events'[Home[p]], p, i) /\ i < j => events'[Home[p]][j].by # p
  <2>1. /\ status[p] = "revoked" <=> \E i \in DOMAIN events[Home[p]] : RevokedAt(events[Home[p]], p, i)
        /\ \A i, j \in DOMAIN events[Home[p]] :
             RevokedAt(events[Home[p]], p, i) /\ i < j => events[Home[p]][j].by # p
    BY <1>5 DEF StatusOK
  <2>2. CASE Home[p] # w
    <3>1. events'[Home[p]] = events[Home[p]] /\ status'[p] = status[p]
      BY <1>2, <1>4, <1>6, <2>2, ContextAssumption
    <3> QED BY <2>1, <3>1 DEF RevokedAt
  <2>3. CASE Home[p] = w
    <3>1. \A i \in 1 .. h : RevokedAt(events'[w], p, i) <=> RevokedAt(events[w], p, i)
      BY <1>2 DEF RevokedAt
    <3>2. \A i \in h + 1 .. tx.head :
            RevokedAt(events'[w], p, i) => q.verb = "revoke" /\ q.of = p
      BY <1>2, <1>3 DEF RevokedAt
    <3>3. status'[p] = "revoked" => \E i \in 1 .. tx.head : RevokedAt(events'[w], p, i)
      <4>1. CASE status[p] = "revoked"
        <5>1. PICK i \in 1 .. h : RevokedAt(events[w], p, i)
          BY <1>2, <2>1, <2>3, <4>1
        <5>2. i \in 1 .. tx.head
          BY <1>1, <1>2
        <5> QED BY <3>1, <5>1, <5>2
      <4>2. CASE status[p] # "revoked" /\ q.verb = "revoke" /\ q.of = p
        <5>1. h + 1 \in h + 1 .. tx.head /\ RevokedAt(events'[w], p, h + 1)
          BY <1>2, <1>3, <4>2 DEF RevokedAt
        <5>2. h + 1 \in 1 .. tx.head
          BY <1>1, <5>1
        <5> QED BY <5>1, <5>2
      <4> QED BY <1>4, <4>1, <4>2
    <3>4. ASSUME NEW i \in 1 .. tx.head, RevokedAt(events'[w], p, i)
          PROVE  status'[p] = "revoked"
      <4>1. CASE i \in 1 .. h
        BY <1>2, <1>4, <2>1, <2>3, <3>1, <3>4, <4>1
      <4>2. CASE i \in h + 1 .. tx.head
        BY <1>4, <3>2, <3>4, <4>2
      <4> QED BY <1>1, <4>1, <4>2
    <3>5. ASSUME NEW i \in 1 .. tx.head, NEW j \in 1 .. tx.head,
                 RevokedAt(events'[w], p, i), i < j
          PROVE  events'[w][j].by # p
      <4>1. CASE j \in 1 .. h
        <5>1. i \in 1 .. h
          BY <1>1, <3>5, <4>1
        <5> QED BY <1>2, <2>1, <2>3, <3>1, <3>5, <4>1, <5>1
      <4>2. CASE j \in h + 1 .. tx.head
        <5>1. events'[w][j].by = q.by
          BY <1>1, <1>2, <4>2
        <5>2. CASE i \in 1 .. h
          <6>1. status[p] = "revoked"
            BY <1>2, <2>1, <2>3, <3>1, <3>5, <5>2
          <6> QED BY <1>3, <5>1, <6>1, ContextAssumption
        <5>3. CASE i \in h + 1 .. tx.head
          <6>1. q.verb = "revoke"
            BY <3>2, <3>5, <5>3
          <6>2. q.by = User
            BY <1>1, <6>1, AskTyped DEF q
          <6> QED BY <5>1, <6>2, ContextAssumption
        <5> QED BY <1>1, <5>2, <5>3
      <4> QED BY <1>1, <4>1, <4>2
    <3> QED BY <1>2, <2>3, <3>3, <3>4, <3>5
  <2> QED BY <2>2, <2>3
<1>8. status' \in [Principals -> {"active", "revoked"}]
  BY <1>4, <1>5 DEF StatusOK
<1> QED BY <1>7, <1>8 DEF StatusOK

(* A Run is created in the log that names it, before it is named. *)
LEMMA RunsAfter ==
  ASSUME IInv, NEW s \in Sessions, Commit(s)
  PROVE  /\ RunsOK(events', runs')
         /\ \A r \in RunIds : runs'[r] # Nobody => r \in drawn
<1> DEFINE tx == sessions[s]
           q == tx.request
           w == q.workspace
           h == cursor[w].head
<1>1. /\ w \in Workspaces /\ h \in Nat /\ tx.head \in 0 .. MaxHead /\ q \in Asks /\ q \in Request
      /\ \A i \in DOMAIN tx.rows : tx.rows[i].by = q.by /\ tx.rows[i].run = q.run
  BY Committable DEF Ready, RowsOK
<1>2. /\ DOMAIN events[w] = 1 .. h /\ DOMAIN events'[w] = 1 .. tx.head /\ h <= tx.head
      /\ \A i \in 1 .. h : events'[w][i] = events[w][i]
      /\ \A i \in DOMAIN tx.rows : events'[w][i] = tx.rows[i]
      /\ DOMAIN tx.rows = h + 1 .. tx.head
      /\ \A v \in Workspaces \ {w} : events'[v] = events[v]
      /\ LogOK(cursor', events')
  BY Logged
<1>3. /\ q.verb = "create" => /\ CreatedAt(tx.rows, q.run, q.by, h + 1) /\ tx.head = h + 1
                              /\ q.run \in drawn /\ runs[q.run] = Nobody
      /\ q.by # User /\ q.verb = "work" => runs[q.run] = q.by
  BY Committable DEF Ready, ActsOK
<1>4. runs' = [r \in RunIds |-> IF q.verb = "create" /\ q.run = r THEN q.by ELSE runs[r]]
  BY DEF Commit, Of
<1>5. /\ RunsOK(events, runs) /\ LogOK(cursor, events)
      /\ \A r \in RunIds : runs[r] # Nobody => r \in drawn
  BY DEF IInv, BaseOK, Base
<1>6. /\ q.verb \in {"work", "create"} =>
           q.by \in Principals /\ q.by # User /\ w = Home[q.by] /\ q.run \in RunIds
      /\ q.verb \notin {"work", "create"} => q.run = NoRun
  BY <1>1, AskTyped DEF Request, Verbs
<1> HIDE DEF tx, q, w, h
<1>7. runs' \in [RunIds -> Principals \cup {Nobody}]
  BY <1>4, <1>5, <1>6 DEF RunsOK
<1>8. ASSUME NEW v \in Workspaces, NEW i \in DOMAIN events[v]
      PROVE  i \in DOMAIN events'[v] /\ events'[v][i] = events[v][i]
  BY <1>1, <1>2
<1>9. ASSUME NEW r \in RunIds, runs[r] # Nobody PROVE runs'[r] = runs[r]
  BY <1>3, <1>4, <1>9
<1>10. ASSUME NEW v \in Workspaces, NEW j \in DOMAIN events'[v], events'[v][j].run # NoRun
       PROVE  /\ runs'[events'[v][j].run] = events'[v][j].by
              /\ \E i \in DOMAIN events'[v] :
                   i <= j /\ CreatedAt(events'[v], events'[v][j].run, events'[v][j].by, i)
  <2>1. CASE j \in DOMAIN events[v]
    <3>1. events'[v][j] = events[v][j] /\ events[v][j] \in Event
      BY <1>5, <1>8, <2>1 DEF LogOK
    <3>2. events[v][j].run \in RunIds /\ events[v][j].by # Nobody
      BY <1>10, <3>1, ContextAssumption DEF Event
    <3>3. /\ runs[events[v][j].run] = events[v][j].by
          /\ \E i \in DOMAIN events[v] :
               i <= j /\ CreatedAt(events[v], events[v][j].run, events[v][j].by, i)
      BY <1>5, <1>10, <2>1, <3>1 DEF RunsOK
    <3>4. PICK i \in DOMAIN events[v] :
               i <= j /\ CreatedAt(events[v], events[v][j].run, events[v][j].by, i)
      BY <3>3
    <3>5. CreatedAt(events'[v], events'[v][j].run, events'[v][j].by, i)
      BY <1>8, <3>1, <3>4 DEF CreatedAt
    <3> QED BY <1>8, <1>9, <3>1, <3>2, <3>3, <3>4, <3>5
  <2>2. CASE j \notin DOMAIN events[v]
    <3>1. v = w /\ j \in h + 1 .. tx.head
      BY <1>1, <1>2, <2>2
    <3>2. events'[v][j].run = q.run /\ events'[v][j].by = q.by
      BY <1>1, <1>2, <3>1
    <3>3. CASE q.verb = "create"
      <4>1. j = h + 1 /\ CreatedAt(events'[v], q.run, q.by, j)
        BY <1>1, <1>2, <1>3, <3>1, <3>3 DEF CreatedAt
      <4>2. runs'[q.run] = q.by /\ j <= j
        BY <1>4, <1>6, <3>1, <3>3
      <4> QED BY <3>2, <4>1, <4>2
    <3>4. CASE q.verb = "work"
      <4>1. runs[q.run] = q.by /\ runs[q.run] # Nobody /\ q.run \in RunIds /\ v = Home[runs[q.run]]
        BY <1>3, <1>6, <3>1, <3>4, ContextAssumption
      <4>2. PICK i \in DOMAIN events[v] : CreatedAt(events[v], q.run, q.by, i)
        BY <1>5, <4>1 DEF RunsOK
      <4>3. i \in DOMAIN events'[v] /\ CreatedAt(events'[v], q.run, q.by, i)
        BY <1>8, <4>2 DEF CreatedAt
      <4>4. i <= j
        BY <1>1, <1>2, <3>1, <4>2
      <4> QED BY <1>9, <3>2, <4>1, <4>3, <4>4
    <3> QED BY <1>6, <1>10, <3>2, <3>3, <3>4
  <2> QED BY <2>1, <2>2
<1>11. ASSUME NEW r \in RunIds, runs'[r] # Nobody
       PROVE  /\ r \in drawn
              /\ \E i \in DOMAIN events'[Home[runs'[r]]] :
                   CreatedAt(events'[Home[runs'[r]]], r, runs'[r], i)
  <2>1. CASE runs[r] # Nobody
    <3>1. runs'[r] = runs[r] /\ Home[runs[r]] \in Workspaces
      BY <1>5, <1>9, <2>1, ContextAssumption DEF RunsOK
    <3>2. PICK i \in DOMAIN events[Home[runs[r]]] : CreatedAt(events[Home[runs[r]]], r, runs[r], i)
      BY <1>5, <2>1 DEF RunsOK
    <3>3. i \in DOMAIN events'[Home[runs[r]]] /\ CreatedAt(events'[Home[runs[r]]], r, runs[r], i)
      BY <1>8, <3>1, <3>2 DEF CreatedAt
    <3> QED BY <1>5, <2>1, <3>1, <3>3
  <2>2. CASE runs[r] = Nobody
    <3>1. q.verb = "create" /\ q.run = r /\ runs'[r] = q.by
      BY <1>4, <1>11, <2>2
    <3>2. h + 1 \in DOMAIN events'[w] /\ CreatedAt(events'[w], r, q.by, h + 1)
      BY <1>1, <1>2, <1>3, <3>1 DEF CreatedAt
    <3> QED BY <1>3, <1>6, <3>1, <3>2
  <2> QED BY <2>1, <2>2
<1>12. RunsOK(events', runs')
  BY <1>7, <1>10, <1>11 DEF RunsOK
<1> QED BY <1>11, <1>12

(* What a commit does to the gate: nothing, or the progress of one Workspace. *)
LEMMA GateStep ==
  ASSUME IInv, NEW s \in Sessions, Commit(s)
  PROVE  LET tx == sessions[s]
             w == tx.request.workspace
         IN  \/ ~Releases(s) /\ gate' = gate /\ GenerationAfter(s) = cursor[w].generation
             \/ /\ Releases(s) /\ tx.gateLock = "update"
                /\ gate.active /\ gate.epoch > 0 /\ ~gate.done[w] /\ w \in Workspaces
                /\ tx.opens <=> tx.finishes /\ LastToFinish(w)
                /\ gate' \in [active : BOOLEAN, epoch : 0 .. MaxRestores,
                              rotated : [Workspaces -> BOOLEAN], done : [Workspaces -> BOOLEAN]]
                /\ gate'.epoch = gate.epoch
                /\ gate'.active <=> ~tx.opens
                /\ gate'.done[w] <=> tx.finishes
                /\ gate'.rotated[w]
                /\ \A v \in Workspaces \ {w} :
                     gate'.done[v] = gate.done[v] /\ gate'.rotated[v] = gate.rotated[v]
                /\ GenerationAfter(s) = gate.epoch
<1> DEFINE tx == sessions[s]
           w == tx.request.workspace
           shut == ~tx.opens
<1>1. CASE ~Releases(s)
  BY <1>1 DEF Commit, GenerationAfter, Of
<1>2. CASE Releases(s)
  <2>1. tx \in Transaction /\ w \in Workspaces /\ DoneOK(tx, cursor[w].head)
        /\ RowsOK(tx, cursor[w].head) /\ cursor[w].head \in Nat /\ tx.rows # <<>>
        /\ tx.request.verb = "release"
    BY <1>2, Committable DEF Ready, Releases, Of
  <2>2. tx.head > cursor[w].head
    <3>1. CASE tx.head = cursor[w].head
      <4>1. cursor[w].head + 1 .. tx.head = {}
        BY <2>1, <3>1
      <4>2. tx.rows = <<>>
        BY <2>1, <4>1 DEF RowsOK
      <4> QED BY <2>1, <4>2
    <3> QED BY <2>1, <3>1 DEF RowsOK
  <2>3. /\ tx.gateLock = "update" /\ gate.active /\ gate.epoch > 0 /\ ~gate.done[w]
        /\ tx.opens <=> tx.finishes /\ LastToFinish(w)
    BY <2>1, <2>2 DEF DoneOK
  <2>4. tx.opens \in BOOLEAN /\ tx.finishes \in BOOLEAN /\ shut \in BOOLEAN
    BY <2>1 DEF Transaction
  <2>5. gate' = [gate EXCEPT !.rotated[w] = TRUE, !.done[w] = tx.finishes, !.active = shut]
    BY <1>2 DEF Commit, Of
  <2>6. gate \in [active : BOOLEAN, epoch : 0 .. MaxRestores,
                 rotated : [Workspaces -> BOOLEAN], done : [Workspaces -> BOOLEAN]]
    BY DEF IInv, GateOK
  <2>7. shut <=> ~tx.opens
    OBVIOUS
  <2> HIDE DEF shut
  <2>8. /\ gate' \in [active : BOOLEAN, epoch : 0 .. MaxRestores,
                      rotated : [Workspaces -> BOOLEAN], done : [Workspaces -> BOOLEAN]]
        /\ gate'.epoch = gate.epoch /\ gate'.active = shut
        /\ gate'.done[w] = tx.finishes /\ gate'.rotated[w] = TRUE
        /\ \A v \in Workspaces \ {w} :
             gate'.done[v] = gate.done[v] /\ gate'.rotated[v] = gate.rotated[v]
    BY <2>1, <2>4, <2>5, <2>6
  <2>9. GenerationAfter(s) = gate.epoch
    BY <1>2, <2>1 DEF GenerationAfter, Of, IInv, GateOK
  <2> QED BY <1>2, <2>1, <2>3, <2>7, <2>8, <2>9
<1> QED BY <1>1, <1>2

LEMMA GateAfter ==
  ASSUME IInv, NEW s \in Sessions, Commit(s)
  PROVE  GateOK'
<1> DEFINE tx == sessions[s]
           w == tx.request.workspace
<1>1. /\ w \in Workspaces /\ saved' = saved /\ cursor'[w].generation = GenerationAfter(s)
      /\ \A v \in Workspaces \ {w} : cursor'[v] = cursor[v]
  BY Committable, Logged DEF Ready, Commit
<1>2. GateOK
  BY DEF IInv
<1>3. CASE ~Releases(s)
  BY <1>1, <1>2, <1>3, GateStep DEF GateOK, GateNotStuck
<1>4. CASE Releases(s)
  <2>1. /\ gate.active /\ gate.epoch > 0 /\ ~gate.done[w]
        /\ tx.opens <=> tx.finishes /\ LastToFinish(w)
        /\ gate' \in [active : BOOLEAN, epoch : 0 .. MaxRestores,
                      rotated : [Workspaces -> BOOLEAN], done : [Workspaces -> BOOLEAN]]
        /\ gate'.epoch = gate.epoch
        /\ gate'.active <=> ~tx.opens
        /\ gate'.done[w] <=> tx.finishes
        /\ gate'.rotated[w]
        /\ \A v \in Workspaces \ {w} :
             gate'.done[v] = gate.done[v] /\ gate'.rotated[v] = gate.rotated[v]
        /\ GenerationAfter(s) = gate.epoch
    BY <1>4, GateStep
  <2> HIDE DEF tx, w
  <2>2. (\A v \in Workspaces : gate'.done[v]) <=> tx.opens
    BY <1>1, <2>1 DEF LastToFinish
  <2>3. \A v \in Workspaces :
          /\ gate'.done[v] => gate'.rotated[v]
          /\ gate'.rotated[v] => cursor'[v].generation = gate'.epoch
          /\ cursor'[v].generation <= gate'.epoch
          /\ saved'.cursor[v].generation <= gate'.epoch
    BY <1>1, <1>2, <2>1 DEF GateOK
  <2> QED BY <2>1, <2>2, <2>3 DEF GateOK, GateNotStuck
<1> QED BY <1>3, <1>4

(* The locks keep what the other transactions rely on. *)
LEMMA Untouched ==
  ASSUME IInv, NEW s \in Sessions, Commit(s), NEW t \in Sessions \ {s}
  PROVE  DraftOK(t)'
<1> DEFINE tx == sessions[s]
           q == tx.request
           other == sessions[t]
           p == other.request
           v == p.workspace
<1>1. /\ q \in Asks /\ q.workspace \in Workspaces /\ tx.step \in {"bound", "worked"}
      /\ q.verb = "create" => runs[q.run] = Nobody /\ q.run \in drawn
  BY Committable DEF Ready
<1>2. sessions'[t] = other /\ drawn' = drawn /\ DraftOK(t) /\ other \in Transaction
  BY DEF Commit, Now, IInv, SessionsOK
<1>3. /\ runs' = [r \in RunIds |-> IF q.verb = "create" /\ q.run = r THEN q.by ELSE runs[r]]
      /\ status' = [a \in Principals |->
                     IF q.verb = "revoke" /\ q.of = a THEN "revoked" ELSE status[a]]
  BY DEF Commit, Of
<1>4. CASE other.step = "idle"
  BY <1>2, <1>4 DEF DraftOK, Idle
<1>5. CASE other.step # "idle"
  <2>1. /\ p \in Asks /\ v \in Workspaces
        /\ p.verb \in {"work", "create"} =>
             p.by \in Principals /\ p.by # User /\ v = Home[p.by] /\ p.run \in RunIds
        /\ p.verb = "revoke" => p.of \in Principals
        /\ p.verb \in Verbs /\ (p.by # User => p.verb \in {"work", "create"})
    BY <1>2, <1>5, AskTyped DEF DraftOK, Request, Verbs
  <2>2. p.verb = "create" => p.run \in drawn /\ runs'[p.run] = Nobody
    <3>1. q.verb = "create" /\ p.verb = "create" => q.run # p.run
      BY <1>1, <1>5 DEF IInv, Exclusive, Of
    <3> QED BY <1>2, <1>3, <1>5, <2>1, <3>1 DEF DraftOK
  <2>3. CASE other.step = "waiting"
    BY <1>2, <2>1, <2>2, <2>3 DEF DraftOK
  <2>4. CASE other.step \in {"locked", "bound", "worked"}
    <3>1. v # q.workspace
      BY <1>1, <2>4 DEF IInv, Exclusive, Holds, Of
    <3>2. cursor'[v] = cursor[v]
      BY <2>1, <3>1, Logged
    <3>3. other.gateLock # "none" => gate' = gate
      BY GateStep DEF IInv, Exclusive
    <3>0. other' = other /\ p' = p /\ v' = v
      BY <1>2
    <3>4. ActsOK(other) => ActsOK(other)'
      <4> SUFFICES ASSUME ActsOK(other), p.by # User
                   PROVE  /\ ~gate'.active /\ status'[p.by] = "active"
                          /\ p.verb = "work" => runs'[p.run] = p.by
        BY <3>0 DEF ActsOK
      <4>1. /\ other.gateLock = "share" /\ ~gate.active /\ status[p.by] = "active"
            /\ p.verb = "work" => runs[p.run] = p.by
        BY DEF ActsOK
      <4>2. ~gate'.active
        BY <3>3, <4>1
      <4>3. q.verb = "revoke" => q.of # p.by
        BY <1>1, <2>1, <3>1, AskTyped
      <4>4. status'[p.by] = "active"
        BY <1>3, <2>1, <4>1, <4>3
      <4>5. p.verb = "work" => runs'[p.run] = p.by
        BY <1>1, <1>3, <2>1, <4>1, ContextAssumption
      <4> QED BY <4>2, <4>4, <4>5
    <3>5. DoneOK(other, cursor[v].head) => DoneOK(other, cursor[v].head)'
      <4>1. p.verb = "revoke" /\ status[p.of] = "revoked" => status'[p.of] = "revoked"
        BY <1>3, <2>1
      <4>2. CASE p.verb = "release"
        BY <3>0, <3>2, <3>3, <4>2, SMTT(30) DEF DoneOK, One, LastToFinish
      <4>3. CASE p.verb = "revoke"
        BY <3>0, <3>2, <4>1, <4>3, SMTT(30) DEF DoneOK, One
      <4>4. CASE p.verb \in {"work", "create"}
        BY <3>0, <3>2, <4>4 DEF DoneOK, One
      <4> QED BY <2>1, <4>2, <4>3, <4>4 DEF Verbs
    <3> HIDE DEF other, v
    <3>6. RowsOK(other, cursor[v].head) => RowsOK(other, cursor[v].head)'
      BY <3>0, <3>2 DEF RowsOK
    <3> QED BY <1>2, <2>1, <2>2, <2>4, <3>2, <3>4, <3>5, <3>6 DEF DraftOK, other, v
  <2> QED BY <1>2, <1>5, <2>3, <2>4 DEF Transaction, Steps
<1> QED BY <1>4, <1>5

LEMMA Committing ==
  ASSUME IInv, NEW s \in Sessions, Commit(s)
  PROVE  IInv'
<1>1. /\ saved' = saved /\ drawn' = drawn /\ sessions'[s] = Idle
      /\ sessions' \in [Sessions -> Transaction]
      /\ \A t \in Sessions \ {s} : sessions'[t] = sessions[t]
  BY IdleTyped DEF Commit, Now, IInv, SessionsOK
<1>2. BaseOK'
  <2>1. Base(cursor', events', status', runs') /\ \A r \in RunIds : runs'[r] # Nobody => r \in drawn'
    BY <1>1, Logged, StatusAfter, RunsAfter DEF Base
  <2>2. \A w \in Workspaces : cursor[w].head <= cursor'[w].head /\ cursor[w].head \in Nat /\ cursor'[w].head \in Nat
    <3>1. CursorOK(cursor) /\ CursorOK(cursor')
      BY Logged DEF IInv, BaseOK, Base
    <3>2. ASSUME NEW w \in Workspaces PROVE cursor[w].head <= cursor'[w].head
      <4>1. cursor'[w] = cursor[w] \/ cursor[w].head <= cursor'[w].head
        BY Logged
      <4> QED BY <3>1, <4>1 DEF CursorOK
    <3> QED BY <3>1, <3>2 DEF CursorOK
  <2>3. \A w \in Workspaces : saved.cursor[w].head <= cursor'[w].head
    <3>1. \A w \in Workspaces : saved.cursor[w].head <= cursor[w].head /\ saved.cursor[w].head \in Nat
      BY DEF IInv, BaseOK, Base, CursorOK
    <3> QED BY <2>2, <3>1
  <2> QED BY <1>1, <2>1, <2>3 DEF IInv, BaseOK
<1>3. SessionsOK'
  <2>1. DraftOK(s)'
    BY <1>1 DEF DraftOK, Idle
  <2> QED BY <1>1, <2>1, Untouched DEF SessionsOK
<1>4. Exclusive'
  BY <1>1 DEF IInv, Exclusive, Holds, Of, Idle
<1> QED BY <1>2, <1>3, <1>4, GateAfter DEF IInv

-----------------------------------------------------------------------------
(* Backup and restore *)

LEMMA BackingUp == IInv /\ Backup => IInv'
<1> SUFFICES ASSUME IInv, Backup PROVE IInv'
  OBVIOUS
<1>1. saved' = [cursor |-> cursor, events |-> events, status |-> status, runs |-> runs]
      /\ UNCHANGED <<cursor, events, status, runs, gate, sessions, drawn>>
  BY DEF Backup, Data
<1>2. BaseOK'
  <2>1. \A w \in Workspaces : saved'.cursor[w].head <= cursor'[w].head
    BY <1>1 DEF IInv, BaseOK, Base, CursorOK
  <2> QED BY <1>1, <2>1 DEF IInv, BaseOK
<1>3. GateOK'
  BY <1>1 DEF IInv, GateOK, GateNotStuck
<1>4. SessionsOK'
  <2>1. ASSUME NEW t \in Sessions PROVE DraftOK(t)'
    BY <1>1 DEF IInv, SessionsOK, DraftOK, RowsOK, ActsOK, DoneOK, One, LastToFinish
  <2> QED BY <1>1, <2>1 DEF IInv, SessionsOK
<1>5. Exclusive'
  BY <1>1 DEF IInv, Exclusive, Holds, Of
<1> QED BY <1>2, <1>3, <1>4, <1>5 DEF IInv

LEMMA Restoring == IInv /\ Restore => IInv'
<1> SUFFICES ASSUME IInv, Restore PROVE IInv'
  OBVIOUS
<1>1. /\ cursor' = saved.cursor /\ events' = saved.events
      /\ status' = saved.status /\ runs' = saved.runs
      /\ gate' = NewGate(gate.epoch + 1) /\ sessions' = [s \in Sessions |-> Idle]
      /\ UNCHANGED <<saved, drawn>> /\ gate.epoch < MaxRestores
  BY DEF Restore
<1>2. BaseOK'
  <2>1. \A w \in Workspaces : saved'.cursor[w].head <= cursor'[w].head
    BY <1>1 DEF IInv, BaseOK, Base, CursorOK
  <2> QED BY <1>1, <2>1 DEF IInv, BaseOK
<1>3. GateOK'
  <2>1. gate.epoch + 1 \in 0 .. MaxRestores /\ gate.epoch \in Nat
    BY <1>1, ContextAssumption DEF IInv, GateOK
  <2>2. \A w \in Workspaces : cursor'[w].generation <= gate'.epoch /\ saved'.cursor[w].generation <= gate'.epoch
    <3>1. \A w \in Workspaces : saved.cursor[w].generation <= gate.epoch /\ saved.cursor[w].generation \in Nat
      BY DEF IInv, GateOK, BaseOK, Base, CursorOK
    <3>2. gate'.epoch = gate.epoch + 1
      BY <1>1, <2>1, NewGateIs
    <3> QED BY <1>1, <2>1, <3>1, <3>2
  <2>3. /\ gate' \in [active : BOOLEAN, epoch : 0 .. MaxRestores,
                      rotated : [Workspaces -> BOOLEAN], done : [Workspaces -> BOOLEAN]]
        /\ \A w \in Workspaces : ~gate'.rotated[w] /\ ~gate'.done[w]
        /\ Workspaces # {} => gate'.active = TRUE
        /\ Workspaces = {} => gate'.active = FALSE
    <3>1. gate.epoch + 1 > 0
      BY <2>1
    <3>2. /\ Workspaces # {} => NewGate(gate.epoch + 1).active = TRUE
          /\ Workspaces = {} => NewGate(gate.epoch + 1).active = FALSE
      BY <2>1, <3>1, NewGateIs
    <3>3. /\ NewGate(gate.epoch + 1) \in [active : BOOLEAN, epoch : 0 .. MaxRestores,
                                         rotated : [Workspaces -> BOOLEAN], done : [Workspaces -> BOOLEAN]]
          /\ \A w \in Workspaces :
               NewGate(gate.epoch + 1).rotated[w] = FALSE /\ NewGate(gate.epoch + 1).done[w] = FALSE
      BY <2>1, NewGateIs
    <3> QED BY <1>1, <3>2, <3>3
  <2> QED BY <2>2, <2>3 DEF GateOK, GateNotStuck
<1>4. SessionsOK'
  BY <1>1, IdleTyped DEF SessionsOK, DraftOK, Idle
<1>5. Exclusive'
  BY <1>1 DEF Exclusive, Holds, Idle
<1> QED BY <1>2, <1>3, <1>4, <1>5 DEF IInv

-----------------------------------------------------------------------------
(* Theorems *)

LEMMA NextKeeps == IInv /\ [Next]_vars => IInv'
<1> SUFFICES ASSUME IInv, [Next]_vars PROVE IInv'
  OBVIOUS
<1>1. CASE UNCHANGED vars
  <2>1. BaseOK' /\ GateOK'
    BY <1>1 DEF vars, IInv, BaseOK, GateOK, GateNotStuck
  <2>2. ASSUME NEW t \in Sessions PROVE DraftOK(t)'
    BY <1>1, Kept DEF vars, Data, IInv, SessionsOK
  <2>3. Exclusive'
    BY <1>1 DEF vars, IInv, Exclusive, Holds, Of
  <2> QED BY <1>1, <2>1, <2>2, <2>3 DEF vars, IInv, SessionsOK
<1>2. ASSUME NEW s \in Sessions, NEW q \in Asks, Ask(s, q) PROVE IInv'
  BY <1>2, Asking
<1>3. ASSUME NEW s \in Sessions, NEW finishes \in BOOLEAN, Release(s, finishes) PROVE IInv'
  BY <1>3, Releasing
<1>4. ASSUME NEW s \in Sessions,
             Lock(s) \/ Bind(s) \/ Work(s) \/ Create(s) \/ Revoke(s) \/ Commit(s) \/ Abort(s)
      PROVE  IInv'
  BY <1>4, Locking, BindingRun, Working, Creating, Revoking, Committing, Aborting
<1>5. CASE Backup \/ Restore
  BY <1>5, BackingUp, Restoring
<1> QED BY <1>1, <1>2, <1>3, <1>4, <1>5 DEF Next

LEMMA Invariance == Spec => []IInv
BY Beginning, NextKeeps, PTL DEF Spec

LEMMA Typed == IInv => TypeOK
<1> SUFFICES ASSUME IInv PROVE TypeOK
  OBVIOUS
<1>1. cursor \in [Workspaces -> [head : 0 .. MaxHead, generation : 0 .. MaxRestores]]
  <2>1. ASSUME NEW w \in Workspaces
        PROVE  cursor[w] \in [head : 0 .. MaxHead, generation : 0 .. MaxRestores]
    <3>1. /\ cursor[w] \in [head : 0 .. MaxHead, generation : Nat]
          /\ cursor[w].generation <= gate.epoch /\ gate.epoch \in 0 .. MaxRestores
      BY DEF IInv, BaseOK, Base, CursorOK, GateOK
    <3>2. cursor[w].generation \in 0 .. MaxRestores
      BY <3>1, ContextAssumption
    <3> QED BY <3>1, <3>2
  <2> QED BY <2>1 DEF IInv, BaseOK, Base, CursorOK
<1>2. DOMAIN events = Workspaces /\ \A w \in Workspaces : IsRows(events[w])
  <2>1. ASSUME NEW w \in Workspaces PROVE IsRows(events[w])
    <3>1. cursor[w].head \in 0 .. MaxHead /\ events[w] \in [1 .. cursor[w].head -> Event]
      BY DEF IInv, BaseOK, Base, CursorOK, LogOK
    <3>2. 1 .. cursor[w].head \subseteq Positions
      BY <3>1, ContextAssumption DEF Positions
    <3> QED BY <3>1, <3>2 DEF IsRows
  <2> QED BY <2>1 DEF IInv, BaseOK, Base, LogOK
<1>3. /\ status \in [Principals -> {"active", "revoked"}]
      /\ runs \in [RunIds -> Principals \cup {Nobody}]
      /\ drawn \subseteq RunIds
      /\ gate \in [active : BOOLEAN, epoch : 0 .. MaxRestores,
                   rotated : [Workspaces -> BOOLEAN], done : [Workspaces -> BOOLEAN]]
  BY DEF IInv, BaseOK, Base, StatusOK, RunsOK, GateOK
<1>4. ASSUME NEW s \in Sessions
      PROVE  /\ sessions[s].step \in Steps /\ sessions[s].request \in Request \cup {NoRequest}
             /\ sessions[s].head \in 0 .. MaxHead /\ IsRows(sessions[s].rows)
             /\ sessions[s].gateLock \in {"none", "share", "update"}
             /\ sessions[s].finishes \in BOOLEAN /\ sessions[s].opens \in BOOLEAN
  <2>1. sessions[s] \in Transaction
    BY DEF IInv, SessionsOK
  <2>2. IsRows(sessions[s].rows)
    BY <2>1 DEF Transaction, IsRows
  <2> QED BY <2>1, <2>2 DEF Transaction
<1>5. DOMAIN sessions = Sessions
  BY DEF IInv, SessionsOK
<1> QED BY <1>1, <1>2, <1>3, <1>4, <1>5 DEF TypeOK

(* The variables keep their types. *)
THEOREM TypeCorrect == Spec => []TypeOK
BY Invariance, Typed, PTL

(* The log of every Workspace can be read as a history (LogSound).         *)
THEOREM HistorySound == Spec => []LogSound
<1>1. IInv => LogSound
  <2> SUFFICES ASSUME IInv PROVE LogSound
    OBVIOUS
  <2>1. Gapless
    BY DEF IInv, BaseOK, Base, LogOK, Gapless
  <2>2. RevocationFinal
    BY DEF IInv, BaseOK, Base, StatusOK, RevokedAt, RevocationFinal
  <2>3. RunsPrecede
    <3> SUFFICES ASSUME NEW w \in Workspaces, NEW j \in DOMAIN events[w], events[w][j].run # NoRun
                 PROVE  /\ runs[events[w][j].run] = events[w][j].by
                        /\ \E i \in 1 .. j : CreatedAt(events[w], events[w][j].run, events[w][j].by, i)
      BY DEF RunsPrecede, CreatedAt
    <3>1. /\ runs[events[w][j].run] = events[w][j].by
          /\ \E i \in DOMAIN events[w] :
               i <= j /\ CreatedAt(events[w], events[w][j].run, events[w][j].by, i)
      BY DEF IInv, BaseOK, Base, RunsOK
    <3>2. DOMAIN events[w] = 1 .. cursor[w].head /\ cursor[w].head \in Nat
      BY DEF IInv, BaseOK, Base, LogOK, CursorOK
    <3> QED BY <3>1, <3>2
  <2> QED BY <2>1, <2>2, <2>3 DEF LogSound
<1> QED BY <1>1, Invariance, PTL

(* Once every Workspace is released the gate is open (GateNotStuck). *)
THEOREM GateOpens == Spec => []GateNotStuck
<1>1. IInv => GateNotStuck
  BY DEF IInv, GateOK
<1> QED BY <1>1, Invariance, PTL

(* After a restore only Users write to a Workspace that is not released    *)
(* yet: a transaction of a Principal holds the open gate in share mode.    *)
THEOREM QuietAfterRestore == Spec => RestoredQuiet
<1> DEFINE Quiet == \A w \in Workspaces : gate.epoch > 0 /\ ~gate.done[w] =>
                      \A i \in DOMAIN events'[w] \ DOMAIN events[w] : events'[w][i].by = User
<1>1. IInv /\ [Next]_vars => [Quiet]_vars
  <2> SUFFICES ASSUME IInv, Next, NEW w \in Workspaces, gate.epoch > 0, ~gate.done[w],
                      NEW i \in DOMAIN events'[w] \ DOMAIN events[w]
               PROVE  events'[w][i].by = User
    BY DEF Quiet
  <2>1. CASE events' = events
    BY <2>1
  <2>2. ASSUME NEW s \in Sessions, Commit(s) PROVE events'[w][i].by = User
    <3> DEFINE tx == sessions[s]
               q == tx.request
    <3>1. /\ ActsOK(tx) /\ q \in Asks
          /\ \A j \in DOMAIN tx.rows : tx.rows[j].by = q.by
      BY <2>2, Committable DEF Ready, RowsOK
    <3>2. w = q.workspace
      BY <2>2, Logged
    <3>3. /\ DOMAIN events'[w] = 1 .. tx.head /\ DOMAIN events[w] = 1 .. cursor[w].head
          /\ DOMAIN tx.rows = cursor[w].head + 1 .. tx.head
          /\ \A j \in DOMAIN tx.rows : events'[w][j] = tx.rows[j]
      BY <2>2, <3>2, Logged
    <3>4. cursor[w].head \in Nat /\ tx.head \in Nat
      BY <2>2, <3>2, Committable DEF Ready, RowsOK
    <3>5. i \in DOMAIN tx.rows
      BY <3>3, <3>4
    <3>6. gate.active
      BY DEF IInv, GateOK
    <3>7. q.by = User
      BY <3>1, <3>6 DEF ActsOK
    <3> QED BY <3>1, <3>3, <3>5, <3>7
  <2>3. CASE Restore
    <3>1. /\ DOMAIN saved.events[w] = 1 .. saved.cursor[w].head
          /\ DOMAIN events[w] = 1 .. cursor[w].head
          /\ saved.cursor[w].head <= cursor[w].head
          /\ saved.cursor[w].head \in Nat /\ cursor[w].head \in Nat
      BY DEF IInv, BaseOK, Base, LogOK, CursorOK
    <3> QED BY <2>3, <3>1 DEF Restore
  <2> QED BY <2>1, <2>2, <2>3
        DEF Next, Ask, Lock, Bind, Work, Create, Revoke, Release, Abort, Backup, Data
<1>2. Spec => [][Quiet]_vars
  BY <1>1, Invariance, PTL DEF Spec
<1> QED BY <1>2 DEF RestoredQuiet

-----------------------------------------------------------------------------
(* The refinement of AuditTrail *)

LEMMA TrailBegins == Init => \A w \in Workspaces : Trail(w)!TrailInit
<1> SUFFICES ASSUME Init, NEW w \in Workspaces PROVE Trail(w)!TrailInit
  OBVIOUS
<1>1. /\ cursor[w].head = 0 /\ cursor[w].generation = 0 /\ saved.cursor[w].head = 0
      /\ saved.cursor[w].generation = 0
  BY DEF Init
<1>2. gate.active = FALSE /\ gate.epoch = 0
  <2>1. 0 \in 0 .. MaxRestores
    BY ContextAssumption
  <2> QED BY <2>1, NewGateIs DEF Init
<1>3. 1 .. 0 = {}
  OBVIOUS
<1> QED BY <1>1, <1>2, <1>3 DEF Trail!TrailInit

(* A longer sequence with the same beginning is the shorter one, extended. *)
Begins(f, g, m) == \A i \in 1 .. m : g[i] = f[i]

Extends(f, g, m, n) ==
  /\ Len(f) = m /\ Len(g) = n /\ g = f \o SubSeq(g, m + 1, n)
  /\ m < n => SubSeq(g, m + 1, n) # <<>>

LEMMA Extended ==
  ASSUME NEW S, NEW m \in Nat, NEW n \in Nat, m <= n,
         NEW f \in [1 .. m -> S], NEW g \in [1 .. n -> S], Begins(f, g, m)
  PROVE  Extends(f, g, m, n)
<1>1. f \in Seq(S) /\ g \in Seq(S) /\ Len(f) = m /\ Len(g) = n
  OBVIOUS
<1> DEFINE h == SubSeq(g, m + 1, n)
<1>2. h \in Seq(S) /\ Len(h) = n - m /\ \A i \in 1 .. n - m : h[i] = g[m + i]
  <2>1. \A i \in m + 1 .. n : g[i] \in S
    OBVIOUS
  <2>2. /\ h \in Seq(S) /\ Len(h) = IF m + 1 <= n THEN n - (m + 1) + 1 ELSE 0
        /\ \A i \in 1 .. n - (m + 1) + 1 : h[i] = g[m + 1 + i - 1]
    BY <2>1, SubSeqProperties
  <2>3. n - (m + 1) + 1 = n - m /\ \A i \in Nat : m + 1 + i - 1 = m + i
    OBVIOUS
  <2>4. Len(h) = n - m
    BY <2>2
  <2>5. ASSUME NEW i \in 1 .. n - m PROVE h[i] = g[m + i]
    BY <2>2, <2>3
  <2> QED BY <2>2, <2>4, <2>5
<1> HIDE DEF h
<1>3. f \o h \in Seq(S) /\ Len(f \o h) = n
  <2>1. f \o h \in Seq(S) /\ Len(f \o h) = Len(f) + Len(h)
    BY <1>1, <1>2, ConcatProperties
  <2> QED BY <1>1, <1>2, <2>1
<1>4. ASSUME NEW i \in 1 .. n PROVE (f \o h)[i] = g[i]
  <2>1. CASE i \in 1 .. m
    BY <1>1, <1>2, <2>1 DEF Begins
  <2>2. CASE i \in m + 1 .. n
    <3> DEFINE k == i - m
    <3>1. k \in 1 .. n - m /\ m + k = i
      BY <2>2
    <3>2. (f \o h)[i] = h[k]
      BY <1>1, <1>2, <2>2, ConcatProperties
    <3> HIDE DEF k
    <3>3. h[k] = g[m + k]
      BY <1>2, <3>1
    <3> QED BY <3>1, <3>2, <3>3
  <2>3. i \in 1 .. m \/ i \in m + 1 .. n
    OBVIOUS
  <2> QED BY <2>1, <2>2, <2>3
<1>5. g = f \o h
  BY <1>1, <1>3, <1>4
<1>6. m < n => h # <<>>
  BY <1>2
<1> QED BY <1>1, <1>5, <1>6 DEF h, Extends

LEMMA TrailStays ==
  ASSUME NEW w \in Workspaces, UNCHANGED <<cursor, events, gate, saved>>
  PROVE  [Trail(w)!TrailNext]_(Trail(w)!trail)
BY DEF Trail!trail

LEMMA IsSequence ==
  ASSUME NEW S, NEW m \in Nat, NEW f \in [1 .. m -> S]
  PROVE  f \in Seq(S)
OBVIOUS

(* What a reader sees of Workspace w, and of its backup *)
Seen(w) == [i \in 1 .. cursor[w].head |-> events[w][i]]
Stored(w) == [i \in 1 .. saved.cursor[w].head |-> saved.events[w][i]]

LEMMA TrailTyped ==
  ASSUME IInv, NEW w \in Workspaces
  PROVE  /\ Trail(w)!TrailTypeOK
         /\ Seen(w) = events[w] /\ Stored(w) = saved.events[w]
         /\ cursor[w].head \in Nat /\ Seen(w) \in [1 .. cursor[w].head -> Event]
<1>1. /\ cursor[w].head \in Nat /\ cursor[w].generation \in Nat /\ cursor[w].generation <= gate.epoch
      /\ saved.cursor[w].head \in Nat /\ saved.cursor[w].generation \in Nat
      /\ saved.cursor[w].generation <= gate.epoch
      /\ gate.epoch \in Nat /\ gate.active \in BOOLEAN
  BY DEF IInv, BaseOK, Base, CursorOK, GateOK
<1>2. /\ events[w] \in [1 .. cursor[w].head -> Event]
      /\ saved.events[w] \in [1 .. saved.cursor[w].head -> Event]
  BY DEF IInv, BaseOK, Base, LogOK
<1>3. Seen(w) = events[w] /\ Stored(w) = saved.events[w]
  BY <1>2 DEF Seen, Stored
<1>4. Seen(w) \in Seq(Event) /\ Stored(w) \in Seq(Event)
  BY <1>1, <1>2, <1>3, IsSequence
<1>5. cursor[w].generation \in 0 .. gate.epoch /\ saved.cursor[w].generation \in 0 .. gate.epoch
  BY <1>1
<1> QED BY <1>1, <1>2, <1>3, <1>4, <1>5 DEF Trail!TrailTypeOK, Seen, Stored

Readable == \A w \in Workspaces : Trail(w)!TrailTypeOK

LEMMA TrailReadable == IInv => Readable
BY TrailTyped DEF Readable

LEMMA TrailBackup ==
  ASSUME IInv, IInv', NEW w \in Workspaces, Backup
  PROVE  Trail(w)!TrailNext
<1>1. saved'.cursor = cursor /\ saved'.events = events /\ UNCHANGED <<cursor, events, gate>>
  BY DEF Backup, Data
<1>2. Trail(w)!TrailTypeOK'
  <2>1. Readable'
    BY TrailReadable, PTL
  <2> QED BY <2>1 DEF Readable
<1>3. Trail(w)!Backup
  BY <1>1 DEF Trail!Backup
<1> QED BY <1>2, <1>3 DEF Trail!TrailNext

LEMMA TrailRestore ==
  ASSUME IInv, IInv', NEW w \in Workspaces, Restore
  PROVE  Trail(w)!TrailNext
<1>1. /\ cursor' = saved.cursor /\ events' = saved.events /\ saved' = saved
      /\ gate' = NewGate(gate.epoch + 1)
  BY DEF Restore
<1>2. gate.epoch + 1 \in 0 .. MaxRestores /\ gate.epoch + 1 > 0
  BY ContextAssumption DEF IInv, GateOK, Restore
<1>3. gate'.active = TRUE /\ gate'.epoch = gate.epoch + 1
  BY <1>1, <1>2, NewGateIs
<1>4. Trail(w)!TrailTypeOK'
  <2>1. Readable'
    BY TrailReadable, PTL
  <2> QED BY <2>1 DEF Readable
<1>5. Trail(w)!Restore
  BY <1>1, <1>3 DEF Trail!Restore
<1> QED BY <1>4, <1>5 DEF Trail!TrailNext

(* A commit extends the log of its Workspace, and if it finishes the last  *)
(* Workspace it opens the gate to the readers of every other.              *)
LEMMA TrailCommit ==
  ASSUME IInv, IInv', NEW w \in Workspaces, NEW s \in Sessions, Commit(s)
  PROVE  [Trail(w)!TrailNext]_(Trail(w)!trail)
<1> DEFINE tx == sessions[s]
           v == tx.request.workspace
           added == SubSeq(events'[w], Len(events[w]) + 1, Len(events'[w]))
<1>1. Trail(w)!TrailTypeOK'
  <2>1. Readable'
    BY TrailReadable, PTL
  <2> QED BY <2>1 DEF Readable
<1>2. /\ Seen(w) = events[w] /\ Seen(w)' = events'[w] /\ saved' = saved
      /\ cursor[w].head \in Nat /\ cursor'[w].head \in Nat
      /\ events[w] \in [1 .. cursor[w].head -> Event]
      /\ events'[w] \in [1 .. cursor'[w].head -> Event]
  <2>1. /\ cursor[w].head \in Nat /\ cursor'[w].head \in Nat
        /\ events[w] \in [1 .. cursor[w].head -> Event]
        /\ events'[w] \in [1 .. cursor'[w].head -> Event]
    BY DEF IInv, BaseOK, Base, CursorOK, LogOK
  <2>2. Seen(w) = events[w] /\ Seen(w)' = events'[w]
    BY <2>1 DEF Seen
  <2> QED BY <2>1, <2>2 DEF Commit
<1>3. /\ cursor[w].head <= cursor'[w].head
      /\ \A i \in 1 .. cursor[w].head : events'[w][i] = events[w][i]
  <2>1. CASE w = v
    BY <2>1, Logged
  <2>2. CASE w # v
    BY <1>2, <2>2, Logged
  <2> QED BY <2>1, <2>2
<1>4. /\ events'[w] = events[w] \o added
      /\ cursor[w].head < cursor'[w].head => added # <<>>
  <2>1. /\ events'[w] = events[w] \o SubSeq(events'[w], Len(events[w]) + 1, Len(events'[w]))
        /\ cursor[w].head < cursor'[w].head => SubSeq(events'[w], Len(events[w]) + 1, Len(events'[w])) # <<>>
    <3> DEFINE f == events[w]
               g == events'[w]
               m == cursor[w].head
               n == cursor'[w].head
    <3>1. m \in Nat /\ n \in Nat /\ m <= n /\ f \in [1 .. m -> Event] /\ g \in [1 .. n -> Event]
          /\ Begins(f, g, m)
      BY <1>2, <1>3 DEF Begins
    <3> HIDE DEF f, g, m, n
    <3>2. Extends(f, g, m, n)
      BY ONLY <3>1, Extended
    <3>3. g = f \o SubSeq(g, Len(f) + 1, Len(g)) /\ (m < n => SubSeq(g, Len(f) + 1, Len(g)) # <<>>)
      BY ONLY <3>1, <3>2 DEF Extends
    <3> QED BY <3>3 DEF f, g, m, n
  <2> QED BY <2>1
<1>5. CASE Releases(s)
  <2>1. /\ gate.active /\ gate.epoch > 0 /\ ~gate.done[v]
        /\ tx.opens <=> tx.finishes /\ LastToFinish(v)
        /\ gate' \in [active : BOOLEAN, epoch : 0 .. MaxRestores,
                      rotated : [Workspaces -> BOOLEAN], done : [Workspaces -> BOOLEAN]]
        /\ gate'.epoch = gate.epoch
        /\ gate'.active <=> ~tx.opens
        /\ GenerationAfter(s) = gate.epoch
    BY <1>5, GateStep
  <2> DEFINE opens == ~gate'.active
  <2>2. opens \in BOOLEAN /\ gate'.active = ~opens
    BY <2>1
  <2>3. cursor'[w].generation = gate.epoch \/ (cursor'[w] = cursor[w] /\ events'[w] = events[w] /\ gate'.active = gate.active)
    <3>1. CASE w = v
      BY <2>1, <3>1, Logged
    <3>2. CASE w # v
      <4>1. cursor'[w] = cursor[w] /\ events'[w] = events[w]
        BY <3>2, Logged
      <4>2. CASE tx.opens
        <5>1. gate.rotated[w]
          BY <2>1, <3>2, <4>2 DEF LastToFinish, IInv, GateOK
        <5> QED BY <4>1, <5>1 DEF IInv, GateOK
      <4>3. CASE ~tx.opens
        <5>1. gate.active \in BOOLEAN /\ gate'.active \in BOOLEAN
          BY <2>1 DEF IInv, GateOK
        <5> QED BY <2>1, <4>1, <4>3, <5>1
      <4> QED BY <4>2, <4>3
    <3> QED BY <3>1, <3>2
  <2>4. CASE cursor'[w].generation = gate.epoch
    <3>1. added = Trail(w)!Added
      BY <1>2 DEF Trail!Added, Seen
    <3> HIDE DEF added, opens
    <3>2. /\ gate.active /\ cursor'[w].generation = gate.epoch /\ opens \in BOOLEAN
          /\ gate'.active = ~opens /\ gate'.epoch = gate.epoch /\ saved' = saved
          /\ Seen(w)' = Seen(w) \o Trail(w)!Added
      BY <1>2, <1>4, <2>1, <2>2, <2>4, <3>1
    <3>3. \E o \in BOOLEAN : Trail(w)!Release(Trail(w)!Added, o)
      BY <3>2 DEF Trail!Release, Seen
    <3> QED BY <1>1, <3>3 DEF Trail!TrailNext
  <2>5. CASE cursor'[w] = cursor[w] /\ events'[w] = events[w] /\ gate'.active = gate.active
    BY <1>2, <2>1, <2>5 DEF Trail!trail
  <2> QED BY <2>3, <2>4, <2>5
<1>6. CASE ~Releases(s)
  <2>1. gate' = gate /\ GenerationAfter(s) = cursor[v].generation
    BY <1>6, GateStep
  <2>2. cursor'[w].generation = cursor[w].generation
    BY <2>1, Logged
  <2>3. CASE cursor[w].head < cursor'[w].head
    <3>1. added = Trail(w)!Added
      BY <1>2 DEF Trail!Added, Seen
    <3> HIDE DEF added
    <3>2. Trail(w)!Grow(Trail(w)!Added)
      BY <1>2, <1>4, <2>1, <2>2, <2>3, <3>1 DEF Trail!Grow, Seen
    <3> QED BY <1>1, <3>2 DEF Trail!TrailNext
  <2>4. CASE cursor[w].head = cursor'[w].head
    <3>1. events'[w] = events[w]
      BY <1>2, <1>3, <2>4
    <3> QED BY <1>2, <2>1, <2>2, <2>4, <3>1 DEF Trail!trail
  <2> QED BY <1>2, <1>3, <2>3, <2>4
<1> QED BY <1>5, <1>6

(* What readers are promised of each log (AuditTrail) is kept by the       *)
(* transactions, backups and restores: it grows by whole transactions, and *)
(* has a generation of its own before a restored database is open.         *)
THEOREM TrailHolds == Spec => TrailKept
<1> DEFINE Step == \A w \in Workspaces : [Trail(w)!TrailNext]_(Trail(w)!trail)
<1>1. IInv /\ IInv' /\ [Next]_vars => [Step]_vars
  <2> SUFFICES ASSUME IInv, IInv', Next, NEW w \in Workspaces
               PROVE  [Trail(w)!TrailNext]_(Trail(w)!trail)
    OBVIOUS
  <2>1. CASE UNCHANGED <<cursor, events, gate, saved>>
    BY <2>1, TrailStays
  <2>2. ASSUME NEW s \in Sessions, Commit(s) PROVE [Trail(w)!TrailNext]_(Trail(w)!trail)
    BY <2>2, TrailCommit
  <2>3. CASE Backup \/ Restore
    BY <2>3, TrailBackup, TrailRestore
  <2> QED BY <2>1, <2>2, <2>3
        DEF Next, Ask, Lock, Bind, Work, Create, Revoke, Release, Abort, Data
<1>2. Spec => [][Step]_vars
  BY <1>1, Invariance, PTL DEF Spec
<1>3. Spec => \A w \in Workspaces : Trail(w)!TrailInit
  BY TrailBegins DEF Spec
<1> QED BY <1>2, <1>3 DEF TrailKept
-----------------------------------------------------------------------------
(* StorageBinding, as MCRunContext has it (Binding)                        *)

StoreKinds == {"filesystem", "s3"}
Intent == [gen : Nat, backend : StoreKinds \cup {"none"}, phase : {"none", "verifying", "ready"},
           kind : {"none", "initialize", "reconcile"}, checkpoint : Checkpoints \cup {"none"},
           retain : BOOLEAN, digest : SUBSET Bytes]
Database == [binding : Intent, rows : SUBSET Bytes, retained : SUBSET Bytes, used : BOOLEAN,
             place : Stores \cup {Nobody}]
ServerState == {Binding!Off} \cup [step : {"verify"}, store : Stores, snap : Database]
                             \cup [step : {"serving"}, store : Stores, snap : {Binding!NoBinding}]
OpSteps == {"begun", "intended", "published", "proven"}
OpState == {Binding!OpIdle} \cup [step : OpSteps, command : Binding!Commands, store : Stores]
Flight == [by : Servers \cup {Nobody}, object : Bytes, store : Stores, there : BOOLEAN]

StoreTypes ==
  /\ backend \in [Stores -> StoreKinds] /\ db \in Database
  /\ marker \in [Stores -> Nat] /\ objects \in [Stores -> SUBSET Bytes] /\ gens \in Nat
  /\ bindingLease \in Servers \cup {Operator, Nobody}
  /\ server \in [Servers -> ServerState] /\ op \in OpState
  /\ flying \subseteq Flight /\ late \subseteq [store : Stores, gen : Nat] /\ torn \in BOOLEAN
  /\ capture \in [db : Database, marker : [Stores -> Nat], objects : [Stores -> SUBSET Bytes]]

(* While the operator's command runs nothing else does. *)
Alone == /\ bindingLease = Operator <=> op.step # "idle"
         /\ op.step # "idle" => Binding!Fenced

(* A binding belongs to one store, whatever was restored. *)
DbAt(d, home, n) ==
  IF d.binding.phase = "none" THEN d.binding = Binding!NoBinding
  ELSE /\ d.binding.gen \in 1 .. n /\ d.place \in Stores /\ home[d.binding.gen] = d.place
       /\ backend[d.place] = d.binding.backend
MarkersAt(m, home, n) == \A st \in Stores : m[st] # 0 => m[st] \in 1 .. n /\ home[m[st]] = st
Housed ==
  \E home \in [1 .. gens -> Stores] :
    /\ DbAt(db, home, gens) /\ DbAt(capture.db, home, gens)
    /\ MarkersAt(marker, home, gens) /\ MarkersAt(capture.marker, home, gens)
LateAt == \A m \in late : db.binding.phase # "none" /\ m.gen = db.binding.gen /\ m.store = db.place

(* A store that its database is bound to and that is complete *)
Whole(st) == db.binding.phase = "ready" /\ marker[st] = db.binding.gen /\ Binding!Complete(db, st)
Served == \A s \in Servers : Binding!Serving(s) => Whole(server[s].store)

(* What is on its way is nowhere yet and one server's. *)
Sent ==
  /\ \A f \in flying :
       /\ f.object \notin Binding!Expected(db)
       /\ IF f.by = Nobody THEN ~f.there ELSE Binding!Serving(f.by) /\ server[f.by].store = f.store
       /\ f.there => f.object \in objects[f.store]
  /\ \A f, g \in flying : f.object = g.object => f = g
  /\ flying # {} => db.binding.phase = "ready"

(* What a server that holds the lease has read is so, or a server before   *)
(* it serves the same store still and sees to it.                          *)
Checked ==
  \A s \in Servers : server[s].step = "verify" /\ Binding!Owned(s) =>
    /\ server[s].snap.binding = db.binding
    /\ server[s].snap = db \/ \E st \in Stores : Whole(st)

(* What a repeated command has to find *)
Matching(d, m, ob) ==
  d.binding.phase = "verifying" =>
    /\ m[d.place] \in {0, d.binding.gen}
    /\ ob[d.place] = d.binding.digest /\ Binding!Expected(d) = d.binding.digest
Underway ==
  /\ op.step = "begun" /\ db.binding.phase = "verifying" => op.store = db.place
  /\ op.step \in {"intended", "published", "proven"} => db.binding.phase = "verifying" /\ op.store = db.place
  /\ op.step \in {"published", "proven"} => Matching(db, marker, objects)
(* A capture of an intent that does not match can only be restored: until  *)
(* then the database is torn from its store.                               *)
Captured ==
  \/ Matching(capture.db, capture.marker, capture.objects)
  \/ /\ torn /\ db = capture.db /\ objects = capture.objects
     /\ \A st \in Stores : capture.marker[st] # 0 => marker[st] = capture.marker[st]
IntentKept == ~torn => Matching(db, marker, objects)

StoreInv ==
  /\ StoreTypes /\ Alone /\ Housed /\ LateAt /\ Served /\ Sent /\ Checked
  /\ Underway /\ Captured /\ IntentKept

LEMMA BindingConstants ==
  /\ Operator \notin Servers /\ Nobody \notin Servers /\ Nobody # Operator
  /\ Backends \subseteq [Stores -> StoreKinds] /\ "none" \notin Checkpoints
BY BindingGiven DEF Binding!StorageAssumption, StoreKinds

LEMMA OffIsOff == Binding!Off.step = "off" /\ Binding!OpIdle.step = "idle" /\ Binding!None = 0
BY DEF Binding!Off, Binding!OpIdle, Binding!None

LEMMA NoBindingTyped == /\ Binding!NoBinding \in Intent /\ Binding!NoBinding.phase = "none"
                        /\ Binding!NoBinding.gen = 0
BY OffIsOff DEF Binding!NoBinding, Intent

LEMMA ServerIs ==
  ASSUME StoreTypes, NEW s \in Servers
  PROVE  /\ server[s].step \in {"off", "verify", "serving"}
         /\ server[s].step = "off" <=> server[s] = Binding!Off
         /\ server[s].step # "off" => server[s].store \in Stores
         /\ server[s].step = "verify" => server[s] \in [step : {"verify"}, store : Stores, snap : Database]
         /\ server[s].step = "serving" => server[s] \in [step : {"serving"}, store : Stores, snap : {Binding!NoBinding}]
<1>1. server[s] \in ServerState
  BY DEF StoreTypes
<1> QED BY <1>1, OffIsOff DEF ServerState

LEMMA OpIs ==
  ASSUME StoreTypes
  PROVE  /\ op.step \in {"idle"} \cup OpSteps
         /\ op.step = "idle" <=> op = Binding!OpIdle
         /\ op.step # "idle" =>
              /\ op \in [step : OpSteps, command : Binding!Commands, store : Stores]
              /\ op.store \in Stores /\ op.command \in Binding!Commands
BY OffIsOff DEF StoreTypes, OpState, OpSteps

LEMMA DbIs ==
  ASSUME NEW d \in Database
  PROVE  /\ d.binding \in Intent /\ d.rows \in SUBSET Bytes /\ d.retained \in SUBSET Bytes
         /\ d.used \in BOOLEAN /\ d.place \in Stores \cup {Nobody}
         /\ d.binding.gen \in Nat /\ d.binding.phase \in {"none", "verifying", "ready"}
         /\ d.binding.digest \in SUBSET Bytes /\ d.binding.backend \in StoreKinds \cup {"none"}
BY DEF Database, Intent

LEMMA DbRows ==
  ASSUME NEW d \in Database, NEW r \in SUBSET Bytes
  PROVE  /\ [d EXCEPT !.rows = r] \in Database
         /\ [d EXCEPT !.rows = r].binding = d.binding /\ [d EXCEPT !.rows = r].place = d.place
         /\ [d EXCEPT !.rows = r].retained = d.retained /\ [d EXCEPT !.rows = r].rows = r
BY DEF Database

LEMMA DbUsed ==
  ASSUME NEW d \in Database
  PROVE  /\ [d EXCEPT !.used = TRUE] \in Database
         /\ [d EXCEPT !.used = TRUE].binding = d.binding /\ [d EXCEPT !.used = TRUE].place = d.place
         /\ [d EXCEPT !.used = TRUE].retained = d.retained /\ [d EXCEPT !.used = TRUE].rows = d.rows
BY DEF Database

(* Only one store has the marker of the database's binding. *)
LEMMA OneStore ==
  ASSUME StoreTypes, Housed, NEW st \in Stores, db.binding.phase = "ready", marker[st] = db.binding.gen
  PROVE  st = db.place
<1>1. PICK home \in [1 .. gens -> Stores] : DbAt(db, home, gens) /\ MarkersAt(marker, home, gens)
  BY DEF Housed
<1>2. db.binding.gen \in 1 .. gens /\ home[db.binding.gen] = db.place
  BY <1>1 DEF DbAt
<1>3. gens \in Nat
  BY DEF StoreTypes
<1> QED BY <1>1, <1>2, <1>3 DEF MarkersAt

-----------------------------------------------------------------------------
(* Servers                                                                 *)

LEMMA SameHouse ==
  ASSUME StoreInv, UNCHANGED <<backend, marker, gens, capture>>, db'.binding = db.binding, db'.place = db.place
  PROVE  Housed'
<1>1. PICK home \in [1 .. gens -> Stores] :
        /\ DbAt(db, home, gens) /\ DbAt(capture.db, home, gens)
        /\ MarkersAt(marker, home, gens) /\ MarkersAt(capture.marker, home, gens)
  BY DEF StoreInv, Housed
<1>2. DbAt(db, home, gens)' /\ DbAt(capture.db, home, gens)'
  BY <1>1 DEF DbAt
<1>3. MarkersAt(marker, home, gens)' /\ MarkersAt(capture.marker, home, gens)'
  BY <1>1 DEF MarkersAt
<1> QED BY <1>2, <1>3 DEF Housed

(* What servers do leaves alone what a command has to find: they serve     *)
(* only while the binding is ready.                                        *)
LEMMA ServersOnly ==
  ASSUME StoreInv, UNCHANGED <<backend, marker, gens, op, late, capture, torn>>,
         db'.binding = db.binding, db'.place = db.place,
         UNCHANGED <<db, objects>> \/ db.binding.phase = "ready",
         op.step = "idle", bindingLease' # Operator
  PROVE  Alone' /\ Housed' /\ LateAt' /\ Underway' /\ Captured' /\ IntentKept'
<1>1. Alone'
  BY DEF Alone
<1>2. Housed'
  BY SameHouse
<1>3. LateAt'
  BY DEF StoreInv, LateAt
<1>4. Underway'
  BY DEF Underway
<1>5. Captured' /\ IntentKept'
  <2>1. CASE UNCHANGED <<db, objects>>
    BY <2>1 DEF StoreInv, Captured, IntentKept, Matching, Binding!Expected
  <2>2. CASE db.binding.phase = "ready"
    BY <2>2 DEF StoreInv, Captured, IntentKept, Matching
  <2> QED BY <2>1, <2>2
<1> QED BY <1>1, <1>2, <1>3, <1>4, <1>5

LEMMA NotAlone ==
  ASSUME StoreInv, (\E s \in Servers : server[s] # Binding!Off) \/ flying # {} \/ bindingLease = Nobody
  PROVE  op.step = "idle" /\ bindingLease # Operator
BY BindingConstants DEF StoreInv, Alone, Binding!Fenced

LEMMA StartServerKeeps ==
  ASSUME StoreInv, NEW s \in Servers, NEW st \in Stores, Binding!StartServer(s, st)
  PROVE  StoreInv'
<1>1. /\ server[s] = Binding!Off /\ bindingLease = Nobody /\ bindingLease' = s
      /\ server' = [server EXCEPT ![s] = [step |-> "verify", store |-> st, snap |-> db]]
      /\ UNCHANGED <<db, marker, objects, gens, op, flying, late, backend, capture, torn>>
  BY DEF Binding!StartServer, Binding!Takes, Binding!stores, Binding!rest
<1>2. StoreTypes /\ db \in Database /\ server \in [Servers -> ServerState]
  BY DEF StoreInv, StoreTypes
<1>3. [step |-> "verify", store |-> st, snap |-> db] \in ServerState
  BY <1>2 DEF ServerState
<1>4. server' \in [Servers -> ServerState]
  BY <1>1, <1>2, <1>3
<1>5. StoreTypes'
  BY <1>1, <1>2, <1>4 DEF StoreTypes
<1>6. op.step = "idle" /\ bindingLease' # Operator
  BY <1>1, NotAlone, BindingConstants
<1>7. Alone' /\ Housed' /\ LateAt' /\ Underway' /\ Captured' /\ IntentKept'
  BY <1>1, <1>6, ServersOnly
<1>8. \A t \in Servers : t # s => server'[t] = server[t]
  BY <1>1, <1>2
<1>9. server'[s].step = "verify" /\ server'[s].snap = db
  BY <1>1, <1>2
<1>10. Served'
  BY <1>1, <1>8, <1>9 DEF StoreInv, Served, Whole, Binding!Serving, Binding!Complete, Binding!Expected
<1>11. Sent'
  BY <1>1, <1>8, <1>9, OffIsOff DEF StoreInv, Sent, Binding!Serving, Binding!Expected
<1>12. Checked'
  BY <1>1, <1>8, <1>9 DEF Checked, Binding!Owned
<1> QED BY <1>5, <1>7, <1>10, <1>11, <1>12 DEF StoreInv

(* A server that holds the lease finds its store whole. *)
LEMMA ServeKeeps ==
  ASSUME StoreInv, NEW s \in Servers, Binding!Serve(s)
  PROVE  StoreInv'
<1> DEFINE st == server[s].store
           d == server[s].snap
<1>1. /\ server[s].step = "verify" /\ Binding!Bound(d, st) /\ bindingLease = s
      /\ server' = [server EXCEPT ![s].step = "serving", ![s].snap = Binding!NoBinding]
      /\ db' = [db EXCEPT !.used = TRUE]
      /\ UNCHANGED <<marker, objects, gens, op, flying, late, backend, capture, torn, bindingLease>>
  BY DEF Binding!Serve, Binding!Owned, Binding!stores, Binding!rest
<1>2. /\ StoreTypes /\ db \in Database /\ server \in [Servers -> ServerState]
      /\ server[s] \in [step : {"verify"}, store : Stores, snap : Database] /\ st \in Stores
  BY <1>1, ServerIs DEF StoreInv, StoreTypes
<1>3. /\ db' \in Database /\ db'.binding = db.binding /\ db'.place = db.place
      /\ db'.rows = db.rows /\ db'.retained = db.retained
  BY <1>1, <1>2, DbUsed
<1>4. /\ server' \in [Servers -> ServerState]
      /\ \A t \in Servers : t # s => server'[t] = server[t]
      /\ server'[s].step = "serving" /\ server'[s].store = st
  <2> DEFINE next == [[server[s] EXCEPT !.step = "serving"] EXCEPT !.snap = Binding!NoBinding]
  <2>1. /\ next \in [step : {"serving"}, store : Stores, snap : {Binding!NoBinding}]
        /\ next.step = "serving" /\ next.store = st
    BY <1>2
  <2>2. server' = [server EXCEPT ![s] = next]
    BY <1>1, <1>2
  <2>3. next \in ServerState
    BY <2>1 DEF ServerState
  <2> HIDE DEF next
  <2> QED BY <1>2, <2>1, <2>2, <2>3
<1>5. StoreTypes'
  BY <1>1, <1>2, <1>3, <1>4 DEF StoreTypes
<1>6. op.step = "idle" /\ bindingLease' # Operator
  BY <1>1, NotAlone, BindingConstants, OffIsOff
<1>7. /\ d.binding = db.binding /\ (d = db \/ \E x \in Stores : Whole(x))
      /\ d.binding.phase = "ready" /\ marker[st] = d.binding.gen /\ Binding!Complete(d, st)
  BY <1>1 DEF StoreInv, Checked, Binding!Owned, Binding!Bound, Binding!MarkerMatches
<1>8. Whole(st)
  <2>1. CASE d = db
    BY <1>7, <2>1 DEF Whole
  <2>2. ASSUME NEW x \in Stores, Whole(x) PROVE x = st
    BY <1>2, <1>7, <2>2, OneStore DEF StoreInv, Whole
  <2> QED BY <1>7, <2>1, <2>2
<1>9. Alone' /\ Housed' /\ LateAt' /\ Underway' /\ Captured' /\ IntentKept'
  BY <1>1, <1>3, <1>6, <1>7, ServersOnly
<1>10. \A x \in Stores : Whole(x) => Whole(x)'
  BY <1>1, <1>3 DEF Whole, Binding!Complete, Binding!Expected
<1>11. Served'
  BY <1>2, <1>4, <1>8, <1>10, ServerIs DEF StoreInv, Served, Binding!Serving
<1>12. Sent'
  <2>1. \A t \in Servers : Binding!Serving(t) => Binding!Serving(t)' /\ server'[t].store = server[t].store
    BY <1>4 DEF Binding!Serving
  <2> QED BY <1>1, <1>3, <1>2, <2>1 DEF StoreInv, Sent, Binding!Expected, StoreTypes, Flight
<1>13. Checked'
  BY <1>1, <1>4 DEF Checked, Binding!Owned
<1> QED BY <1>5, <1>9, <1>11, <1>12, <1>13 DEF StoreInv

(* A server that stops: nothing changes but what it had on its way. *)
LEMMA StopKeeps ==
  ASSUME StoreInv, NEW s \in Servers, server[s] # Binding!Off,
         server' = [server EXCEPT ![s] = Binding!Off],
         UNCHANGED <<backend, db, marker, objects, gens, op, late, capture, torn>>,
         bindingLease' \in {bindingLease, Nobody},
         flying' \subseteq Flight, Sent'
  PROVE  StoreInv'
<1>1. StoreTypes /\ server \in [Servers -> ServerState] /\ Binding!Off \in ServerState
  BY DEF StoreInv, StoreTypes, ServerState
<1>2. /\ server' \in [Servers -> ServerState]
      /\ \A t \in Servers : t # s => server'[t] = server[t]
      /\ server'[s].step = "off"
  BY <1>1, OffIsOff
<1>3. StoreTypes'
  BY <1>1, <1>2, BindingConstants DEF StoreTypes
<1>4. op.step = "idle" /\ bindingLease' # Operator
  BY NotAlone, BindingConstants
<1>5. Alone' /\ Housed' /\ LateAt' /\ Underway' /\ Captured' /\ IntentKept'
  BY <1>4, ServersOnly
<1>6. \A st \in Stores : Whole(st) => Whole(st)'
  BY DEF Whole, Binding!Complete, Binding!Expected
<1>7. Served'
  BY <1>1, <1>2, <1>6, ServerIs DEF StoreInv, Served, Binding!Serving
<1>8. Checked'
  BY <1>2, <1>6, BindingConstants DEF StoreInv, Checked, Binding!Owned
<1> QED BY <1>3, <1>5, <1>7, <1>8 DEF StoreInv

LEMMA RefuseKeeps ==
  ASSUME StoreInv, NEW s \in Servers, Binding!Refuse(s) \/ Binding!Shutdown(s)
  PROVE  StoreInv'
<1>1. /\ server[s].step \in {"verify", "serving"} /\ (Binding!Serving(s) => Binding!Mine(s) = {})
      /\ server' = [server EXCEPT ![s] = Binding!Off]
      /\ bindingLease' \in {bindingLease, Nobody}
      /\ UNCHANGED <<db, marker, objects, gens, op, flying, late, backend, capture, torn>>
  BY DEF Binding!Refuse, Binding!Shutdown, Binding!Serving, Binding!Releases, Binding!stores, Binding!rest
<1>2. \A t \in Servers : t # s => server'[t] = server[t]
  BY <1>1 DEF StoreInv, StoreTypes
<1>3. \A f \in flying : f.by # s
  <2>1. \A f \in flying : f.by = s => Binding!Serving(s)
    BY BindingConstants DEF StoreInv, Sent
  <2> QED BY <1>1, <2>1 DEF Binding!Mine
<1>4. flying \subseteq Flight
  BY DEF StoreInv, StoreTypes
<1>5. Sent'
  BY <1>1, <1>2, <1>3, <1>4 DEF StoreInv, Sent, Binding!Serving, Binding!Expected, Flight
<1> QED BY <1>1, <1>4, <1>5, StopKeeps, OffIsOff

LEMMA GoneKeeps ==
  ASSUME StoreInv, NEW s \in Servers, Binding!Crash(s) \/ Binding!Watch(s)
  PROVE  StoreInv'
<1> DEFINE Left == {g \in flying : g.by # s \/ (~g.there /\ backend[g.store] = "s3")}
           Orphan(f) == IF f.by = s THEN [f EXCEPT !.by = Nobody] ELSE f
<1>1. /\ server[s] # Binding!Off
      /\ server' = [server EXCEPT ![s] = Binding!Off]
      /\ flying' = {Orphan(f) : f \in Left}
      /\ bindingLease' \in {bindingLease, Nobody}
      /\ UNCHANGED <<db, marker, objects, gens, op, late, backend, capture, torn>>
  BY OffIsOff DEF Binding!Crash, Binding!Watch, Binding!Serving, Binding!Gone, Binding!Fault, Binding!Releases,
     Binding!stores, Binding!rest
<1>2. \A t \in Servers : t # s => server'[t] = server[t]
  BY <1>1 DEF StoreInv, StoreTypes
<1>3. flying \subseteq Flight
  BY DEF StoreInv, StoreTypes
<1>4. \A f \in Left :
        /\ f \in flying /\ Orphan(f) \in Flight
        /\ Orphan(f).object = f.object /\ Orphan(f).store = f.store /\ Orphan(f).there = f.there
        /\ Orphan(f).by = (IF f.by = s THEN Nobody ELSE f.by)
        /\ f.by = s => ~f.there
  BY <1>3 DEF Flight
<1> HIDE DEF Left, Orphan
<1>5. \A f \in Left :
        /\ Orphan(f).object \notin Binding!Expected(db)
        /\ IF Orphan(f).by = Nobody THEN ~Orphan(f).there
           ELSE Binding!Serving(Orphan(f).by)' /\ server'[Orphan(f).by].store = Orphan(f).store
        /\ Orphan(f).there => Orphan(f).object \in objects[Orphan(f).store]
  <2> SUFFICES ASSUME NEW f \in Left
               PROVE  /\ Orphan(f).object \notin Binding!Expected(db)
                      /\ IF Orphan(f).by = Nobody THEN ~Orphan(f).there
                         ELSE Binding!Serving(Orphan(f).by)' /\ server'[Orphan(f).by].store = Orphan(f).store
                      /\ Orphan(f).there => Orphan(f).object \in objects[Orphan(f).store]
    OBVIOUS
  <2>1. /\ f.object \notin Binding!Expected(db)
        /\ IF f.by = Nobody THEN ~f.there ELSE Binding!Serving(f.by) /\ server[f.by].store = f.store
        /\ f.there => f.object \in objects[f.store]
    BY <1>4 DEF StoreInv, Sent
  <2>2. CASE f.by = s
    BY <1>4, <2>1, <2>2
  <2>3. CASE f.by = Nobody
    BY <1>4, <2>1, <2>3, BindingConstants
  <2>4. CASE f.by # s /\ f.by # Nobody
    <3>1. f.by \in Servers /\ server'[f.by] = server[f.by]
      BY <1>2, <1>3, <1>4, <2>4 DEF Flight
    <3>2. Binding!Serving(f.by)' /\ server'[f.by].store = f.store
      BY <2>1, <2>4, <3>1 DEF Binding!Serving
    <3>3. Orphan(f).by = f.by
      BY <1>4, <2>4
    <3> QED BY <1>4, <2>1, <2>4, <3>2, <3>3
  <2> QED BY <2>2, <2>3, <2>4
<1>6. \A f, g \in Left : Orphan(f).object = Orphan(g).object => Orphan(f) = Orphan(g)
  <2>1. \A f, g \in flying : f.object = g.object => f = g
    BY DEF StoreInv, Sent
  <2> QED BY <1>4, <2>1
<1>7. flying' # {} => db.binding.phase = "ready"
  <2>1. flying' # {} => flying # {}
    BY <1>1, <1>4
  <2> QED BY <2>1 DEF StoreInv, Sent
<1>8. \A g \in flying' : \E f \in Left : g = Orphan(f)
  BY <1>1
<1>9. Sent'
  <2>1. \A g \in flying' : /\ g.object \notin Binding!Expected(db)'
                           /\ IF g.by = Nobody THEN ~g.there ELSE Binding!Serving(g.by)' /\ server'[g.by].store = g.store
                           /\ g.there => g.object \in objects'[g.store]
    BY <1>1, <1>5, <1>8 DEF Binding!Expected
  <2>2. \A f, g \in flying' : f.object = g.object => f = g
    BY <1>6, <1>8
  <2> QED BY <1>1, <1>7, <2>1, <2>2 DEF Sent, Binding!Serving
<1>10. flying' \subseteq Flight
  BY <1>4, <1>8
<1> QED BY <1>1, <1>9, <1>10, StopKeeps

LEMMA LoseKeeps ==
  ASSUME StoreInv, NEW s \in Servers, Binding!LoseSession(s)
  PROVE  StoreInv'
<1>1. /\ server[s] # Binding!Off /\ bindingLease' = Nobody
      /\ UNCHANGED <<db, marker, objects, gens, op, server, flying, late, backend, capture, torn>>
  BY DEF Binding!LoseSession, Binding!stores, Binding!rest
<1>2. op.step = "idle" /\ bindingLease' # Operator
  BY <1>1, NotAlone, BindingConstants
<1>3. Alone' /\ Housed' /\ LateAt' /\ Underway' /\ Captured' /\ IntentKept'
  BY <1>1, <1>2, ServersOnly
<1>4. StoreTypes'
  BY <1>1 DEF StoreInv, StoreTypes
<1>5. Served' /\ Sent'
  BY <1>1 DEF StoreInv, Served, Sent, Whole, Binding!Serving, Binding!Complete, Binding!Expected
<1>6. Checked'
  BY <1>1, BindingConstants DEF Checked, Binding!Owned
<1> QED BY <1>3, <1>4, <1>5, <1>6 DEF StoreInv

-----------------------------------------------------------------------------
(* What servers write                                                      *)

(* A server stores, rows are written and removed, bytes are collected: all *)
(* the stores that were whole are, and the rest is as it was.              *)
LEMMA WriteKeeps ==
  ASSUME StoreInv, StoreTypes', UNCHANGED <<backend, marker, gens, op, server, late, capture, torn, bindingLease>>,
         op.step = "idle", db.binding.phase = "ready",
         db'.binding = db.binding, db'.place = db.place,
         \A st \in Stores : Whole(st) => Whole(st)',
         db' = db \/ \E st \in Stores : Whole(st),
         Sent'
  PROVE  StoreInv'
<1>1. bindingLease' # Operator
  BY DEF StoreInv, Alone
<1>2. Alone' /\ Housed' /\ LateAt' /\ Underway' /\ Captured' /\ IntentKept'
  BY <1>1, ServersOnly
<1>3. Served'
  <2>1. \A s \in Servers : Binding!Serving(s) => server[s].store \in Stores
    BY ServerIs DEF StoreInv, Binding!Serving
  <2> QED BY <2>1 DEF StoreInv, Served, Binding!Serving
<1>4. Checked'
  BY DEF StoreInv, Checked, Binding!Owned
<1> QED BY <1>2, <1>3, <1>4 DEF StoreInv

LEMMA PutKeeps ==
  ASSUME StoreInv, NEW s \in Servers, NEW o \in Bytes, Binding!Put(s, o)
  PROVE  StoreInv'
<1> DEFINE put == [by |-> s, object |-> o, store |-> server[s].store, there |-> FALSE]
<1>1. /\ Binding!Serving(s) /\ o \notin Binding!Expected(db) /\ \A f \in flying : f.object # o
      /\ flying' = flying \cup {put}
      /\ UNCHANGED <<db, marker, objects, gens, bindingLease, server, op, late, backend, capture, torn>>
  BY DEF Binding!Put, Binding!Fresh, Binding!stores, Binding!rest
<1>2. /\ server[s] # Binding!Off /\ server[s].store \in Stores /\ Whole(server[s].store)
      /\ db.binding.phase = "ready" /\ op.step = "idle"
  BY <1>1, ServerIs, OffIsOff, NotAlone DEF StoreInv, Served, Whole, Binding!Serving
<1>3. put \in Flight /\ put.by = s /\ put.object = o /\ put.store = server[s].store /\ ~put.there
  BY <1>2 DEF Flight
<1> HIDE DEF put
<1>4. StoreTypes'
  BY <1>1, <1>3 DEF StoreInv, StoreTypes
<1>5. Sent'
  BY <1>1, <1>2, <1>3, BindingConstants DEF StoreInv, Sent, Binding!Serving, Binding!Expected
<1>6. \A st \in Stores : Whole(st) => Whole(st)'
  BY <1>1 DEF Whole, Binding!Complete, Binding!Expected
<1> QED BY <1>1, <1>2, <1>4, <1>5, <1>6, WriteKeeps

LEMMA LandKeeps ==
  ASSUME StoreInv, NEW f \in flying, Binding!Land(f)
  PROVE  StoreInv'
<1> DEFINE done == IF f.by = Nobody THEN {} ELSE {[f EXCEPT !.there = TRUE]}
<1>1. /\ ~f.there
      /\ objects' = [objects EXCEPT ![f.store] = objects[f.store] \cup {f.object}]
      /\ flying' = (flying \ {f}) \cup done
      /\ UNCHANGED <<db, marker, gens, bindingLease, server, op, late, backend, capture, torn>>
  BY DEF Binding!Land, Binding!rest, StoreInv, StoreTypes
<1>2. /\ StoreTypes /\ f \in Flight /\ objects \in [Stores -> SUBSET Bytes]
      /\ op.step = "idle" /\ db.binding.phase = "ready"
  BY NotAlone DEF StoreInv, StoreTypes, Sent
<1>3. \A g \in done : /\ g \in Flight /\ g.by = f.by /\ g.object = f.object /\ g.store = f.store /\ g.there
                      /\ f.by # Nobody
  BY <1>2 DEF Flight
<1>4. \A g, h \in done : g = h
  OBVIOUS
<1> HIDE DEF done
<1>5. /\ objects' \in [Stores -> SUBSET Bytes] /\ f.object \in objects'[f.store]
      /\ \A st \in Stores : objects[st] \subseteq objects'[st]
  BY <1>1, <1>2 DEF Flight
<1>6. StoreTypes'
  BY <1>1, <1>2, <1>3, <1>5 DEF StoreTypes
<1>7. Sent'
  <2>1. \A g \in flying' : /\ g.object \notin Binding!Expected(db)
                           /\ IF g.by = Nobody THEN ~g.there ELSE Binding!Serving(g.by) /\ server[g.by].store = g.store
                           /\ g.there => g.object \in objects'[g.store]
    <3>1. \A g \in flying : g.store \in Stores
      BY <1>2 DEF StoreTypes, Flight
    <3> QED BY <1>1, <1>3, <1>5, <3>1 DEF StoreInv, Sent
  <2>2. \A g, h \in flying' : g.object = h.object => g = h
    BY <1>1, <1>3, <1>4 DEF StoreInv, Sent
  <2> QED BY <1>1, <1>2, <2>1, <2>2 DEF Sent, Binding!Serving, Binding!Expected
<1>8. \A st \in Stores : Whole(st) => Whole(st)'
  BY <1>1, <1>5 DEF Whole, Binding!Complete, Binding!Expected
<1> QED BY <1>1, <1>2, <1>6, <1>7, <1>8, WriteKeeps

(* The row is written where the bytes are. *)
LEMMA AnswerKeeps ==
  ASSUME StoreInv, NEW f \in flying, Binding!Answer(f)
  PROVE  StoreInv'
<1>1. /\ f.there
      /\ db' \in {db, [db EXCEPT !.rows = db.rows \cup {f.object}]}
      /\ flying' = flying \ {f}
      /\ UNCHANGED <<marker, objects, gens, bindingLease, server, op, late, backend, capture, torn>>
  BY DEF Binding!Answer, Binding!stores, Binding!rest
<1>2. /\ StoreTypes /\ f \in Flight /\ db \in Database /\ db.rows \cup {f.object} \in SUBSET Bytes
      /\ op.step = "idle" /\ db.binding.phase = "ready"
  BY NotAlone, DbIs DEF StoreInv, StoreTypes, Sent, Flight
<1>3. /\ db' \in Database /\ db'.binding = db.binding /\ db'.place = db.place /\ db'.retained = db.retained
      /\ db'.rows \in {db.rows, db.rows \cup {f.object}}
  <2> DEFINE more == db.rows \cup {f.object}
  <2>1. more \in SUBSET Bytes /\ db' \in {db, [db EXCEPT !.rows = more]}
    BY <1>1, <1>2
  <2> HIDE DEF more
  <2>2. /\ [db EXCEPT !.rows = more] \in Database
        /\ [db EXCEPT !.rows = more].binding = db.binding /\ [db EXCEPT !.rows = more].place = db.place
        /\ [db EXCEPT !.rows = more].retained = db.retained /\ [db EXCEPT !.rows = more].rows = more
    BY <1>2, <2>1, DbRows
  <2>3. db' = db \/ db' = [db EXCEPT !.rows = more]
    BY <2>1
  <2>4. /\ db' \in Database /\ db'.binding = db.binding /\ db'.place = db.place
        /\ db'.retained = db.retained /\ db'.rows \in {db.rows, more}
    BY <1>2, <2>2, <2>3
  <2> QED BY <2>4 DEF more
<1>4. /\ f.by \in Servers /\ Binding!Serving(f.by) /\ server[f.by].store = f.store
      /\ f.object \notin Binding!Expected(db) /\ f.object \in objects[f.store]
  BY <1>1, <1>2 DEF StoreInv, Sent, Flight
<1>5. Whole(f.store) /\ f.store \in Stores
  BY <1>2, <1>4 DEF StoreInv, Served, Flight
<1>6. StoreTypes'
  BY <1>1, <1>2, <1>3 DEF StoreTypes
<1>7. Sent'
  BY <1>1, <1>2, <1>3 DEF StoreInv, Sent, Binding!Serving, Binding!Expected
<1>8. \A st \in Stores : Whole(st) => st = f.store
  BY <1>5, OneStore DEF StoreInv, Whole
<1>9. \A st \in Stores : Whole(st) => Whole(st)'
  BY <1>1, <1>3, <1>4, <1>5, <1>8 DEF Whole, Binding!Complete, Binding!Expected
<1> QED BY <1>1, <1>2, <1>3, <1>5, <1>6, <1>7, <1>9, WriteKeeps

LEMMA DeleteKeeps ==
  ASSUME StoreInv, NEW s \in Servers, NEW o \in Bytes, Binding!Delete(s, o)
  PROVE  StoreInv'
<1>1. /\ Binding!Serving(s)
      /\ db' = [db EXCEPT !.rows = db.rows \ {o}]
      /\ UNCHANGED <<marker, objects, gens, bindingLease, server, op, flying, late, backend, capture, torn>>
  BY DEF Binding!Delete, Binding!stores, Binding!rest
<1>2. /\ StoreTypes /\ db \in Database /\ db.rows \ {o} \in SUBSET Bytes
      /\ server[s] # Binding!Off /\ server[s].store \in Stores /\ Whole(server[s].store)
      /\ db.binding.phase = "ready" /\ op.step = "idle"
  BY <1>1, ServerIs, OffIsOff, NotAlone, DbIs DEF StoreInv, StoreTypes, Served, Whole, Binding!Serving
<1>3. /\ db' \in Database /\ db'.binding = db.binding /\ db'.place = db.place /\ db'.retained = db.retained
      /\ db'.rows = db.rows \ {o}
  BY <1>1, <1>2, DbRows
<1>4. StoreTypes'
  BY <1>1, <1>2, <1>3 DEF StoreTypes
<1>5. Sent'
  BY <1>1, <1>3 DEF StoreInv, Sent, Binding!Serving, Binding!Expected
<1>6. \A st \in Stores : Whole(st) => Whole(st)'
  BY <1>1, <1>3 DEF Whole, Binding!Complete, Binding!Expected
<1> QED BY <1>1, <1>2, <1>3, <1>4, <1>5, <1>6, WriteKeeps

(* What a row or a reconciliation refers to is not collected. *)
LEMMA SweepKeeps ==
  ASSUME StoreInv, NEW s \in Servers, NEW o \in Bytes, Binding!Sweep(s, o)
  PROVE  StoreInv'
<1> DEFINE st == server[s].store
<1>1. /\ Binding!Serving(s) /\ o \notin Binding!Expected(db) /\ \A f \in flying : f.object # o
      /\ objects' = [objects EXCEPT ![st] = objects[st] \ {o}]
      /\ UNCHANGED <<db, marker, gens, bindingLease, server, op, flying, late, backend, capture, torn>>
  BY ServerIs DEF StoreInv, StoreTypes, Binding!Sweep, Binding!Collectable, Binding!rest, Binding!Serving
<1>2. /\ StoreTypes /\ objects \in [Stores -> SUBSET Bytes] /\ flying \subseteq Flight
      /\ server[s] # Binding!Off /\ st \in Stores /\ Whole(st)
      /\ db.binding.phase = "ready" /\ op.step = "idle"
  BY <1>1, ServerIs, OffIsOff, NotAlone DEF StoreInv, StoreTypes, Served, Whole, Binding!Serving
<1>3. /\ objects' \in [Stores -> SUBSET Bytes]
      /\ \A x \in Stores : objects[x] \ {o} \subseteq objects'[x]
  BY <1>1, <1>2
<1>4. StoreTypes'
  BY <1>1, <1>2, <1>3 DEF StoreTypes
<1>5. Sent'
  BY <1>1, <1>2, <1>3 DEF StoreInv, Sent, Binding!Serving, Binding!Expected, Flight
<1>6. \A x \in Stores : Whole(x) => Whole(x)'
  BY <1>1, <1>3 DEF Whole, Binding!Complete, Binding!Expected
<1> QED BY <1>1, <1>2, <1>4, <1>5, <1>6, WriteKeeps

-----------------------------------------------------------------------------
(* The operator                                                            *)

(* While everything is fenced there is no server to say anything of. *)
LEMMA FencedOnly ==
  ASSUME Binding!Fenced, UNCHANGED <<server, flying>>
  PROVE  Served' /\ Sent' /\ Checked'
BY OffIsOff DEF Binding!Fenced, Served, Sent, Checked, Binding!Serving

LEMMA Commanding ==
  ASSUME StoreInv, op.step # "idle"
  PROVE  /\ StoreTypes /\ Binding!Fenced /\ bindingLease = Operator /\ op.store \in Stores
         /\ op \in [step : OpSteps, command : Binding!Commands, store : Stores]
         /\ op.command \in Binding!Commands
BY OpIs DEF StoreInv, Alone

LEMMA OpStep ==
  ASSUME StoreInv, op.step # "idle", NEW to \in OpSteps, op' = [op EXCEPT !.step = to]
  PROVE  op' \in OpState /\ op'.step = to /\ op'.store = op.store /\ to # "idle"
<1>1. op' \in [step : OpSteps, command : Binding!Commands, store : Stores] /\ op'.step = to /\ op'.store = op.store
  BY Commanding
<1> QED BY <1>1 DEF OpState, OpSteps

LEMMA BeginBindingKeeps ==
  ASSUME StoreInv, NEW c \in Binding!Commands, NEW st \in Stores, Binding!Begin(c, st)
  PROVE  StoreInv'
<1>1. /\ Binding!Fenced /\ bindingLease' = Operator
      /\ db.binding.phase = "verifying" => st = db.place
      /\ op' = [step |-> "begun", command |-> c, store |-> st]
      /\ UNCHANGED <<db, marker, objects, gens, server, flying, late, backend, capture, torn>>
  BY DEF Binding!Begin, Binding!Takes, Binding!Binding, Binding!stores, Binding!rest
<1>2. op' \in OpState /\ op'.step = "begun" /\ op'.store = st
  BY <1>1 DEF OpState, OpSteps
<1>3. StoreTypes'
  BY <1>1, <1>2 DEF StoreInv, StoreTypes
<1>4. Alone'
  BY <1>1, <1>2 DEF Alone, Binding!Fenced
<1>5. Housed'
  BY <1>1, SameHouse
<1>6. LateAt' /\ Captured' /\ IntentKept'
  BY <1>1 DEF StoreInv, LateAt, Captured, IntentKept, Matching, Binding!Expected
<1>7. Underway'
  BY <1>1, <1>2 DEF Underway
<1> QED BY <1>1, <1>3, <1>4, <1>5, <1>6, <1>7, FencedOnly DEF StoreInv

LEMMA CommandIs ==
  ASSUME NEW c \in Binding!Commands
  PROVE  /\ c.mode \in {"initialize", "reconcile"} /\ c.checkpoint \in Checkpoints \cup {"none"}
         /\ c.retain \in BOOLEAN
<1>1. CASE c = [mode |-> "initialize", checkpoint |-> "none", retain |-> FALSE]
  BY <1>1
<1>2. CASE c \in {[mode |-> "reconcile", checkpoint |-> k, retain |-> r] : k \in Checkpoints, r \in BOOLEAN}
  <2>1. PICK k \in Checkpoints, r \in BOOLEAN : c = [mode |-> "reconcile", checkpoint |-> k, retain |-> r]
    BY <1>2
  <2> QED BY <2>1
<1> QED BY <1>1, <1>2 DEF Binding!Commands, Binding!Command

(* An intent is of the store that was looked at, and says what is there.   *)
LEMMA IntendKeeps ==
  ASSUME StoreInv, Binding!Intend
  PROVE  StoreInv'
<1> DEFINE st == op.store
           c == op.command
           fresh == db.binding = Binding!NoBinding
           intent == [gen |-> IF fresh THEN gens' ELSE db.binding.gen, backend |-> backend[st],
                      phase |-> "verifying", kind |-> c.mode, checkpoint |-> c.checkpoint,
                      retain |-> c.retain, digest |-> objects[st]]
           kept == db.retained \cup (objects[st] \ (db.rows \cup db.retained))
<1>1. /\ op.step = "begun" /\ Binding!Admissible(c, st)
      /\ \/ /\ db.binding.phase = "verifying" /\ db.binding.digest = objects[st]
            /\ UNCHANGED <<db, gens>>
         \/ /\ db.binding.phase # "verifying"
            /\ gens' = IF fresh THEN gens + 1 ELSE gens
            /\ db' = [db EXCEPT !.binding = intent, !.retained = kept, !.place = st]
      /\ op' = [op EXCEPT !.step = "intended"]
      /\ UNCHANGED <<marker, objects, bindingLease, server, flying, late, backend, capture, torn>>
  BY DEF Binding!Intend, Binding!Binding, Binding!Recorded, Binding!Unreferenced, Binding!Expected, Binding!stores,
     Binding!rest
<1>2. /\ StoreTypes /\ Binding!Fenced /\ bindingLease = Operator /\ st \in Stores /\ c \in Binding!Commands
      /\ db \in Database /\ gens \in Nat /\ objects[st] \in SUBSET Bytes /\ backend[st] \in StoreKinds
      /\ marker \in [Stores -> Nat]
  BY <1>1, Commanding DEF StoreTypes
<1>3. /\ op' \in OpState /\ op'.step = "intended" /\ op'.store = st
  BY <1>1, OpStep DEF OpSteps
<1>4. Alone'
  BY <1>1, <1>2, <1>3 DEF Alone, Binding!Fenced
<1>5. Served' /\ Sent' /\ Checked'
  BY <1>1, <1>2, FencedOnly
<1>6. CASE /\ db.binding.phase = "verifying" /\ db.binding.digest = objects[st]
           /\ UNCHANGED <<db, gens>>
  <2>1. StoreTypes'
    BY <1>1, <1>2, <1>3, <1>6 DEF StoreTypes
  <2>2. Housed'
    BY <1>1, <1>6, SameHouse
  <2>3. LateAt' /\ Captured' /\ IntentKept'
    BY <1>1, <1>6 DEF StoreInv, LateAt, Captured, IntentKept, Matching, Binding!Expected
  <2>4. Underway'
    BY <1>1, <1>3, <1>6 DEF StoreInv, Underway
  <2> QED BY <1>4, <1>5, <2>1, <2>2, <2>3, <2>4 DEF StoreInv
<1>7. CASE /\ db.binding.phase # "verifying"
           /\ gens' = IF fresh THEN gens + 1 ELSE gens
           /\ db' = [db EXCEPT !.binding = intent, !.retained = kept, !.place = st]
  <2>1. /\ db.binding # Binding!NoBinding => db.binding.backend = backend[st]
        /\ marker[st] # 0 => db.binding.gen = marker[st]
        /\ db.binding.phase = "ready" => marker[st] # 0
        /\ db.rows \cap db.retained = {} /\ db.rows \cup db.retained \subseteq objects[st]
    BY <1>1, OffIsOff DEF Binding!Admissible, Binding!Binding, Binding!Complete, Binding!Expected
  <2>2. c.mode \in {"initialize", "reconcile"} /\ c.checkpoint \in Checkpoints \cup {"none"} /\ c.retain \in BOOLEAN
    BY <1>2, CommandIs
  <2>3. gens' \in Nat /\ gens' >= gens
    BY <1>2, <1>7
  <2>4. /\ intent \in Intent /\ intent.phase = "verifying" /\ intent.digest = objects[st]
        /\ intent.gen = (IF fresh THEN gens' ELSE db.binding.gen) /\ intent.backend = backend[st]
    BY <1>2, <2>2, <2>3, DbIs DEF Intent
  <2>5. kept \in SUBSET Bytes /\ db.rows \cup kept = objects[st]
    BY <1>2, <2>1, DbIs
  <2> HIDE DEF intent, kept
  <2>6. /\ db' \in Database /\ db'.binding = intent /\ db'.retained = kept /\ db'.place = st
        /\ db'.rows = db.rows
    BY <1>2, <1>7, <2>4, <2>5 DEF Database
  <2>7. StoreTypes'
    BY <1>1, <1>2, <1>3, <2>3, <2>6 DEF StoreTypes
  <2>8. PICK home \in [1 .. gens -> Stores] :
          /\ DbAt(db, home, gens) /\ DbAt(capture.db, home, gens)
          /\ MarkersAt(marker, home, gens) /\ MarkersAt(capture.marker, home, gens)
    BY DEF StoreInv, Housed
  <2>9. /\ fresh => db.binding.phase = "none" /\ marker[st] = 0
        /\ ~fresh => db.binding.phase = "ready" /\ db.place = st /\ intent.gen = db.binding.gen
    <3>1. CASE fresh
      BY <2>1, <3>1, NoBindingTyped
    <3>2. CASE ~fresh
      <4>1. db.binding.phase = "ready"
        BY <1>2, <1>7, <2>8, <3>2, DbIs DEF DbAt
      <4>2. marker[st] = db.binding.gen
        BY <2>1, <4>1
      <4> QED BY <1>2, <2>4, <3>2, <4>1, <4>2, OneStore DEF StoreInv
    <3> QED BY <3>1, <3>2
  <2>10. Housed'
    <3>1. CASE ~fresh
      <4>1. gens' = gens
        BY <1>7, <3>1
      <4>2. DbAt(db, home, gens)'
        BY <1>1, <2>4, <2>6, <2>8, <2>9, <3>1, <4>1 DEF DbAt
      <4>3. DbAt(capture.db, home, gens)' /\ MarkersAt(marker, home, gens)' /\ MarkersAt(capture.marker, home, gens)'
        BY <1>1, <2>8, <4>1 DEF DbAt, MarkersAt
      <4> QED BY <4>1, <4>2, <4>3 DEF Housed
    <3>2. CASE fresh
      <4> DEFINE more == [g \in 1 .. gens + 1 |-> IF g = gens + 1 THEN st ELSE home[g]]
      <4>1. gens' = gens + 1 /\ intent.gen = gens + 1
        BY <1>7, <2>4, <3>2
      <4>2. /\ more \in [1 .. gens' -> Stores] /\ more[gens + 1] = st
            /\ \A g \in 1 .. gens : more[g] = home[g] /\ g \in 1 .. gens'
        BY <1>2, <4>1
      <4> HIDE DEF more
      <4>3. /\ gens + 1 \in 1 .. gens' /\ intent.gen \in 1 .. gens' /\ more[intent.gen] = st
        BY <1>2, <4>1, <4>2
      <4>4. DbAt(db', more, gens')
        BY <1>1, <1>2, <2>4, <2>6, <4>3 DEF DbAt
      <4>5. DbAt(capture.db, more, gens')
        BY <2>8, <4>2 DEF DbAt
      <4>6. MarkersAt(marker, more, gens') /\ MarkersAt(capture.marker, more, gens')
        BY <2>8, <4>2 DEF MarkersAt
      <4>7. UNCHANGED <<backend, capture, marker>>
        BY <1>1
      <4> QED BY <4>2, <4>4, <4>5, <4>6, <4>7 DEF Housed, DbAt, MarkersAt
    <3> QED BY <3>1, <3>2
  <2>11. LateAt'
    BY <1>1, <2>4, <2>6, <2>9 DEF StoreInv, LateAt
  <2>12. Matching(db, marker, objects)'
    <3>1. marker[st] \in {0, intent.gen}
      BY <2>1, <2>9
    <3>2. db'.rows \cup db'.retained = objects[st]
      BY <2>5, <2>6
    <3> QED BY <1>1, <2>4, <2>6, <3>1, <3>2 DEF Matching, Binding!Expected
  <2>13. Captured'
    BY <1>1, <1>7 DEF StoreInv, Captured, Matching
  <2>14. Underway'
    BY <1>3, <2>4, <2>6 DEF Underway
  <2> QED BY <1>4, <1>5, <2>7, <2>10, <2>11, <2>12, <2>13, <2>14 DEF StoreInv, IntentKept
<1> QED BY <1>1, <1>6, <1>7

(* The marker that is published is that of the binding, at its place. *)
LEMMA Marked ==
  ASSUME StoreInv, NEW st \in Stores, st = db.place, db.binding.phase # "none",
         marker' = [marker EXCEPT ![st] = IF marker[st] = 0 THEN db.binding.gen ELSE marker[st]],
         UNCHANGED <<backend, db, objects, gens, capture, torn>>
  PROVE  /\ Housed' /\ Captured' /\ IntentKept'
         /\ marker' \in [Stores -> Nat]
         /\ \A x \in Stores : marker[x] # 0 => marker'[x] = marker[x]
         /\ Matching(db, marker, objects) => Matching(db, marker, objects)'
<1>1. /\ StoreTypes /\ db \in Database /\ marker \in [Stores -> Nat] /\ db.binding.gen \in Nat
      /\ capture.marker \in [Stores -> Nat]
  BY DbIs DEF StoreInv, StoreTypes
<1>2. /\ marker' \in [Stores -> Nat]
      /\ \A x \in Stores : marker[x] # 0 => marker'[x] = marker[x]
      /\ \A x \in Stores : marker'[x] = marker[x] \/ (x = st /\ marker'[x] = db.binding.gen)
  BY <1>1
<1>3. Housed'
  <2>1. PICK home \in [1 .. gens -> Stores] :
          /\ DbAt(db, home, gens) /\ DbAt(capture.db, home, gens)
          /\ MarkersAt(marker, home, gens) /\ MarkersAt(capture.marker, home, gens)
    BY DEF StoreInv, Housed
  <2>2. DbAt(db, home, gens)' /\ DbAt(capture.db, home, gens)'
    BY <2>1 DEF DbAt
  <2>3. db.binding.gen \in 1 .. gens /\ home[db.binding.gen] = st
    BY <2>1 DEF DbAt
  <2>4. MarkersAt(marker, home, gens)' /\ MarkersAt(capture.marker, home, gens)'
    BY <1>2, <2>1, <2>3 DEF MarkersAt
  <2> QED BY <2>2, <2>4 DEF Housed
<1>4. Matching(db, marker, objects) => Matching(db, marker, objects)'
  BY <1>1, <1>2 DEF Matching, Binding!Expected
<1>5. Captured'
  <2>1. CASE Matching(capture.db, capture.marker, capture.objects)
    BY <2>1 DEF Captured, Matching, Binding!Expected
  <2>2. CASE /\ torn /\ db = capture.db /\ objects = capture.objects
             /\ \A x \in Stores : capture.marker[x] # 0 => marker[x] = capture.marker[x]
    BY <1>2, <2>2 DEF Captured
  <2> QED BY <2>1, <2>2 DEF StoreInv, Captured
<1>6. IntentKept'
  BY <1>4 DEF StoreInv, IntentKept
<1> QED BY <1>2, <1>3, <1>4, <1>5, <1>6

LEMMA PublishKeeps ==
  ASSUME StoreInv, Binding!Publish
  PROVE  StoreInv'
<1>1. /\ op.step = "intended" /\ op' = [op EXCEPT !.step = "published"]
      /\ db.binding.phase = "verifying"
      /\ Binding!Complete(db, op.store) /\ Binding!Unreferenced(db, op.store) = {}
      /\ objects[op.store] = db.binding.digest /\ marker[op.store] \in {0, db.binding.gen}
      /\ UNCHANGED <<db, objects, gens, bindingLease, server, flying, late, backend, capture, torn>>
  BY OffIsOff DEF Binding!Publish, Binding!Binding, Binding!rest
<1>2. /\ StoreTypes /\ Binding!Fenced /\ bindingLease = Operator /\ op.store \in Stores
  BY <1>1, Commanding
<1>3. op.store = db.place
  BY <1>1 DEF StoreInv, Underway
<1>4. marker' = [marker EXCEPT ![op.store] = IF marker[op.store] = 0 THEN db.binding.gen ELSE marker[op.store]]
  BY <1>2, OffIsOff DEF Binding!Publish, Binding!PublishTo, Binding!Binding, StoreTypes
<1>5. op' \in OpState /\ op'.step = "published" /\ op'.store = op.store
  BY <1>1, OpStep DEF OpSteps
<1>6. /\ Housed' /\ Captured' /\ IntentKept' /\ marker' \in [Stores -> Nat]
      /\ Matching(db, marker, objects) => Matching(db, marker, objects)'
  BY <1>1, <1>2, <1>3, <1>4, Marked
<1>7. Matching(db, marker, objects)
  BY <1>1, <1>3 DEF Matching, Binding!Complete, Binding!Unreferenced
<1>8. StoreTypes'
  BY <1>1, <1>2, <1>5, <1>6 DEF StoreTypes
<1>9. Alone'
  BY <1>1, <1>2, <1>5 DEF Alone, Binding!Fenced
<1>10. LateAt'
  BY <1>1 DEF StoreInv, LateAt
<1>11. Underway'
  BY <1>1, <1>3, <1>5, <1>6, <1>7 DEF Underway
<1> QED BY <1>1, <1>2, <1>6, <1>8, <1>9, <1>10, <1>11, FencedOnly DEF StoreInv

LEMMA ProveBindingKeeps ==
  ASSUME StoreInv, Binding!Prove
  PROVE  StoreInv'
<1>1. /\ op.step = "published" /\ op' = [op EXCEPT !.step = "proven"]
      /\ UNCHANGED <<db, marker, objects, gens, bindingLease, server, flying, late, backend, capture, torn>>
  BY DEF Binding!Prove, Binding!stores, Binding!rest
<1>2. StoreTypes /\ Binding!Fenced /\ bindingLease = Operator
  BY <1>1, Commanding
<1>3. op' \in OpState /\ op'.step = "proven" /\ op'.store = op.store
  BY <1>1, OpStep DEF OpSteps
<1>4. StoreTypes'
  BY <1>1, <1>2, <1>3 DEF StoreTypes
<1>5. Alone'
  BY <1>1, <1>2, <1>3 DEF Alone, Binding!Fenced
<1>6. Housed'
  BY <1>1, SameHouse
<1>7. LateAt' /\ Captured' /\ IntentKept'
  BY <1>1 DEF StoreInv, LateAt, Captured, IntentKept, Matching, Binding!Expected
<1>8. Underway'
  BY <1>1, <1>3 DEF StoreInv, Underway, Matching, Binding!Expected
<1> QED BY <1>1, <1>2, <1>4, <1>5, <1>6, <1>7, <1>8, FencedOnly DEF StoreInv

(* What is proven matched, and so does what was captured of it. *)
LEMMA FinishBindingKeeps ==
  ASSUME StoreInv, Binding!Finish
  PROVE  StoreInv'
<1>1. /\ op.step = "proven" /\ op' = Binding!OpIdle /\ bindingLease' = Nobody /\ torn' = FALSE
      /\ db' = [db EXCEPT !.binding.phase = "ready"]
      /\ UNCHANGED <<marker, objects, gens, server, flying, late, backend, capture>>
  BY DEF Binding!Finish, Binding!Releases, Binding!Owned, Binding!stores
<1>2. StoreTypes /\ Binding!Fenced /\ db \in Database
  BY <1>1, Commanding DEF StoreTypes
<1>3. db.binding.phase = "verifying" /\ Matching(db, marker, objects)
  BY <1>1 DEF StoreInv, Underway
<1> DEFINE bound == [db.binding EXCEPT !.phase = "ready"]
<1>4. bound \in Intent /\ bound.phase = "ready" /\ bound.gen = db.binding.gen /\ bound.backend = db.binding.backend
  BY <1>2, DbIs DEF Intent
<1>5. db' = [db EXCEPT !.binding = bound]
  BY <1>1, <1>2 DEF Database
<1> HIDE DEF bound
<1>6. db' \in Database /\ db'.binding = bound /\ db'.place = db.place
  BY <1>2, <1>4, <1>5 DEF Database
<1>7. StoreTypes'
  BY <1>1, <1>2, <1>6, BindingConstants DEF StoreTypes, OpState
<1>8. Alone'
  BY <1>1, OffIsOff, BindingConstants DEF Alone
<1>9. Housed'
  <2>1. PICK home \in [1 .. gens -> Stores] :
          /\ DbAt(db, home, gens) /\ DbAt(capture.db, home, gens)
          /\ MarkersAt(marker, home, gens) /\ MarkersAt(capture.marker, home, gens)
    BY DEF StoreInv, Housed
  <2>2. DbAt(db, home, gens)' /\ DbAt(capture.db, home, gens)'
    BY <1>1, <1>3, <1>4, <1>6, <2>1 DEF DbAt
  <2>3. MarkersAt(marker, home, gens)' /\ MarkersAt(capture.marker, home, gens)'
    BY <1>1, <2>1 DEF MarkersAt
  <2> QED BY <1>1, <2>2, <2>3 DEF Housed
<1>10. LateAt'
  BY <1>1, <1>4, <1>6 DEF StoreInv, LateAt
<1>11. Matching(capture.db, capture.marker, capture.objects)
  <2>1. CASE /\ db = capture.db /\ objects = capture.objects
             /\ \A st \in Stores : capture.marker[st] # 0 => marker[st] = capture.marker[st]
    <3>1. db.place \in Stores
      BY <1>3 DEF StoreInv, Housed, DbAt
    <3> QED BY <1>3, <2>1, <3>1 DEF Matching
  <2> QED BY <2>1 DEF StoreInv, Captured
<1>12. Captured'
  BY <1>1, <1>11 DEF Captured, Matching, Binding!Expected
<1>13. IntentKept'
  BY <1>4, <1>6 DEF IntentKept, Matching
<1>14. Underway'
  BY <1>1, OffIsOff DEF Underway
<1> QED BY <1>1, <1>2, <1>7, <1>8, <1>9, <1>10, <1>12, <1>13, <1>14, FencedOnly DEF StoreInv

LEMMA EndKeeps ==
  ASSUME StoreInv, Binding!End
  PROVE  StoreInv'
<1>1. /\ op.step # "idle" /\ op' = Binding!OpIdle
      /\ \/ late' = late
         \/ /\ op.step = "intended" /\ db.binding.phase = "verifying"
            /\ late' = late \cup {[store |-> op.store, gen |-> db.binding.gen]}
      /\ UNCHANGED <<db, marker, objects, gens, server, flying, backend, capture, torn>>
  BY DEF Binding!End, Binding!Binding, Binding!stores, Binding!rest
<1>2. StoreTypes /\ Binding!Fenced /\ op.store \in Stores /\ db.binding.gen \in Nat
  BY <1>1, Commanding, DbIs DEF StoreTypes
<1>3. bindingLease' = Nobody
  BY <1>1, Commanding DEF Binding!End, Binding!Releases
<1>4. op.step = "intended" => op.store = db.place
  BY DEF StoreInv, Underway
<1>5. late' \subseteq [store : Stores, gen : Nat]
  BY <1>1, <1>2 DEF StoreTypes
<1>6. LateAt'
  BY <1>1, <1>4 DEF StoreInv, LateAt
<1>7. StoreTypes'
  BY <1>1, <1>2, <1>3, <1>5 DEF StoreTypes, OpState
<1>8. Alone'
  BY <1>1, <1>3, OffIsOff, BindingConstants DEF Alone
<1>9. Housed'
  BY <1>1, SameHouse
<1>10. Captured' /\ IntentKept'
  BY <1>1 DEF StoreInv, Captured, IntentKept, Matching, Binding!Expected
<1>11. Underway'
  BY <1>1, OffIsOff DEF Underway
<1> QED BY <1>1, <1>2, <1>6, <1>7, <1>8, <1>9, <1>10, <1>11, FencedOnly DEF StoreInv

LEMMA LateMarkerKeeps ==
  ASSUME StoreInv, Binding!LateMarker
  PROVE  StoreInv'
<1>1. PICK m \in late : /\ Binding!PublishTo(m.store, m.gen) /\ late' = late \ {m}
                        /\ UNCHANGED <<db, objects, gens, bindingLease, op, server, flying, backend, capture, torn>>
  BY DEF Binding!LateMarker, Binding!rest
<1>2. /\ StoreTypes /\ m.store \in Stores /\ m.store = db.place /\ m.gen = db.binding.gen
      /\ db.binding.phase # "none"
  BY DEF StoreInv, StoreTypes, LateAt
<1>3. marker' = [marker EXCEPT ![m.store] = IF marker[m.store] = 0 THEN db.binding.gen ELSE marker[m.store]]
  BY <1>1, <1>2, OffIsOff DEF Binding!PublishTo, StoreTypes
<1>4. /\ Housed' /\ Captured' /\ IntentKept' /\ marker' \in [Stores -> Nat]
      /\ \A x \in Stores : marker[x] # 0 => marker'[x] = marker[x]
      /\ Matching(db, marker, objects) => Matching(db, marker, objects)'
  BY <1>1, <1>2, <1>3, Marked
<1>5. StoreTypes'
  BY <1>1, <1>2, <1>4 DEF StoreTypes
<1>6. Alone' /\ LateAt'
  BY <1>1 DEF StoreInv, Alone, Binding!Fenced, LateAt
<1>7. Underway'
  BY <1>1, <1>4 DEF StoreInv, Underway
<1>8. \A st \in Stores : Whole(st) => Whole(st)'
  <2>1. \A st \in Stores : Whole(st) => marker[st] # 0
    BY NoBindingTyped DEF Whole, StoreInv, Housed, DbAt
  <2> QED BY <1>1, <1>4, <2>1 DEF Whole, Binding!Complete, Binding!Expected
<1>9. Served'
  <2>1. \A s \in Servers : Binding!Serving(s) => server[s].store \in Stores
    BY ServerIs DEF StoreInv, Binding!Serving
  <2> QED BY <1>1, <1>8, <2>1 DEF StoreInv, Served, Binding!Serving
<1>10. Sent'
  BY <1>1 DEF StoreInv, Sent, Binding!Serving, Binding!Expected
<1>11. Checked'
  BY <1>1, <1>8 DEF StoreInv, Checked, Binding!Owned
<1> QED BY <1>4, <1>5, <1>6, <1>7, <1>9, <1>10, <1>11 DEF StoreInv

-----------------------------------------------------------------------------
(* Captures and restores                                                   *)

LEMMA CaptureKeeps ==
  ASSUME StoreInv, Binding!Capture
  PROVE  StoreInv'
<1>1. /\ Binding!Fenced
      /\ capture' = [db |-> db, marker |-> marker, objects |-> objects]
      /\ UNCHANGED <<backend, db, marker, objects, gens, bindingLease, server, op, flying, late, torn>>
  BY DEF Binding!Capture, Binding!Quiet, Binding!stores
<1>2. StoreTypes'
  BY <1>1 DEF StoreInv, StoreTypes
<1>3. capture'.db = db /\ capture'.marker = marker /\ capture'.objects = objects
  BY <1>1
<1>4. Alone' /\ LateAt' /\ Underway' /\ IntentKept'
  BY <1>1 DEF StoreInv, Alone, Binding!Fenced, LateAt, Underway, IntentKept, Matching, Binding!Expected
<1>5. Housed'
  <2>1. PICK home \in [1 .. gens -> Stores] : DbAt(db, home, gens) /\ MarkersAt(marker, home, gens)
    BY DEF StoreInv, Housed
  <2>2. DbAt(db, home, gens)' /\ MarkersAt(marker, home, gens)'
    BY <1>1, <2>1 DEF DbAt, MarkersAt
  <2>3. DbAt(capture.db, home, gens)' /\ MarkersAt(capture.marker, home, gens)'
    BY <1>1, <1>3, <2>1 DEF DbAt, MarkersAt
  <2> QED BY <1>1, <2>1, <2>2, <2>3 DEF Housed
<1>6. Captured'
  <2>1. CASE Matching(db, marker, objects)
    BY <1>3, <2>1 DEF Captured, Matching, Binding!Expected
  <2>2. CASE torn
    BY <1>1, <1>3, <2>2 DEF Captured
  <2> QED BY <2>1, <2>2 DEF StoreInv, IntentKept
<1> QED BY <1>1, <1>2, <1>4, <1>5, <1>6, FencedOnly DEF StoreInv

LEMMA RestoreBindingKeeps ==
  ASSUME StoreInv, Binding!Restore
  PROVE  StoreInv'
<1>1. /\ Binding!Fenced /\ op.step = "idle" /\ late = {}
      /\ \/ db' = capture.db /\ torn' = TRUE /\ UNCHANGED <<marker, objects>>
         \/ marker' = capture.marker /\ objects' = capture.objects /\ torn' = TRUE /\ UNCHANGED db
         \/ /\ db' = capture.db /\ marker' = capture.marker /\ objects' = capture.objects
            /\ UNCHANGED torn
      /\ UNCHANGED <<backend, gens, bindingLease, server, op, flying, late, capture>>
  BY DEF Binding!Restore, Binding!Quiet, Binding!stores
<1>2. StoreTypes /\ capture \in [db : Database, marker : [Stores -> Nat], objects : [Stores -> SUBSET Bytes]]
  BY DEF StoreInv, StoreTypes
<1>3. db' \in {db, capture.db} /\ marker' \in {marker, capture.marker} /\ objects' \in {objects, capture.objects}
  BY <1>1
<1>4. StoreTypes'
  <2>1. db' \in Database /\ marker' \in [Stores -> Nat] /\ objects' \in [Stores -> SUBSET Bytes] /\ torn' \in BOOLEAN
    BY <1>1, <1>2, <1>3 DEF StoreTypes
  <2> QED BY <1>1, <1>2, <2>1 DEF StoreTypes
<1>5. Alone' /\ LateAt' /\ Underway'
  BY <1>1 DEF StoreInv, Alone, Binding!Fenced, LateAt, Underway
<1>6. Housed'
  <2>1. PICK home \in [1 .. gens -> Stores] :
          /\ DbAt(db, home, gens) /\ DbAt(capture.db, home, gens)
          /\ MarkersAt(marker, home, gens) /\ MarkersAt(capture.marker, home, gens)
    BY DEF StoreInv, Housed
  <2>2. DbAt(db, home, gens)' /\ DbAt(capture.db, home, gens)'
    BY <1>1, <1>3, <2>1 DEF DbAt
  <2>3. MarkersAt(marker, home, gens)' /\ MarkersAt(capture.marker, home, gens)'
    BY <1>1, <1>3, <2>1 DEF MarkersAt
  <2> QED BY <1>1, <2>2, <2>3 DEF Housed
<1>7. Captured' /\ IntentKept'
  <2>1. CASE Matching(capture.db, capture.marker, capture.objects)
    <3>1. Captured'
      BY <1>1, <2>1 DEF Captured, Matching, Binding!Expected
    <3>2. CASE torn'
      BY <3>1, <3>2 DEF IntentKept
    <3>3. CASE ~torn'
      <4>1. db' = capture.db /\ marker' = capture.marker /\ objects' = capture.objects
        BY <1>1, <3>3
      <4> QED BY <2>1, <3>1, <4>1 DEF IntentKept, Matching, Binding!Expected
    <3> QED BY <3>2, <3>3
  <2>2. CASE /\ torn /\ db = capture.db /\ objects = capture.objects
             /\ \A st \in Stores : capture.marker[st] # 0 => marker[st] = capture.marker[st]
    BY <1>1, <2>2 DEF Captured, IntentKept
  <2> QED BY <2>1, <2>2 DEF StoreInv, Captured
<1> QED BY <1>1, <1>4, <1>5, <1>6, <1>7, FencedOnly DEF StoreInv

LEMMA StoreBegins == Binding!Init => StoreInv
<1> SUFFICES ASSUME Binding!Init PROVE StoreInv
  OBVIOUS
<1>1. /\ backend \in Backends /\ db = Binding!EmptyDb
      /\ marker = [st \in Stores |-> 0] /\ objects = [st \in Stores |-> {}]
      /\ gens = 0 /\ bindingLease = Nobody /\ server = [s \in Servers |-> Binding!Off] /\ op = Binding!OpIdle
      /\ flying = {} /\ late = {} /\ torn = FALSE
      /\ capture = [db |-> Binding!EmptyDb, marker |-> marker, objects |-> objects]
  BY OffIsOff DEF Binding!Init
<1>2. db \in Database /\ db.binding = Binding!NoBinding
  BY <1>1, NoBindingTyped DEF Binding!EmptyDb, Database
<1>3. backend \in [Stores -> StoreKinds] /\ server \in [Servers -> ServerState] /\ op \in OpState
  BY <1>1, BindingConstants DEF ServerState, OpState
<1>4. marker \in [Stores -> Nat] /\ objects \in [Stores -> SUBSET Bytes]
  BY <1>1
<1>5. /\ capture \in [db : Database, marker : [Stores -> Nat], objects : [Stores -> SUBSET Bytes]]
      /\ capture.db = db /\ capture.marker = marker
  BY <1>1, <1>2, <1>4
<1>6. StoreTypes
  BY <1>1, <1>2, <1>3, <1>4, <1>5 DEF StoreTypes
<1>7. Alone /\ LateAt /\ Underway
  BY <1>1, OffIsOff, BindingConstants DEF Alone, LateAt, Underway
<1>8. Housed
  <2> DEFINE nowhere == [g \in 1 .. gens |-> CHOOSE st \in Stores : TRUE]
  <2>1. nowhere \in [1 .. gens -> Stores]
    BY <1>1
  <2>2. DbAt(db, nowhere, gens) /\ DbAt(capture.db, nowhere, gens)
    BY <1>2, <1>5, NoBindingTyped DEF DbAt
  <2>3. MarkersAt(marker, nowhere, gens) /\ MarkersAt(capture.marker, nowhere, gens)
    BY <1>1, <1>5 DEF MarkersAt
  <2> QED BY <2>1, <2>2, <2>3 DEF Housed
<1>9. Served /\ Sent /\ Checked
  BY <1>1, OffIsOff DEF Served, Sent, Checked, Binding!Serving
<1>10. Captured /\ IntentKept
  BY <1>2, <1>5, NoBindingTyped DEF Captured, IntentKept, Matching
<1> QED BY <1>6, <1>7, <1>8, <1>9, <1>10 DEF StoreInv

LEMMA StoreNext == StoreInv /\ [Binding!Next]_(Binding!vars) => StoreInv'
<1> SUFFICES ASSUME StoreInv, [Binding!Next]_(Binding!vars) PROVE StoreInv'
  OBVIOUS
<1>1. CASE UNCHANGED Binding!vars
  <2>1. UNCHANGED <<backend, db, marker, objects, gens, bindingLease, server, op, flying, late, capture, torn>>
    BY <1>1 DEF Binding!vars
  <2>2. StoreTypes' /\ Alone' /\ LateAt'
    BY <2>1 DEF StoreInv, StoreTypes, Alone, Binding!Fenced, LateAt
  <2>3. Housed'
    BY <2>1, SameHouse
  <2>4. Underway' /\ Captured' /\ IntentKept'
    BY <2>1 DEF StoreInv, Underway, Captured, IntentKept, Matching, Binding!Expected
  <2>5. Served' /\ Sent' /\ Checked'
    BY <2>1 DEF StoreInv, Served, Sent, Checked, Whole, Binding!Serving, Binding!Owned, Binding!Complete,
       Binding!Expected
  <2> QED BY <2>2, <2>3, <2>4, <2>5 DEF StoreInv
<1>2. CASE Binding!ServerNext
  BY <1>2, StartServerKeeps, ServeKeeps, RefuseKeeps, GoneKeeps, LoseKeeps, PutKeeps, DeleteKeeps, SweepKeeps
  DEF Binding!ServerNext
<1>3. CASE Binding!OperatorNext
  BY <1>3, BeginBindingKeeps, IntendKeeps, PublishKeeps, ProveBindingKeeps, FinishBindingKeeps, EndKeeps,
     LateMarkerKeeps
  DEF Binding!OperatorNext
<1>4. CASE Binding!Capture \/ Binding!Restore
  BY <1>4, CaptureKeeps, RestoreBindingKeeps
<1>5. ASSUME NEW f \in flying, Binding!Land(f) \/ Binding!Answer(f) PROVE StoreInv'
  BY <1>5, LandKeeps, AnswerKeeps
<1> QED BY <1>1, <1>2, <1>3, <1>4, <1>5 DEF Binding!Next

(* Whatever was restored, misconfigured, interrupted or lost: a server     *)
(* serves the store that its database is bound to and finds there all the  *)
(* bytes that rows and reconciliations refer to; and an interrupted        *)
(* storage command finds what it has to match when it is repeated          *)
(* (storage-binding.ts, storage-adoption.ts, storage-lease.ts).            *)
THEOREM StorageBound == Binding!Spec => []StorageKept
<1>1. StoreInv => StorageKept
  <2> SUFFICES ASSUME StoreInv PROVE StorageKept
    OBVIOUS
  <2>1. Binding!ServesItsOwn
    BY DEF StoreInv, Served, Whole, Binding!ServesItsOwn, Binding!Binding
  <2>2. Binding!IntentFinishable
    BY OffIsOff DEF StoreInv, IntentKept, Matching, Housed, DbAt, Binding!IntentFinishable, Binding!Binding
  <2> QED BY <2>1, <2>2 DEF StorageKept, Binding!StorageKept
<1> QED BY <1>1, StoreBegins, StoreNext, PTL DEF Binding!Spec
=============================================================================
