----------------------------- MODULE Invocation -----------------------------
(***************************************************************************)
(* Invocations of a function in one Workspace (apps/server/compute,        *)
(* migrations 000026 and 000034).  The server commits a child Run with a   *)
(* temporary token, lets the runtime execute the function, which calls     *)
(* back with the token, and then finishes the invocation: one terminal     *)
(* event, and the token deleted.  When that fails, or the server dies,     *)
(* reconciliation finishes it later.                                       *)
(*                                                                         *)
(* A transaction that writes the log holds the Workspace's cursor lock     *)
(* (module RunContext); those of callbacks and of strangers are two steps  *)
(* here, so that a finish can meet a lock that is taken.                   *)
(***************************************************************************)
EXTENDS Naturals, Sequences, FiniteSetsExt

CONSTANTS
  Invocations,   \* numbers; the order of the pages of reconciliation
  PageSize,      \* pending invocations in one pass
  Attempts,      \* tries to finish, each of them bounded in time
  MaxCallbacks,  \* bound: callbacks of an invocation that commit
  MaxRestores,   \* bound
  MaxFaults,     \* bound: lost answers, errors of a finish, crashes, passes cut off
  Free, Stranger \* who holds the cursor lock, but for an invocation's callback

ASSUME InvocationAssumption ==
  /\ Invocations \subseteq Nat \ {0} /\ Free \notin Invocations /\ Stranger \notin Invocations
  /\ Free # Stranger
  /\ PageSize \in Nat \ {0} /\ Attempts \in Nat \ {0}
  /\ {MaxCallbacks, MaxRestores, MaxFaults} \subseteq Nat

VARIABLES
  db,       \* the database
  backup,   \* the copy a restore brings back
  holder,   \* of the cursor lock
  age,      \* of each token: "new", "expired", "overdue" (ten seconds later)
  call,     \* the requests that invoke, in the server process
  pass,     \* reconciliation, in the server process
  faults

vars == <<db, backup, holder, age, call, pass, faults>>
world == <<backup, age, faults>>

-----------------------------------------------------------------------------
Kinds == {"function.complete", "function.fail", "function.timeout"}

(* token: the epoch it was made in, 0 for none *)
NoRows == [token |-> [i \in Invocations |-> 0], made |-> {}, pending |-> {}, log |-> <<>>,
           epoch |-> 1, gate |-> FALSE]
Resting == [step |-> "idle", kind |-> "function.fail", left |-> 0, answer |-> "none"]
Idle == [runs |-> {}, left |-> 0, full |-> FALSE, on |-> FALSE, cursor |-> 0]

At(i, step) == call[i].step = step
Fault == faults < MaxFaults /\ faults' = faults + 1
Event(kind, i) == [kind |-> kind, of |-> i, epoch |-> db.epoch]
Ended(i) == \E n \in DOMAIN db.log : db.log[n].of = i /\ db.log[n].kind \in Kinds
Callbacks(i) == Len(SelectSeq(db.log, LAMBDA e : e.of = i /\ e.kind = "callback"))

(* control.create_invocation, and the sweep of tokens that have expired in *)
(* the same transaction.  The caller never learns of it when the answer to *)
(* COMMIT is lost.                                                         *)
Create(i, answered) ==
  /\ At(i, "idle") /\ i \notin db.made /\ ~db.gate /\ holder = Free
  /\ db' = [db EXCEPT !.made = @ \cup {i}, !.pending = @ \cup {i},
       !.log = Append(@, Event("function.invoke", i)),
       !.token = [j \in Invocations |->
         IF j = i THEN db.epoch ELSE IF age[j] = "new" THEN @[j] ELSE 0]]
  /\ IF answered
     THEN call' = [call EXCEPT ![i].step = "run"] /\ UNCHANGED faults
     ELSE call' = [call EXCEPT ![i].step = "gone"] /\ Fault
  /\ UNCHANGED <<backup, age, holder, pass>>

-----------------------------------------------------------------------------
(* A callback of the function, also of one whose caller is gone: its       *)
(* request binds the Run's context with the token and then writes.         *)

(* Mutant: a token from before a restore is as good as any. *)
BindsAnyEpoch(i) ==
  i \in db.made /\ ~db.gate /\ db.token[i] # 0 /\ age[i] = "new"
Binds(i) ==
  i \in db.made /\ ~db.gate /\ db.token[i] = db.epoch /\ age[i] = "new"

Bind(i) ==
  /\ call[i].step # "idle" /\ holder = Free /\ Binds(i)
  /\ holder' = i
  /\ UNCHANGED <<db, call, pass, world>>

Callback(i) ==
  /\ holder = i
  /\ holder' = Free
  /\ \/ UNCHANGED db
     \/ /\ Callbacks(i) < MaxCallbacks
        /\ db' = [db EXCEPT !.log = Append(@, Event("callback", i))]
  /\ UNCHANGED <<call, pass, world>>

Busy == holder = Free /\ holder' = Stranger /\ UNCHANGED <<db, call, pass, world>>
Leave == holder = Stranger /\ holder' = Free /\ UNCHANGED <<db, call, pass, world>>

-----------------------------------------------------------------------------
(* control.finish_invocation: the terminal event, unless there is one, and *)
(* the end of the pending row, if it gets the lock; the end of the token   *)
(* in any case.                                                            *)

(* Mutant: the event does not need the lock. *)
RecordsUnlocked == TRUE
Records == holder = Free

Finished(i, kind) ==
  [db EXCEPT !.token[i] = 0, !.pending = IF Records THEN @ \ {i} ELSE @,
             !.log = IF Records /\ ~Ended(i) THEN Append(@, Event(kind, i)) ELSE @]

(* Mutant: finished when the token is gone. *)
CompleteSoon(i, rows) == rows.token[i] = 0
Complete(i, rows) ==
  rows.token[i] = 0 /\ \E n \in DOMAIN rows.log : rows.log[n].of = i /\ rows.log[n].kind \in Kinds

(* The end of the execution.  The gateway's deadline is before the token's *)
(* expiry: it began to count earlier.                                      *)
Return(i, kind) ==
  /\ At(i, "run")
  /\ kind = "function.complete" => age[i] = "new"
  /\ call' = [call EXCEPT ![i].step = "finish", ![i].kind = kind, ![i].left = Attempts]
  /\ UNCHANGED <<db, holder, pass, world>>

Gone(answer) == [Resting EXCEPT !.step = "gone", !.answer = answer]
Answer(i) == IF call[i].kind = "function.complete" THEN "ok" ELSE "error"
Finish(i) ==
  /\ At(i, "finish") /\ i \in db.made
  /\ db' = Finished(i, call[i].kind)
  /\ call' = IF Complete(i, db')
             THEN [call EXCEPT ![i] = Gone(Answer(i))]
             ELSE IF call[i].left = 1 THEN [call EXCEPT ![i] = Gone("error")]
             ELSE [call EXCEPT ![i].left = @ - 1]
  /\ UNCHANGED <<holder, pass, world>>

(* Any other error, and the end of the five seconds, end the attempts; the *)
(* last of them may have committed.  A Run that a restore took back cannot *)
(* be finished.                                                            *)
FinishFails(i) ==
  /\ At(i, "finish")
  /\ IF i \in db.made
     THEN Fault /\ db' \in {db, Finished(i, call[i].kind)}
     ELSE UNCHANGED <<db, faults>>
  /\ call' = [call EXCEPT ![i] = Gone("error")]
  /\ UNCHANGED <<backup, age, holder, pass>>

-----------------------------------------------------------------------------
(* reconcileInvocations *)

Due == {i \in db.pending : age[i] = "overdue" /\ i > pass.cursor}
Page == {i \in Due : Cardinality({j \in Due : j < i}) < PageSize}

Begin ==
  /\ ~pass.on
  /\ pass' = [pass EXCEPT !.on = TRUE, !.runs = Page, !.left = Attempts,
                          !.full = Cardinality(Page) = PageSize]
  /\ UNCHANGED <<db, holder, call, world>>

After(i) == [pass EXCEPT !.cursor = i, !.runs = @ \ {i}, !.left = Attempts]
Reconcile ==
  /\ pass.on
  /\ \E i \in pass.runs :
       /\ \A j \in pass.runs : i <= j
       /\ IF i \in db.made
          THEN /\ db' = Finished(i, "function.fail")
               /\ pass' = IF Complete(i, db') \/ pass.left = 1 THEN After(i)
                          ELSE [pass EXCEPT !.left = @ - 1]
          ELSE UNCHANGED db /\ pass' = After(i)
  /\ UNCHANGED <<holder, call, world>>

(* Mutant: the cursor stays behind the last page. *)
CursorStays == pass.cursor
(* After a page that is not full the next pass begins at the front. *)
CursorAfter == IF pass.full THEN pass.cursor ELSE 0
EndPass ==
  /\ pass.on /\ pass.runs = {}
  /\ pass' = [Idle EXCEPT !.cursor = CursorAfter]
  /\ UNCHANGED <<db, holder, call, world>>

(* the deadline of the pass *)
CutPass ==
  /\ pass.on /\ Fault
  /\ pass' = [Idle EXCEPT !.cursor = IF pass.runs = {} THEN pass.cursor ELSE Min(pass.runs)]
  /\ UNCHANGED <<db, backup, age, holder, call>>

-----------------------------------------------------------------------------
Expire(i) ==
  /\ i \in db.made /\ age[i] = "new"
  /\ age' = [age EXCEPT ![i] = "expired"]
  /\ UNCHANGED <<db, backup, holder, call, pass, faults>>

(* The gateway aborts the execution at its deadline and its attempts to    *)
(* finish after five seconds; ten seconds after the expiry it is done.     *)
Overdue(i) ==
  /\ age[i] = "expired" /\ call[i].step \notin {"run", "finish"}
  /\ age' = [age EXCEPT ![i] = "overdue"]
  /\ UNCHANGED <<db, backup, holder, call, pass, faults>>

(* The server process dies.  Its transactions end; the function may go on. *)
Crash ==
  /\ Fault
  /\ holder' = Free
  /\ call' = [i \in Invocations |->
                IF call[i].step \in {"run", "finish"} THEN Gone("none")
                ELSE call[i]]
  /\ pass' = Idle
  /\ UNCHANGED <<db, backup, age>>

Backup ==
  /\ backup = <<>> /\ db.epoch <= MaxRestores
  /\ backup' = <<db>>
  /\ UNCHANGED <<db, holder, age, call, pass, faults>>

(* A restore replaces the database, behind a gate and in a new epoch, with *)
(* the server stopped.  Callers of the lost timeline are not answered now. *)
Restore ==
  /\ backup # <<>> /\ db.epoch <= MaxRestores
  /\ db' = [backup[1] EXCEPT !.gate = TRUE, !.epoch = db.epoch + 1]
  /\ call' = [i \in Invocations |->
                [Resting EXCEPT !.step = IF At(i, "idle") THEN "idle" ELSE "gone"]]
  /\ holder' = Free /\ pass' = Idle
  /\ UNCHANGED <<backup, age, faults>>

Open == db.gate /\ db' = [db EXCEPT !.gate = FALSE] /\ UNCHANGED <<holder, call, pass, world>>

-----------------------------------------------------------------------------
Init ==
  /\ db = NoRows /\ backup = <<>> /\ holder = Free
  /\ age = [i \in Invocations |-> "new"]
  /\ call = [i \in Invocations |-> Resting]
  /\ pass = Idle /\ faults = 0

Next ==
  \/ \E i \in Invocations :
       \/ \E answered \in BOOLEAN : Create(i, answered)
       \/ Bind(i) \/ Callback(i) \/ Finish(i) \/ FinishFails(i) \/ Expire(i) \/ Overdue(i)
       \/ \E kind \in Kinds : Return(i, kind)
  \/ Busy \/ Leave \/ Begin \/ Reconcile \/ EndPass \/ CutPass
  \/ Crash \/ Backup \/ Restore \/ Open
Spec == Init /\ [][Next]_vars

(* Time passes, transactions end, the gateway keeps its deadlines and the  *)
(* interval of reconciliation fires.                                       *)
Fairness ==
  /\ \A i \in Invocations :
       /\ WF_vars(Expire(i)) /\ WF_vars(Overdue(i)) /\ WF_vars(Callback(i))
       /\ WF_vars(Finish(i) \/ FinishFails(i)) /\ WF_vars(Return(i, "function.timeout"))
  /\ WF_vars(Leave) /\ WF_vars(Begin) /\ WF_vars(Reconcile) /\ WF_vars(EndPass)
FairSpec == Spec /\ Fairness

-----------------------------------------------------------------------------
(* Properties *)

TypeOK ==
  /\ db.token \in [Invocations -> 0 .. MaxRestores + 1] /\ db.epoch \in 1 .. MaxRestores + 1
  /\ db.made \subseteq Invocations /\ db.pending \subseteq db.made /\ db.gate \in BOOLEAN
  /\ \A i \in Invocations : db.token[i] # 0 => i \in db.pending
  /\ \A n \in DOMAIN db.log :
       /\ db.log[n].kind \in Kinds \cup {"function.invoke", "callback"}
       /\ db.log[n].of \in db.made /\ db.log[n].epoch \in 1 .. db.epoch
  /\ Len(backup) <= 1 /\ holder \in Invocations \cup {Free, Stranger}
  /\ age \in [Invocations -> {"new", "expired", "overdue"}]
  /\ call \in [Invocations -> [step : {"idle", "run", "finish", "gone"}, kind : Kinds,
                               left : 0 .. Attempts, answer : {"none", "ok", "error"}]]
  /\ pass \in [runs : SUBSET Invocations, left : 0 .. Attempts, full : BOOLEAN, on : BOOLEAN,
               cursor : Invocations \cup {0}]
  /\ faults \in 0 .. MaxFaults

(* The terminal event is the last word: an invocation has at most one, and *)
(* none of its callbacks commits after it (ADR-0019), not even one that    *)
(* bound its context before the token was deleted.                         *)
LastWord ==
  \A m, n \in DOMAIN db.log :
    m < n /\ db.log[m].kind \in Kinds => db.log[n].of # db.log[m].of

(* The authority of an invocation does not survive a restore: a callback   *)
(* belongs to the epoch that made its token.                               *)
NoOldAuthority ==
  \A m, n \in DOMAIN db.log :
    /\ db.log[m].kind = "function.invoke" /\ db.log[n].kind = "callback"
    /\ db.log[m].of = db.log[n].of
    => db.log[m].epoch = db.log[n].epoch

(* A caller who is answered with the function's result can rely on the     *)
(* record: the log says function.complete, and the token is dead.          *)
AnswerRecorded ==
  \A i \in Invocations : call[i].answer = "ok" =>
    /\ db.token[i] = 0 /\ i \notin db.pending
    /\ \E n \in DOMAIN db.log : db.log[n].of = i /\ db.log[n].kind = "function.complete"

(* Every invocation that was recorded ends in the log, and its token goes, *)
(* whatever died in between, once others do not keep the lock from it for  *)
(* ever.                                                                   *)
EachEnds ==
  <>[](holder # Stranger) =>
    \A i \in Invocations :
      i \in db.made ~> i \notin db.made \/ (Ended(i) /\ db.token[i] = 0 /\ i \notin db.pending)

(* What the log says of an invocation can be relied on: it ends once, with *)
(* what its caller was told, and no authority outlives its timeline.       *)
LogConcludes == LastWord /\ AnswerRecorded /\ NoOldAuthority
=============================================================================
