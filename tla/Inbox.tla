------------------------------- MODULE Inbox -------------------------------
(***************************************************************************)
(* The inbox of approvals in the dashboard (apps/web/client,               *)
(* approval-inbox.ts and approval-state.ts) against the Approvals it lists *)
(* and decides.  The page polls while it can be seen; what it knows of the *)
(* decision of a person it learns from answers that may be late, lost, or  *)
(* about a call it gave up.  A call that was given up still reaches the    *)
(* server, and an answer that is already here when its call is aborted is  *)
(* still delivered: the reducer has to drop it.  Other people decide the   *)
(* same Approvals.                                                         *)
(*                                                                         *)
(* The three reasons differ in the decision they permit, so a reason is    *)
(* that decision here.  The texts of errors are left out, and the epoch,   *)
(* which only tests change: the screen makes a new inbox for a Workspace.  *)
(***************************************************************************)
EXTENDS Naturals, Sequences, FiniteSetsExt

CONSTANTS
  Approvals,     \* numbered in the order of their creation
  Limit,         \* items of a page
  Judged,        \* bound: the Approvals that people act on; the others wait
  MaxRequests,   \* bound: calls of the page
  Nothing

\* Assumed of the constants, by the module that gives them values.
InboxAssumption ==
  /\ Judged \subseteq Approvals /\ Approvals \subseteq Nat \ {0} /\ IsFiniteSet(Approvals)
  /\ {Limit, MaxRequests} \subseteq Nat \ {0}

VARIABLES
  row,   \* the Approvals in the database
  tab    \* the page: what it shows, its timer and its calls
vars == <<row, tab>>

Verdicts == {"approve", "reject"}
Ids == 1 .. MaxRequests
First == [cursors |-> <<0>>, page |-> 1]
NoRow == [state |-> "none", by |-> 0, verdict |-> Nothing]
NoPage == [ok |-> FALSE, items |-> <<>>, next |-> 0, observedAt |-> 0]
NoCall == [kind |-> "none", of |-> 0, verdict |-> Nothing, pages |-> First,
           server |-> "none", answer |-> NoPage, client |-> "none"]
(* Of a call that is over for both sides nothing is kept. *)
Over == [NoCall EXCEPT !.client = "ended"]
NoSubmission == [id |-> 0, phase |-> "none"]

-----------------------------------------------------------------------------
(* The server.  The clock of the database: what happened to Approvals      *)
(* until now.                                                              *)

Now == LET made == {a \in Approvals : row[a].state # "none"}
           closed == {a \in made : row[a].state # "open"}
       IN  Cardinality(made) + Cardinality(closed)

(* listApprovals: the pending ones past the cursor *)
Listed(after) ==
  LET pending == {a \in Approvals : a > after /\ row[a].state \in {"open", "expired"}}
      items == {a \in pending : Cardinality({b \in pending : b <= a}) <= Limit}
  IN  [ok |-> TRUE, items |-> [a \in items |-> row[a].state = "expired"],
       next |-> IF items = pending THEN 0 ELSE Max(items), observedAt |-> Now]

Request(a) ==
  /\ row[a].state = "none"
  /\ row' = [row EXCEPT ![a].state = "open"]
  /\ UNCHANGED tab
Expire(a) ==
  /\ row[a].state = "open"
  /\ row' = [row EXCEPT ![a].state = "expired"]
  /\ UNCHANGED tab
Decided(a, id, v) == [row EXCEPT ![a] = [state |-> "decided", by |-> id, verdict |-> v]]
DecidedElsewhere(a) ==
  /\ row[a].state = "open"
  /\ \E v \in Verdicts : row' = Decided(a, 0, v)
  /\ UNCHANGED tab

Coming(c, kind) == tab.calls[c].kind = kind /\ tab.calls[c].server = "coming"
Answers(c, answer) ==
  [tab EXCEPT !.calls[c] = IF @.client = "ended" THEN Over
                           ELSE [@ EXCEPT !.server = "done", !.answer = answer]]

ServeList(c) ==
  /\ Coming(c, "list")
  /\ tab' = Answers(c, Listed(tab.calls[c].pages.cursors[tab.calls[c].pages.page]))
  /\ UNCHANGED row

(* decideApproval: it may be refused, and the answer may be                *)
(* approval_unavailable although the decision was committed.               *)
ServeDecision(c) ==
  /\ Coming(c, "decide")
  /\ LET a == tab.calls[c].of
     IN \/ /\ row[a].state = "open"
           /\ row' = Decided(a, c, tab.calls[c].verdict)
           /\ \E ok \in BOOLEAN : tab' = Answers(c, [NoPage EXCEPT !.ok = ok])
        \/ tab' = Answers(c, NoPage) /\ UNCHANGED row

-----------------------------------------------------------------------------
(* The reducer (approval-state.ts), as functions of the page t.  The page  *)
(* that a list is to show is the one of its call.                          *)

Deciding(t) == \E a \in Approvals : t.submissions[a].phase = "deciding"

ListStart(t, id) == IF Deciding(t) THEN t ELSE [t EXCEPT !.listId = id]

(* Mutant: whatever list arrives is shown. *)
AcceptsAny(t, id) == t.listId # 0
Accepts(t, id) == t.listId = id
ListResult(t, id, answer) ==
  IF ~Accepts(t, id) THEN t
  ELSE IF answer = NoPage THEN [t EXCEPT !.listId = 0]
  ELSE [t EXCEPT !.listId = 0, !.items = answer.items, !.next = answer.next,
                 !.observedAt = answer.observedAt, !.pages = t.calls[id].pages]

(* Mutant: the reason can be changed under a submission. *)
ReasonAlways(t, a) == TRUE
ReasonOpen(t, a) == t.submissions[a].phase = "none"

DecideStart(t, id, a) ==
  [t EXCEPT !.listId = 0, !.submissions[a] = [id |-> id, phase |-> "deciding"]]

(* Mutant: an answer is about the submission there is. *)
IsAboutApproval(t, id) == t.submissions[t.calls[id].of].phase = "deciding"
IsAbout(t, id) ==
  LET s == t.submissions[t.calls[id].of] IN s.phase = "deciding" /\ s.id = id
DecideResult(t, id, phase) ==
  IF IsAbout(t, id) THEN [t EXCEPT !.submissions[t.calls[id].of].phase = phase] ELSE t

-----------------------------------------------------------------------------
(* The client (approval-inbox.ts), likewise.                               *)

Room == tab.used < MaxRequests
(* For a step that may load *)
Fits(t) == Room \/ Deciding(t) \/ tab.seen # "visible"
Aborted(t, c) == IF c \in Ids /\ t.calls[c].client = "waiting"
                 THEN [t EXCEPT !.calls[c].client = "aborted"] ELSE t
Sends(t, call) ==
  [t EXCEPT !.used = @ + 1,
            !.calls[t.used + 1] = [call EXCEPT !.server = "coming", !.client = "waiting"]]
Ends(t, c) ==
  IF t.calls[c].kind = "decide" /\ t.calls[c].server = "coming"
  THEN [t EXCEPT !.calls[c].client = "ended"] ELSE [t EXCEPT !.calls[c] = Over]

Schedule(t) == [t EXCEPT !.timer = (t.seen = "visible")]
Load(t, pages) ==
  IF t.seen # "visible" \/ Deciding(t) THEN t
  ELSE LET u == [Aborted(t, t.current) EXCEPT !.timer = FALSE, !.current = t.used + 1]
       IN  ListStart(Sends(u, [NoCall EXCEPT !.kind = "list", !.pages = pages]), t.used + 1)

(* The last lines of a load and of a decision.                             *)
(* Mutant: only a decision that was answered loads the list again.         *)
AfterList(t, c) == IF t.current = c THEN Schedule(Ends(t, c)) ELSE Ends(t, c)
AfterAnswer(t, c) ==
  IF t.calls[c].server = "done" THEN Load(Ends(t, c), t.pages) ELSE Ends(t, c)
AfterDecision(t, c) == Load(Ends(t, c), t.pages)

Waits(c, kind) == tab.calls[c].kind = kind /\ tab.calls[c].client = "waiting"
Open(c, kind) == tab.calls[c].kind = kind /\ tab.calls[c].client \in {"waiting", "aborted"}
Here == tab.seen # "gone"
Client(t) == Here /\ tab' = t /\ UNCHANGED row

ListAnswered(c) ==
  /\ Open(c, "list") /\ tab.calls[c].server = "done"
  /\ Client(AfterList(ListResult(tab, c, tab.calls[c].answer), c))
ListTimedOut(c) ==
  /\ Waits(c, "list")
  /\ Client(ListResult(Aborted(tab, c), c, NoPage))
(* Also the answer that is an error *)
ListFailed(c) ==
  /\ Open(c, "list")
  /\ Client(AfterList(ListResult(tab, c, NoPage), c))

Decide(a) ==
  /\ Room /\ a \in DOMAIN tab.items /\ ~tab.items[a]
  /\ tab.reasons[a] # Nothing /\ tab.submissions[a].phase = "none"
  /\ LET t == [Aborted(DecideStart(tab, tab.used + 1, a), tab.current) EXCEPT !.timer = FALSE]
     IN  Client(Sends(t, [NoCall EXCEPT !.kind = "decide", !.of = a, !.verdict = tab.reasons[a]]))

(* An answer without the code of an error says nothing. *)
DecisionAnswered(c) ==
  /\ Open(c, "decide") /\ tab.calls[c].server = "done"
  /\ \E phase \in IF tab.calls[c].answer.ok THEN {"confirmed"} ELSE {"failed", "unknown"} :
       LET t == DecideResult(tab, c, phase) IN Fits(t) /\ Client(AfterDecision(t, c))
DecisionTimedOut(c) ==
  /\ Waits(c, "decide")
  /\ Client(DecideResult(Aborted(tab, c), c, "unknown"))
DecisionFailed(c) ==
  /\ Open(c, "decide")
  /\ LET t == DecideResult(tab, c, "unknown") IN Fits(t) /\ Client(AfterDecision(t, c))

(* The person *)
Reason(a, v) == ReasonOpen(tab, a) /\ Client([tab EXCEPT !.reasons[a] = v])
Dismiss(a) ==
  /\ tab.submissions[a].phase \in {"failed", "unknown"}
  /\ Client([tab EXCEPT !.submissions[a] = NoSubmission])
Refresh == Fits(tab) /\ Client(Load(tab, First))
Previous ==
  /\ Fits(tab) /\ tab.pages.page > 1
  /\ Client(Load(tab, [tab.pages EXCEPT !.page = @ - 1]))
Further ==
  /\ Fits(tab) /\ tab.next # 0
  /\ Client(Load(tab, [cursors |-> Append(SubSeq(tab.pages.cursors, 1, tab.pages.page), tab.next),
                       page |-> tab.pages.page + 1]))

Tick == Fits(tab) /\ tab.timer /\ Client(Load([tab EXCEPT !.timer = FALSE], tab.pages))
Hide ==
  /\ tab.seen = "visible"
  /\ Client([Aborted(tab, tab.current) EXCEPT !.seen = "hidden", !.timer = FALSE,
                                              !.listId = 0, !.current = 0])
Show ==
  /\ (Room \/ Deciding(tab)) /\ tab.seen = "hidden"
  /\ Client(Load([tab EXCEPT !.seen = "visible", !.timer = FALSE], tab.pages))

(* What the page does afterwards nobody sees; its calls may still arrive. *)
Dispose ==
  Client([tab EXCEPT !.seen = "gone", !.timer = FALSE, !.calls = [c \in Ids |->
            IF @[c].client = "waiting" THEN [@[c] EXCEPT !.client = "aborted"] ELSE @[c]]])

-----------------------------------------------------------------------------
Blank ==
  [seen |-> "hidden", timer |-> FALSE, current |-> 0, used |-> 0, calls |-> [c \in Ids |-> NoCall],
   items |-> <<>>, next |-> 0, observedAt |-> 0, listId |-> 0, pages |-> First,
   submissions |-> [a \in Approvals |-> NoSubmission], reasons |-> [a \in Approvals |-> Nothing]]

(* The page starts on a document that is visible or hidden. *)
Init ==
  /\ row \in [Approvals -> {NoRow, [NoRow EXCEPT !.state = "open"]}]
  /\ \A a \in Approvals \ Judged : row[a].state = "open"
  /\ tab \in {Blank, Load([Blank EXCEPT !.seen = "visible"], First)}

Server ==
  \/ \E a \in Judged : Request(a) \/ Expire(a) \/ DecidedElsewhere(a)
  \/ \E c \in Ids : ServeList(c) \/ ServeDecision(c)
Calls == \E c \in Ids :
  \/ ListAnswered(c) \/ ListTimedOut(c) \/ ListFailed(c)
  \/ DecisionAnswered(c) \/ DecisionTimedOut(c) \/ DecisionFailed(c)
Person ==
  \/ \E a \in Judged : Decide(a) \/ Dismiss(a) \/ \E v \in Verdicts \cup {Nothing} : Reason(a, v)
  \/ Refresh \/ Previous \/ Further \/ Hide \/ Show \/ Dispose
Next == Server \/ Calls \/ Person \/ Tick

-----------------------------------------------------------------------------
(* A decision that is shown as confirmed is the one in the database, with  *)
(* the reason that is shown beside it, made by this page's own call.       *)
ConfirmedIsTrue == \A a \in Approvals :
  tab.submissions[a].phase = "confirmed" =>
    row[a] = [state |-> "decided", by |-> tab.submissions[a].id, verdict |-> tab.reasons[a]]

(* Nothing on the page waits for an answer nobody waits for: a submission  *)
(* under way keeps every list from loading.                                *)
NotStuck == Here =>
  /\ \A a \in Approvals : tab.submissions[a].phase = "deciding" =>
       tab.calls[tab.submissions[a].id].client = "waiting"
  /\ tab.listId # 0 => tab.calls[tab.listId].client = "waiting" /\ ~Deciding(tab)

(* A page that can be seen goes on polling: its timer runs, or a call is   *)
(* under way that will load or start it.                                   *)
GoesOn == tab.seen = "visible" =>
  \/ tab.timer
  \/ \E c \in Ids : Open(c, "decide") \/ (c = tab.current /\ Open(c, "list"))

InboxTrue == ConfirmedIsTrue /\ NotStuck /\ GoesOn

(* No list replaces one that was read later. *)
Onward == tab'.observedAt >= tab.observedAt
NeverStale == [][Onward]_vars
=============================================================================
