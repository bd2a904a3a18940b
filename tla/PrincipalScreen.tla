-------------------------- MODULE PrincipalScreen --------------------------
(***************************************************************************)
(* The Principals page of the dashboard (apps/web/client, principals.ts    *)
(* and principals-state.ts): it lists the Principals of a Workspace and    *)
(* revokes one at a time, which a person selects and confirms.  As in      *)
(* module Inbox a call is given up after 15 seconds and may reach the      *)
(* server all the same; an answer that is already here when its call is    *)
(* aborted is still delivered, and the reducer has to drop it.  Other      *)
(* people revoke Principals too, and no one activates one again.           *)
(*                                                                         *)
(* Of a Principal only the status is kept.  The generation is left out, it *)
(* changes in tests alone.                                                 *)
(***************************************************************************)
EXTENDS Naturals, Sequences, FiniteSetsExt

CONSTANTS
  Principals,    \* numbered in the order of their ids
  Limit,         \* items of a page
  Judged,        \* bound: the Principals that people act on
  MaxRequests,   \* bound: calls of the page
  Nothing

\* Assumed of the constants, by the module that gives them values.
PrincipalScreenAssumption ==
  /\ Judged \subseteq Principals /\ Principals \subseteq Nat \ {0}
  /\ {Limit, MaxRequests} \subseteq Nat \ {0}

VARIABLES
  status,   \* of the Principals in the database
  tab       \* the page: what it shows and its calls
vars == <<status, tab>>

Ids == 1 .. MaxRequests
First == [cursors |-> <<0>>, page |-> 1]
NoPage == [ok |-> FALSE, items |-> <<>>, next |-> 0]
NoCall == [kind |-> "none", of |-> 0, pages |-> First, server |-> "none", answer |-> NoPage,
           client |-> "none"]
(* Of a call that is over for both sides nothing is kept. *)
Over == [NoCall EXCEPT !.client = "ended"]
NoRevocation == [of |-> 0, phase |-> "none", id |-> 0]

-----------------------------------------------------------------------------
(* The server *)

Listed(after) ==
  LET rest == {p \in Principals : p > after}
      items == {p \in rest : Cardinality({q \in rest : q <= p}) <= Limit}
  IN  [ok |-> TRUE, items |-> [p \in items |-> status[p]],
       next |-> IF items = rest THEN 0 ELSE Max(items)]

Coming(c, kind) ==
  tab.calls[c].kind = kind /\ tab.calls[c].server = "coming"
Answers(c, answer) ==
  [tab EXCEPT !.calls[c] = IF @.client = "ended" THEN Over
                           ELSE [@ EXCEPT !.server = "done", !.answer = answer]]

ServeList(c) ==
  /\ Coming(c, "list")
  /\ tab' = Answers(c, Listed(tab.calls[c].pages.cursors[tab.calls[c].pages.page]))
  /\ UNCHANGED status

Revoked(p) == [status EXCEPT ![p] = "revoked"]
(* revokePrincipal may be repeated; its transaction fails, or its commit   *)
(* is not seen to succeed.                                                 *)
ServeRevocation(c) ==
  /\ Coming(c, "revoke")
  /\ \/ status' = Revoked(tab.calls[c].of) /\ \E ok \in BOOLEAN : tab' = Answers(c, [NoPage EXCEPT !.ok = ok])
     \/ tab' = Answers(c, NoPage) /\ UNCHANGED status
RevokedElsewhere(p) == status[p] = "active" /\ status' = Revoked(p) /\ UNCHANGED tab

-----------------------------------------------------------------------------
(* The reducer (principals-state.ts), as functions of the page t *)

Pending(t) == t.revocation.phase = "pending"

ListStart(t, id) == IF Pending(t) THEN t ELSE [t EXCEPT !.listId = id]

(* Mutant: whatever list arrives is shown. *)
AcceptsAny(t, id) == t.listId # 0
Accepts(t, id) == t.listId = id
ListResult(t, id, answer) ==
  IF ~Accepts(t, id) THEN t
  ELSE IF answer = NoPage THEN [t EXCEPT !.listId = 0]
  ELSE [t EXCEPT !.listId = 0, !.next = answer.next, !.pages = t.calls[id].pages,
                 !.items = [p \in DOMAIN answer.items |->
                              IF p \in t.confirmed THEN "revoked" ELSE answer.items[p]]]

(* Mutant: an answer is about the revocation there is. *)
IsAboutSelected(t, id) == Pending(t)
IsAbout(t, id) ==
  Pending(t) /\ t.revocation.id = id /\ t.revocation.of = t.calls[id].of
RevokeResult(t, id, phase) ==
  IF ~IsAbout(t, id) THEN t
  ELSE LET u == [t EXCEPT !.revocation.phase = phase, !.revocation.id = 0]
       IN  IF phase # "confirmed" THEN u
           ELSE [u EXCEPT !.confirmed = @ \cup {t.calls[id].of},
                          !.items = [p \in DOMAIN @ |-> IF p = t.calls[id].of THEN "revoked" ELSE @[p]]]

-----------------------------------------------------------------------------
(* The client (principals.ts) *)

Room == tab.used < MaxRequests
Aborted(t, c) == IF c \in Ids /\ t.calls[c].client = "waiting"
                 THEN [t EXCEPT !.calls[c].client = "aborted"] ELSE t
Sends(t, call) ==
  [t EXCEPT !.used = @ + 1,
            !.calls[t.used + 1] = [call EXCEPT !.server = "coming", !.client = "waiting"]]
Ends(t, c) ==
  IF t.calls[c].kind = "revoke" /\ t.calls[c].server = "coming"
  THEN [t EXCEPT !.calls[c].client = "ended"] ELSE [t EXCEPT !.calls[c] = Over]

Load(t, pages) ==
  IF Pending(t) THEN t
  ELSE LET u == [Aborted(t, t.current) EXCEPT !.current = t.used + 1]
       IN  ListStart(Sends(u, [NoCall EXCEPT !.kind = "list", !.pages = pages]), t.used + 1)

(* After an answer of 200 *)
AfterAnswer(t, c) ==
  IF t.revocation.phase = "confirmed" THEN Load(Ends(t, c), t.pages) ELSE Ends(t, c)

Waits(c, kind) == tab.calls[c].kind = kind /\ tab.calls[c].client = "waiting"
Open(c, kind) == tab.calls[c].kind = kind /\ tab.calls[c].client \in {"waiting", "aborted"}
Client(t) == ~tab.gone /\ tab' = t /\ UNCHANGED status

ListAnswered(c) ==
  /\ Open(c, "list") /\ tab.calls[c].server = "done"
  /\ Client(Ends(ListResult(tab, c, tab.calls[c].answer), c))
ListTimedOut(c) ==
  /\ Waits(c, "list")
  /\ Client(ListResult(Aborted(tab, c), c, NoPage))
(* Also the answer that is an error *)
ListFailed(c) ==
  /\ Open(c, "list")
  /\ Client(Ends(ListResult(tab, c, NoPage), c))

RevokeConfirmed(c) ==
  /\ Open(c, "revoke") /\ tab.calls[c].server = "done" /\ tab.calls[c].answer.ok
  /\ LET t == RevokeResult(tab, c, "confirmed")
     IN  /\ Room \/ t.revocation.phase # "confirmed"
         /\ Client(AfterAnswer(t, c))
(* An answer without the code of an error says nothing. *)
RevokeRefused(c) ==
  /\ Open(c, "revoke") /\ tab.calls[c].server = "done" /\ ~tab.calls[c].answer.ok
  /\ \E phase \in {"failed", "outcome-unknown"} : Client(Ends(RevokeResult(tab, c, phase), c))
RevokeTimedOut(c) ==
  /\ Waits(c, "revoke")
  /\ Client(RevokeResult(Aborted(tab, c), c, "outcome-unknown"))
RevokeFailed(c) ==
  /\ Open(c, "revoke")
  /\ Client(Ends(RevokeResult(tab, c, "outcome-unknown"), c))

(* The person: the buttons of a row, and of the revocation *)
Retry(p) == p = tab.revocation.of /\ tab.revocation.phase \in {"failed", "outcome-unknown"}
Select(p) ==
  /\ ~Pending(tab) /\ (Retry(p) \/ (p \in DOMAIN tab.items /\ tab.items[p] = "active"))
  /\ Client([tab EXCEPT !.revocation = [of |-> p, phase |-> "confirming", id |-> 0]])
Cancel ==
  /\ ~Pending(tab) /\ tab.revocation # NoRevocation
  /\ Client([tab EXCEPT !.revocation = NoRevocation])
Confirm ==
  /\ Room /\ tab.revocation.phase = "confirming"
  /\ LET t == [Aborted(tab, tab.current) EXCEPT !.listId = 0, !.revocation.phase = "pending",
                                               !.revocation.id = tab.used + 1]
     IN  Client(Sends(t, [NoCall EXCEPT !.kind = "revoke", !.of = tab.revocation.of]))

Refresh == Room /\ Client(Load(tab, First))
Previous ==
  /\ Room /\ tab.pages.page > 1
  /\ Client(Load(tab, [tab.pages EXCEPT !.page = @ - 1]))
Further ==
  /\ Room /\ tab.next # 0
  /\ Client(Load(tab, [cursors |-> Append(SubSeq(tab.pages.cursors, 1, tab.pages.page), tab.next),
                       page |-> tab.pages.page + 1]))

Blank ==
  [gone |-> FALSE, current |-> 0, used |-> 0, calls |-> [c \in Ids |-> NoCall], items |-> <<>>,
   next |-> 0, listId |-> 0, pages |-> First, revocation |-> NoRevocation, confirmed |-> {}]

(* The page goes, with what it showed; its revocations may still arrive. *)
Dispose == Client([Blank EXCEPT !.gone = TRUE, !.calls = [c \in Ids |->
             IF Coming(c, "revoke") THEN [tab.calls[c] EXCEPT !.client = "aborted"] ELSE NoCall]])

-----------------------------------------------------------------------------
Init ==
  /\ status = [p \in Principals |-> "active"]
  /\ tab = Load(Blank, First)

Server ==
  \/ \E p \in Judged : RevokedElsewhere(p)
  \/ \E c \in Ids : ServeList(c) \/ ServeRevocation(c)
Calls == \E c \in Ids :
  \/ ListAnswered(c) \/ ListTimedOut(c) \/ ListFailed(c)
  \/ RevokeConfirmed(c) \/ RevokeRefused(c) \/ RevokeTimedOut(c) \/ RevokeFailed(c)
Person ==
  \/ \E p \in Judged : Select(p)
  \/ Cancel \/ Confirm \/ Refresh \/ Previous \/ Further \/ Dispose
Next == Server \/ Calls \/ Person

-----------------------------------------------------------------------------
(* A revocation that is shown as confirmed is one of the Principal it is   *)
(* shown for, and no list shows that Principal as active again.            *)
ConfirmedIsTrue ==
  /\ tab.revocation.phase = "confirmed" => status[tab.revocation.of] = "revoked"
  /\ \A p \in tab.confirmed :
       status[p] = "revoked" /\ (p \in DOMAIN tab.items => tab.items[p] = "revoked")

(* A revocation under way keeps every list from loading: its call is still *)
(* waited for, and so is the one of a list that is loading.                *)
NotStuck == ~tab.gone =>
  /\ Pending(tab) => tab.calls[tab.revocation.id].client = "waiting"
  /\ tab.listId # 0 => tab.calls[tab.listId].client = "waiting" /\ ~Pending(tab)

ScreenTrue == ConfirmedIsTrue /\ NotStuck

(* A Principal that was shown as revoked is not shown as active.           *)
Onward == \A p \in DOMAIN tab.items \cap DOMAIN tab'.items :
  tab.items[p] = "revoked" => tab'.items[p] = "revoked"
NeverStale == [][Onward]_vars
=============================================================================
