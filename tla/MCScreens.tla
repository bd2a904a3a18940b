----------------------------- MODULE MCScreens -----------------------------
(***************************************************************************)
(* Finite instances of the screens of the dashboard: Timeline, Inbox and   *)
(* PrincipalScreen.  They share no state: a behaviour is one of one of     *)
(* them.  MCLedgerBatch instantiates this module.                            *)
(***************************************************************************)
EXTENDS Timeline

CONSTANTS
  Numbers, Judged, Acted, Size, InboxCalls, ScreenCalls

VARIABLES
  part,   \* the module whose behaviour this is
  approvals, inbox, status, screen

inboxVars == <<approvals, inbox>>
screenVars == <<status, screen>>

Approving == INSTANCE Inbox WITH row <- approvals, tab <- inbox,
  Approvals <- Numbers, Limit <- Size, MaxRequests <- InboxCalls
Revoking == INSTANCE PrincipalScreen WITH tab <- screen,
  Principals <- Numbers, Judged <- Acted, Limit <- Size, MaxRequests <- ScreenCalls

Assumptions ==
  TimelineAssumption /\ Approving!InboxAssumption /\ Revoking!PrincipalScreenAssumption

screensVars == <<part, vars, inboxVars, screenVars>>
Follows(A) == part = "page" /\ A /\ UNCHANGED <<part, inboxVars, screenVars>>
Approves(A) == part = "inbox" /\ A /\ UNCHANGED <<part, vars, screenVars>>
Revokes(A) == part = "screen" /\ A /\ UNCHANGED <<part, vars, inboxVars>>

Blank ==
  /\ Init /\ Approving!Init /\ Revoking!Init
  /\ part # "inbox" =>
       (\A a \in Numbers : approvals[a].state = "open") /\ inbox = Approving!Blank
MCInit == part \in {"page", "inbox", "screen"} /\ Blank
MCNext == Follows(Next) \/ Approves(Approving!Next) \/ Revokes(Revoking!Next)
(* Nobody looks at the dashboard. *)
Closed == part = "closed" /\ Blank

(* Timeline: the page shows one timeline, and all of it.  Inbox and        *)
(* PrincipalScreen: what is shown as confirmed is so in the database, no   *)
(* submission blocks the page for ever, and the inbox goes on polling; no  *)
(* list replaces one that was read later, and a Principal that was shown   *)
(* as revoked is not shown as active.                                      *)
ScreensTrue ==
  /\ [](/\ part = "page" => Shown
        /\ part = "inbox" => Approving!InboxTrue
        /\ part = "screen" => Revoking!ScreenTrue)
  /\ [][/\ part = "inbox" => Approving!Onward
        /\ part = "screen" => Revoking!Onward]_screensVars
=============================================================================
