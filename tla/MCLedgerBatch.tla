--------------------------- MODULE MCLedgerBatch ---------------------------
(* The instance of DeliveryLedger with two messages, for batches, and the  *)
(* screens of the dashboard (MCScreens).  They share no state: a behaviour *)
(* is one of the ledger or one of a screen.                                *)
EXTENDS MCDeliveryLedger

CONSTANTS
  Event, Mine, PageSize, MaxHead, MaxEpoch, Missing,
  Numbers, Judged, Acted, Size, InboxCalls, ScreenCalls

VARIABLES
  part,   \* "ledger" or "screens"
  look, log, generation, gated, epoch, saved, page, conn, approvals, inbox, principals, screen

Screens == INSTANCE MCScreens WITH
  part <- look, Limit <- PageSize, Nothing <- Missing, status <- principals
ASSUME ScreensGiven == Screens!Assumptions
screensVars ==
  <<look, log, generation, gated, epoch, saved, page, conn, approvals, inbox, principals, screen>>

MCInit ==
  /\ part \in {"ledger", "screens"} /\ Init
  /\ IF part = "ledger" THEN Screens!Closed ELSE Screens!MCInit
MCNext ==
  /\ \/ part = "ledger" /\ Next /\ UNCHANGED screensVars
     \/ part = "screens" /\ Screens!MCNext /\ UNCHANGED vars
  /\ UNCHANGED part
MCSpec == MCInit /\ [][MCNext]_<<part, vars, screensVars>>

(* Timeline, Inbox and PrincipalScreen: the screens show what is so. *)
ScreensTrue == Screens!ScreensTrue
=============================================================================
