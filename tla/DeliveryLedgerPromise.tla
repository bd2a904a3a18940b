------------------------ MODULE DeliveryLedgerPromise ------------------------
(***************************************************************************)
(* The Delivery ledger keeps the promise of a queue: the refinement        *)
(* mapping from its tables to QueuePromise.                                *)
(***************************************************************************)
EXTENDS DeliveryLedger

PhaseOf(s) ==
  CASE s \in {"ready", "scheduled"} -> "waiting"
    [] s \in Live -> "working"
    [] s \in Uncertain -> "unsure"
    [] s = "succeeded" -> "done"
    [] s \in {"dead-lettered", "held", "cancelled"} -> "stopped"

PhaseBar ==
  [m \in Messages |-> IF HasCurrent(m) THEN PhaseOf(CurrentRow(m).state) ELSE "none"]
OwnerBar ==
  [m \in Messages |-> IF HasCurrent(m) THEN CurrentRow(m).consumer ELSE NoRun]
KeyBar == [m \in Messages |-> effects[m].key]
MaybeBar == [m \in Messages |-> LiveEffect(m)]

Abstract == INSTANCE QueuePromise
  WITH phase <- PhaseBar, owner <- OwnerBar, key <- KeyBar, maybe <- MaybeBar

(* The verbs of the ledger, their sweeps, the restore and the clock only   *)
(* ever do to a message what a queue promises: one owner at a time, done   *)
(* stays done, an effect is begun by the owner under one key for good, and *)
(* what may have happened is decided by a User before it is tried again    *)
(* (docs/DESIGN.md, "Guarantees, stated exactly").                         *)
LedgerKeepsPromise == Abstract!Promise
=============================================================================
