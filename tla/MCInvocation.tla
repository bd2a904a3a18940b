---------------------------- MODULE MCInvocation ----------------------------
(* Finite instances of Invocation: identities are numbers, because a page  *)
(* of reconciliation is ordered.                                           *)
EXTENDS Invocation

(* Two invocations without a restore, or one of them. *)
Focus == (backup = <<>> /\ db.epoch = 1) \/ db.made \subseteq {1}

MCNext == Next /\ Focus'
MCSpec == Init /\ [][MCNext]_vars /\ Fairness
=============================================================================
