---------------------------- MODULE QueuePromise ----------------------------
(***************************************************************************)
(* What a queue promises its users, with no rows, receipts, leases, PGMQ   *)
(* copies or clocks: the guarantees of docs/DESIGN.md (ADR-0005, ADR-0012) *)
(* as a state machine per message.                                         *)
(*                                                                         *)
(*   none     nothing to hand out yet                                      *)
(*   waiting  will be handed to a consumer                                 *)
(*   working  one consumer works on it and nobody else may                 *)
(*   unsure   an outside effect may have happened; a User has to decide    *)
(*   stopped  undone, and handed out again only if somebody says so        *)
(*   done     finished for good                                            *)
(***************************************************************************)
CONSTANTS Messages, Runs, EffectKeys, NoRun, NoKey

VARIABLES
  phase,   \* what becomes of a message
  owner,   \* the consumer working on it
  key,     \* the Effect Key of its outside effect, once one was begun
  maybe    \* the effect may have happened

pvars == <<phase, owner, key, maybe>>

Phases == {"none", "waiting", "working", "unsure", "stopped", "done"}

PromiseTypeOK ==
  /\ phase \in [Messages -> Phases]
  /\ owner \in [Messages -> Runs \cup {NoRun}]
  /\ key \in [Messages -> EffectKeys \cup {NoKey}]
  /\ maybe \in [Messages -> BOOLEAN]

PromiseInit ==
  /\ phase = [m \in Messages |-> "none"]
  /\ owner = [m \in Messages |-> NoRun]
  /\ key = [m \in Messages |-> NoKey]
  /\ maybe = [m \in Messages |-> FALSE]

Becomes(m, p, o) == phase'[m] = p /\ owner'[m] = o
SameEffect(m) == key'[m] = key[m] /\ maybe'[m] = maybe[m]

(* A consumer is given work that waits, or that its owner lost without     *)
(* having begun an effect.                                                 *)
Take(m, r) ==
  /\ phase[m] \in {"none", "waiting", "working"} /\ ~maybe[m]
  /\ Becomes(m, "working", r) /\ SameEffect(m)

Offer(m) ==
  /\ phase[m] \in {"none", "stopped"} \/ (phase[m] = "working" /\ ~maybe[m])
  /\ Becomes(m, "waiting", NoRun) /\ SameEffect(m)

(* The owner, and only the owner, begins the effect: under the key of the  *)
(* first time if there was one.                                            *)
BeginsEffect(m) ==
  /\ phase[m] = "working" /\ ~maybe[m]
  /\ Becomes(m, "working", owner[m])
  /\ key'[m] \in EffectKeys /\ key[m] \in {NoKey, key'[m]}
  /\ maybe'[m]

Finish(m) == phase[m] = "working" /\ Becomes(m, "done", NoRun) /\ SameEffect(m)

(* Work is given up: without an effect it stops, with one it is unsure.    *)
GiveUp(m) ==
  /\ phase[m] \in {"none", "waiting", "working"}
  /\ Becomes(m, IF maybe[m] THEN "unsure" ELSE "stopped", NoRun)
  /\ SameEffect(m)

(* A User decides: the effect happened, or it did not.                     *)
Applied(m) == phase[m] = "unsure" /\ Becomes(m, "done", NoRun) /\ SameEffect(m)
NotApplied(m) ==
  /\ phase[m] = "unsure" /\ Becomes(m, "waiting", NoRun)
  /\ key'[m] = key[m] /\ ~maybe'[m]

Same(m) == Becomes(m, phase[m], owner[m]) /\ SameEffect(m)

Move(m) ==
  \/ \E r \in Runs : Take(m, r)
  \/ Offer(m)
  \/ BeginsEffect(m)
  \/ Finish(m)
  \/ GiveUp(m)
  \/ Applied(m)
  \/ NotApplied(m)

(* One verb may move many messages, but it hands out at most one.          *)
Taken == {m \in Messages : owner'[m] \notin {NoRun, owner[m]}}
PromiseNext ==
  /\ \A m \in Messages : Move(m) \/ Same(m)
  /\ \A m, n \in Taken : m = n
  /\ PromiseTypeOK'

Promise == PromiseInit /\ [][PromiseNext]_pvars
=============================================================================
