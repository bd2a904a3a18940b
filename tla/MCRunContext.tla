---------------------------- MODULE MCRunContext ----------------------------
(***************************************************************************)
(* Finite instances of RunContext, and of StorageBinding.  The two share   *)
(* no state: a behaviour is one of the first or one of the second.         *)
(***************************************************************************)
EXTENDS RunContext, TLC

CONSTANTS w1, w2, p1, p2
CONSTANTS Servers, Operator, Stores, Backends, Bytes, Checkpoints, MaxOutages

VARIABLES
  part,   \* the module whose behaviour this is
  backend, db, marker, objects, gens, bindingLease, server, op, flying, late, capture, torn, outages

bindingVars == <<backend, db, marker, objects, gens, bindingLease, server, op, flying, late,
                 capture, torn, outages>>

Binding == INSTANCE StorageBinding
  WITH lease <- bindingLease, faults <- outages, drawn <- gens, saved <- capture, MaxFaults <- MaxOutages,
       Objects <- Bytes
ASSUME BindingGiven == Binding!StorageAssumption

(* Stores of one kind, which only the marker tells apart *)
MCBackends == {[st \in Stores |-> kind] : kind \in {"s3", "filesystem"}}

MCOneHome == (p1 :> w1 @@ p2 :> w1)
MCTwoHomes == (p1 :> w1 @@ p2 :> w2)

MCInit == part \in {"context", "binding"} /\ Init /\ Binding!Init
MCNext ==
  /\ \/ part = "context" /\ Next /\ UNCHANGED bindingVars
     \/ part = "binding" /\ Binding!Next /\ UNCHANGED vars
  /\ UNCHANGED part
MCSpec == MCInit /\ [][MCNext]_<<part, vars, bindingVars>>

Machines == Permutations(Servers)

(* StorageBinding: a server serves the store its database is bound to, and *)
(* an interrupted command can be repeated.                                 *)
StorageKept == Binding!StorageKept
=============================================================================
