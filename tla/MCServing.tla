----------------------------- MODULE MCServing -----------------------------
(***************************************************************************)
(* Finite instances of what a server process keeps for the requests it is  *)
(* serving: Admission, StreamAdmission and Compute.  They share no state:  *)
(* a behaviour is one of one of them.                                      *)
(***************************************************************************)
EXTENDS Admission

CONSTANTS
  Streams, Workspaces, Actors, AppLimit, ActorLimit, Quotas, Width,
  Dispatches, Deployments, Contents, Images, MaxUpdates, MaxStarts, None, ProbeId

VARIABLES
  part,   \* the module whose behaviour this is
  stream, counters, query, running,
  files, box, job, request, row, count

streamVars == <<stream, counters, query, running>>
computeVars == <<files, box, job, request, row, count>>

Audit == INSTANCE StreamAdmission
Box == INSTANCE Compute WITH Requests <- Dispatches, Probe <- ProbeId

ASSUME ServingAssumption == Audit!StreamAdmissionAssumption /\ Box!ComputeAssumption

MCVars == <<part, vars, streamVars, computeVars>>
Admits(A) == part = "admission" /\ A /\ UNCHANGED <<part, streamVars, computeVars>>
Follows(A) == part = "streams" /\ A /\ UNCHANGED <<part, vars, computeVars>>
Computes(A) == part = "compute" /\ A /\ UNCHANGED <<part, vars, streamVars>>

(* Which deployment is the active one at first does not matter. *)
Newest == CHOOSE d \in Deployments : TRUE
MCInit ==
  /\ part \in {"admission", "streams", "compute"}
  /\ Init /\ Audit!Init /\ Box!Init
  /\ Box!Active \in {None, Newest}
  /\ part # "compute" => \A d \in Deployments : row.status[d] = "none"
MCNext == Admits(Next) \/ Follows(Audit!Next) \/ Computes(Box!Next)

(* The fairness of Compute, for its behaviours *)
MCSpec == MCInit /\ [][MCNext]_MCVars /\ WF_MCVars(Computes(Box!Timed))

(* StreamAdmission: the counters are the open streams, and no query waits  *)
(* while there is room.                                                    *)
StreamsAccounted == Audit!StreamsAccounted
(* Compute: code runs in the container that was verified for it, within    *)
(* its slot.                                                               *)
RunsAsAdmitted == Box!RunsAsAdmitted
(* Compute: an activation replaces what its caller expected. *)
OnlyExpected == Box!OnlyExpected
(* Compute: no slot and no lock is kept for ever. *)
NothingHeld == Box!NothingHeld
=============================================================================
