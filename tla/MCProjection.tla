---------------------------- MODULE MCProjection ----------------------------
(***************************************************************************)
(* A finite instance of Projection, and one of Blobs for what becomes of   *)
(* its files in the end.  The two share no state: a behaviour is one of    *)
(* the first or one of the second.                                         *)
(***************************************************************************)
EXTENDS Projection

CONSTANTS Ids, Purger, Nobody, MaxAccidents

VARIABLES
  part,   \* the module whose behaviour this is
  setup, rows, objects, late, seen, tx, proc, did, rejected, accidents

(* Two uploads to keys of their own, in a bucket, and no deletions *)
Bucket == {[backend |-> "s3", key |-> [b \in Ids |-> b]]}
Uploads == INSTANCE Blobs
  WITH Deleters <- {}, Setups <- Bucket, PageSize <- 1, MaxFaults <- MaxAccidents, faults <- accidents
uploadVars == <<setup, rows, objects, late, seen, tx, proc, did, rejected, accidents>>

MCVars == <<part, vars, uploadVars>>
Projects(A) == part = "projection" /\ A /\ UNCHANGED uploadVars /\ UNCHANGED part
Puts(A) == part = "blobs" /\ A /\ UNCHANGED setup /\ UNCHANGED vars /\ UNCHANGED part

MCInit == part \in {"projection", "blobs"} /\ Init /\ Uploads!Init
MCNext == Projects(Next) \/ Puts(Uploads!Next)

(* The fairness of the one and of the other, for its behaviours *)
MCFairness ==
  /\ WF_MCVars(Projects(Step))
  /\ \A p \in Ids \cup {Purger} : WF_MCVars(Puts(Uploads!Step(p))) /\ SF_MCVars(Puts(Uploads!Lock(p)))
  /\ WF_MCVars(Puts(\E call \in late : Uploads!TakesEffect(call)))
  /\ WF_MCVars(Puts(\E committed \in BOOLEAN : Uploads!Resolve(committed)))
MCSpec == MCInit /\ [][MCNext]_MCVars /\ MCFairness

(* Blobs: the store comes to hold the bytes of the rows and no others. *)
Settles == Uploads!Settles
=============================================================================
