---------------------------- MODULE MCWorkspace -----------------------------
(***************************************************************************)
(* What a Workspace keeps beside its tables: files (Blobs), the projection *)
(* of its migrations (Projection) and the invocations of its functions     *)
(* (Invocation).  They share no state: a behaviour is one of one of them.  *)
(* The safety of all three; what must happen in the end is checked by      *)
(* MCProjection and MCInvocation.                                          *)
(***************************************************************************)
EXTENDS Blobs, TLC

CONSTANTS
  Requests, UseGit, Purges, None, MaxRevision, MaxFailures, MaxCrashes,
  Invocations, PassSize, Attempts, MaxCallbacks, MaxRestores, MaxLosses, Free, Stranger

VARIABLES
  part,   \* the module whose behaviour this is
  ledger, purged, asked, answers, dirty, waiting, serving, pc, rev,
  root, staging, previous, failures, crashes, commits,
  db, backup, holder, age, calls, pass, losses

projectionVars ==
  <<ledger, purged, asked, answers, dirty, waiting, serving, pc, rev,
    root, staging, previous, failures, crashes, commits>>
invocationVars == <<db, backup, holder, age, calls, pass, losses>>

Shown == INSTANCE Projection WITH MaxFaults <- MaxFailures, faults <- failures
Calls == INSTANCE Invocation
  WITH PageSize <- PassSize, MaxFaults <- MaxLosses, faults <- losses, call <- calls

ASSUME WorkspaceGiven ==
  /\ Shown!ProjectionAssumption /\ Shown!NoneAssumption
  /\ Calls!InvocationAssumption

(* Two uploads to one key, and two to keys of their own. *)
SameKey == [b \in Ids |-> Nobody]
OwnKey == [b \in Ids |-> b]

BothBackends == {[backend |-> "s3", key |-> SameKey], [backend |-> "filesystem", key |-> OwnKey]}

(* Two faults, or one and a deletion. *)
FewFaults == (\E d \in Deleters : ~At(d, "idle")) => faults <= 1
(* Two invocations without a restore, or one of them. *)
FewRestores == (backup = <<>> /\ db.epoch = 1) \/ db.made \subseteq {1}

MCVars == <<part, vars, projectionVars, invocationVars>>
Stores(A) == part = "blobs" /\ A /\ UNCHANGED <<part, projectionVars, invocationVars>>
Projects(A) == part = "projection" /\ A /\ UNCHANGED <<part, vars, invocationVars>>
Invokes(A) == part = "invocation" /\ A /\ UNCHANGED <<part, vars, projectionVars>>

MCInit ==
  /\ part \in {"blobs", "projection", "invocation"}
  /\ Init /\ Shown!Init /\ Calls!Init
  /\ part # "blobs" => Backend = "s3"
MCNext ==
  \/ Projects(pc = "off" /\ UNCHANGED projectionVars)  \* nobody asks for one
  \/ Stores(Next /\ FewFaults') \/ Projects(Shown!Next) \/ Invokes(Calls!Next /\ FewRestores')
MCSpec == MCInit /\ [][MCNext]_MCVars

(* Projection: what a reader finds in the directory is whole and covers    *)
(* what he was told.                                                       *)
Readable == Shown!Readable
(* Projection: no commit is lost. *)
HistoryKept == Shown!HistoryKept
(* Invocation: what the log says of an invocation can be relied on. *)
LogConcludes == Calls!LogConcludes

Uploads == Permutations(Ids)
=============================================================================
