------------------------------ MODULE Compute ------------------------------
(***************************************************************************)
(* Execution in the compute container (apps/server/compute and its         *)
(* workerd directory).  A supervisor starts one workerd process for each   *)
(* operation: the probe of its identity, the preparation of a deployment   *)
(* and the invocation of a function.  The control files of the processes   *)
(* are mounted from a checkout that may be updated at any time; start.sh   *)
(* measures them once, when the container starts.  Before it does          *)
(* anything the server asks for the measurement, compares it with the      *)
(* files, and sends it along as evidence with what it dispatches.          *)
(*                                                                         *)
(* One function of one Workspace: an activation holds the cursor lock of   *)
(* the Workspace (module RunContext) while the container prepares.         *)
(***************************************************************************)
EXTENDS Naturals, FiniteSets

CONSTANTS
  Requests,      \* of Principals to the server
  Deployments,   \* of the function
  Contents,      \* of the control files
  Images,        \* what the operator declares of the container
  MaxUpdates,    \* bound: updates of the checkout
  MaxStarts,     \* bound: starts of the container after the first
  None, Probe

\* Assumed of the constants, by the module that gives them values.
ComputeAssumption ==
  /\ Probe \notin Requests /\ None \notin Requests \cup Deployments /\ Contents # {}
  /\ {MaxUpdates, MaxStarts} \subseteq Nat

VARIABLES
  files,      \* the content of the control files in the checkout
  box,        \* the container and its supervisor
  job,        \* its operations: the probe, and those of requests
  request,    \* in the server process
  row,        \* the deployments in the database
  count       \* of the bounded events

vars == <<files, box, job, request, row, count>>

-----------------------------------------------------------------------------
Operations == Requests \cup {Probe}
Resting == [step |-> "none", checked |-> None, fate |-> "none"]
Idle == [step |-> "idle", kind |-> "none", of |-> None, expected |-> None,
         evidence |-> None, ran |-> None]
Status(d) == row.status[d]
Active == IF \E d \in Deployments : Status(d) = "active"
          THEN CHOOSE d \in Deployments : Status(d) = "active" ELSE None

(* What earlier requests left; at most one deployment is active (a unique  *)
(* index).                                                                 *)
Earlier ==
  {[status |-> [d \in Deployments |-> "none"], lock |-> None]} \cup
  {[status |-> [d \in Deployments |-> IF d = a THEN "active" ELSE "registered"], lock |-> None] :
     a \in Deployments \cup {None}}

(* start.sh: the measurement is the environment of every child. *)
Measured(image) == [control |-> files, image |-> image]
Started(image) == [up |-> TRUE, closing |-> FALSE, env |-> Measured(image), slot |-> None,
                   children |-> {}]

Spend(what, bound) == count[what] < bound /\ count' = [count EXCEPT ![what] = @ + 1]
At(r, step) == request[r].step = step
Busy(o) == job[o].step # "none"
Ended(r, result) == [request EXCEPT ![r].step = result]
Step(o, step) == [job EXCEPT ![o].step = step]

-----------------------------------------------------------------------------
(* The server.  Verification joins the probe that is under way, or starts  *)
(* one; a container that is down or closes answers nothing.                *)

Verify(r) ==
  /\ At(r, "idle") /\ box.up /\ ~box.closing
  /\ \E kind \in {"deploy", "activate", "invoke"}, d \in Deployments, e \in Deployments \cup {None} :
       /\ kind # "activate" => e = None
       /\ kind = "invoke" => d = Active
       /\ request' = [request EXCEPT ![r] = [Idle EXCEPT !.step = "probing", !.kind = kind, !.of = d,
                                                         !.expected = e]]
  /\ job' = IF Busy(Probe) THEN job ELSE Step(Probe, "intake")
  /\ UNCHANGED <<files, box, row, count>>

(* readControlSurfaceHash, after the answer of the probe *)
Compare(r) ==
  /\ At(r, "comparing")
  /\ request' = Ended(r, IF request[r].evidence.control = files THEN "verified" ELSE "failed")
  /\ UNCHANGED <<files, box, job, row, count>>

Deploy(r) ==
  /\ At(r, "verified") /\ request[r].kind = "deploy" /\ row.lock = None
  /\ row' = IF Status(request[r].of) = "none" THEN [row EXCEPT !.status[request[r].of] = "registered"]
            ELSE row
  /\ request' = Ended(r, "done")
  /\ UNCHANGED <<files, box, job, count>>

Expected(r) ==
  \/ Status(request[r].of) = "active"
  \/ Status(request[r].of) = "registered" /\ Active = request[r].expected

(* Mutant: the transaction ends before the preparation. *)
HoldNothing(r) == row
Hold(r) == [row EXCEPT !.lock = r]

(* The transaction of an activation up to the preparation *)
Activate(r) ==
  /\ At(r, "verified") /\ request[r].kind = "activate" /\ row.lock = None
  /\ IF Expected(r)
     THEN row' = Hold(r) /\ request' = Ended(r, "ready")
     ELSE request' = Ended(r, "failed") /\ UNCHANGED row
  /\ UNCHANGED <<files, box, job, count>>

(* control.create_invocation; the deployment was looked up before. *)
Invoke(r) ==
  /\ At(r, "verified") /\ request[r].kind = "invoke" /\ row.lock = None
  /\ request' = Ended(r, IF request[r].of = Active THEN "ready" ELSE "failed")
  /\ UNCHANGED <<files, box, job, row, count>>

(* A slot that is taken is refused, never waited for. *)
Dispatch(r) ==
  /\ At(r, "ready")
  /\ IF box.up /\ ~box.closing /\ box.slot = None
     THEN /\ box' = [box EXCEPT !.slot = r]
          /\ job' = Step(r, "intake")
          /\ request' = Ended(r, "waiting")
     ELSE request' = Ended(r, "refused") /\ UNCHANGED <<box, job>>
  /\ UNCHANGED <<files, row, count>>

(* The end of a dispatch; the activation commits or rolls back. *)
Commit(r) ==
  IF request[r].kind = "activate" /\ At(r, "answered")
  THEN [status |-> [d \in Deployments |->
          IF d = request[r].of THEN "active"
          ELSE IF Status(d) = "active" THEN "retired" ELSE Status(d)], lock |-> None]
  ELSE [row EXCEPT !.lock = IF @ = r THEN None ELSE @]
Finish(r) ==
  /\ request[r].step \in {"answered", "refused"}
  /\ row' = Commit(r)
  /\ request' = Ended(r, IF At(r, "answered") THEN "done" ELSE "failed")
  /\ UNCHANGED <<files, box, job, count>>

(* The two seconds of a verification or a preparation, and the client that *)
(* leaves its invocation                                                   *)
GiveUp(r) ==
  /\ request[r].step \in {"probing", "waiting"}
  /\ request' = Ended(r, IF At(r, "probing") THEN "failed" ELSE "refused")
  /\ UNCHANGED <<files, box, job, row, count>>

-----------------------------------------------------------------------------
(* The supervisor: operation.  An abort from whatever side kills the child *)
(* there is; the operation goes on to reap it.                             *)

Aborted(o, fate) == [job EXCEPT ![o].step = "reaping", ![o].fate = fate]

Check(o) ==
  /\ job[o].step = "intake"
  /\ job' = IF files = box.env.control
            THEN [Step(o, "checked") EXCEPT ![o].checked = files] ELSE Aborted(o, "refused")
  /\ UNCHANGED <<files, box, request, row, count>>

Spawn(o) ==
  /\ job[o].step = "checked"
  /\ box' = [box EXCEPT !.children = @ \cup {o}]
  /\ job' = Step(o, "child")
  /\ UNCHANGED <<files, request, row, count>>

(* The loader: an observation of another container is refused. *)

(* Mutant: the loader believes whatever it is sent. *)
BelievesAll(r) == TRUE
Believes(r) == request[r].evidence = box.env
Serve(o) ==
  /\ job[o].step = "child"
  /\ IF o = Probe
     THEN job' = Aborted(o, "answered") /\ UNCHANGED request
     ELSE IF Believes(o)
     THEN /\ \E fate \in {"answered", "refused"} : job' = Aborted(o, fate)
          /\ request' = [request EXCEPT ![o].ran = [control |-> job[o].checked, image |-> box.env.image]]
     ELSE job' = Aborted(o, "refused") /\ UNCHANGED request
  /\ UNCHANGED <<files, box, row, count>>

(* The deadline of the operation, which counts from the intake of its body *)
(* on.  A child that dies and a caller that leaves end it in the same way, *)
(* earlier.                                                                *)

(* Mutant: the time counts from the start of the child. *)
OverdueChild(o) == job[o].step = "child"
Overdue(o) == job[o].step \in {"intake", "checked", "child"}
Abort(o) ==
  /\ Overdue(o)
  /\ job' = Aborted(o, "refused")
  /\ UNCHANGED <<files, box, request, row, count>>

(* The end of the operation: killAndReap, and then the slot is free and    *)
(* the answer goes to who still waits.                                     *)

(* Mutant: the end of the child is not waited for. *)
LeftRunning(o) == box.children
Reaped(o) == box.children \ {o}
Answer(o) ==
  [r \in Requests |->
     IF o = Probe /\ At(r, "probing")
     THEN IF job[o].fate = "answered"
          THEN [request[r] EXCEPT !.step = "comparing", !.evidence = box.env]
          ELSE [request[r] EXCEPT !.step = "failed"]
     ELSE IF r = o /\ At(r, "waiting") THEN [request[r] EXCEPT !.step = job[o].fate]
     ELSE request[r]]
Reap(o) ==
  /\ job[o].step = "reaping"
  /\ box' = [box EXCEPT !.children = Reaped(o), !.slot = IF @ = o THEN None ELSE @]
  /\ job' = [job EXCEPT ![o] = Resting]
  /\ request' = Answer(o)
  /\ UNCHANGED <<files, row, count>>

Close ==
  /\ box.up /\ ~box.closing /\ count["starts"] < MaxStarts
  /\ box' = [box EXCEPT !.closing = TRUE]
  /\ job' = [o \in Operations |->
       IF Overdue(o) THEN [job[o] EXCEPT !.step = "reaping", !.fate = "refused"] ELSE job[o]]
  /\ UNCHANGED <<files, request, row, count>>

(* The end of the container, in order or not, takes every process along    *)
(* and cuts every connection.                                              *)
Lost == [r \in Requests |->
  CASE At(r, "probing") -> [request[r] EXCEPT !.step = "failed"]
    [] At(r, "waiting") -> [request[r] EXCEPT !.step = "refused"]
    [] OTHER -> request[r]]
Stop ==
  /\ box.up /\ count["starts"] < MaxStarts
  /\ box' = [box EXCEPT !.up = FALSE, !.slot = None, !.children = {}]
  /\ job' = [o \in Operations |-> Resting]
  /\ request' = Lost
  /\ UNCHANGED <<files, row, count>>
Start(image) ==
  /\ ~box.up /\ Spend("starts", MaxStarts)
  /\ box' = Started(image)
  /\ UNCHANGED <<files, job, request, row>>

Update(content) ==
  /\ content # files /\ Spend("updates", MaxUpdates)
  /\ files' = content
  /\ UNCHANGED <<box, job, request, row>>

-----------------------------------------------------------------------------
Init ==
  /\ files = CHOOSE content \in Contents : TRUE
  /\ \E image \in Images : box = Started(image)
  /\ job = [o \in Operations |-> Resting]
  /\ request = [r \in Requests |-> Idle]
  /\ row \in Earlier
  /\ count = [what \in {"updates", "starts"} |-> 0]

Server(r) == Compare(r) \/ Deploy(r) \/ Activate(r) \/ Invoke(r) \/ Dispatch(r) \/ Finish(r) \/ GiveUp(r)
Supervisor(o) == Check(o) \/ Spawn(o) \/ Serve(o)
Environment == \/ Close \/ Stop
               \/ \E image \in Images : Start(image)
               \/ \E content \in Contents : Update(content)
Next ==
  \/ \E r \in Requests : Verify(r) \/ Server(r)
  \/ \E o \in Operations : Supervisor(o) \/ Abort(o) \/ Reap(o)
  \/ Environment

Spec == Init /\ [][Next]_vars

(* The server goes on, its requests end in time, and so does what the      *)
(* supervisor measures with a clock.  A body may never arrive and a child  *)
(* may never answer.  There are finitely many steps, and one fairness      *)
(* condition is as good as one for each action.                            *)
Timed == \/ \E r \in Requests : Server(r)
         \/ \E o \in Operations : Abort(o) \/ Reap(o)
Fairness == WF_vars(Timed)
FairSpec == Spec /\ Fairness

-----------------------------------------------------------------------------
(* Code of a request runs only in a container that is the one the server   *)
(* verified for the request, with control files found unchanged at the     *)
(* last check: a restart or an update in between is refused (the loader's  *)
(* comparison and controlUnchanged).  An update between that last check    *)
(* and the start of the child is not seen.                                 *)
RanAsVerified == \A r \in Requests : request[r].ran # None => request[r].ran = request[r].evidence

(* The slot covers the process of a request from its start to its end,     *)
(* through deadlines, disconnections, dying children and a supervisor that *)
(* closes (infra/compute/runtime.md: admission through child reaping).     *)
SlotCoversChild == box.children \subseteq {box.slot, Probe}

(* An activation replaces the deployment its caller expected, although the *)
(* container prepares for seconds between the check and the update.        *)
OnlyExpected ==
  [][Active' # Active =>
       \E r \in Requests : /\ request[r].kind = "activate" /\ At(r, "answered")
                           /\ request[r].of = Active' /\ request[r].expected = Active]_vars

(* Whatever happens to the container, no request keeps its slot, or the    *)
(* lock of the Workspace.                                                  *)
Held == box.slot # None \/ row.lock # None
NothingHeld == Held ~> ~Held

(* A process runs what was verified, and within the slot of its request.   *)
RunsAsAdmitted == RanAsVerified /\ SlotCoversChild
=============================================================================
