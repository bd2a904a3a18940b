--------------------------- MODULE Serving_proofs ---------------------------
(***************************************************************************)
(* Theorems about what a server process keeps for the requests it serves:  *)
(* Admission, and, in the instances of MCServing, Compute (Box) and        *)
(* StreamAdmission (Audit).  They hold for every finite set of requests    *)
(* and streams, every set of deployments and contents, and every limit.    *)
(***************************************************************************)
EXTENDS MCServing, FiniteSetTheorems, TLAPS

(* The arithmetic of one member more, and of one member less *)
LEMMA OneMore ==
  ASSUME NEW S, IsFiniteSet(S), NEW x, x \notin S
  PROVE  /\ IsFiniteSet(S \cup {x}) /\ Cardinality(S \cup {x}) = Cardinality(S) + 1
         /\ Cardinality(S) \in Nat
BY FS_AddElement, FS_CardinalityType

LEMMA OneLess ==
  ASSUME NEW S, IsFiniteSet(S), NEW x \in S
  PROVE  /\ IsFiniteSet(S \ {x}) /\ Cardinality(S \ {x}) = Cardinality(S) - 1
         /\ Cardinality(S) \in Nat /\ Cardinality(S) >= 1
<1>1. IsFiniteSet(S \ {x}) /\ Cardinality(S \ {x}) = Cardinality(S) - 1
  BY FS_RemoveElement
<1>2. Cardinality(S) \in Nat /\ Cardinality(S \ {x}) \in Nat
  BY <1>1, FS_CardinalityType
<1> QED BY <1>1, <1>2

-----------------------------------------------------------------------------
(* Admission.  The invariant is inductive as it stands: that a permit      *)
(* given back admits at most one waiter needs both the counters (Balance)  *)
(* and that nobody waited in vain before (NoIdlePermit).                   *)

PermitInv == TypeOK /\ Balance /\ NoIdlePermit

(* permits and Others are finite; the counters are numbers within limits. *)
LEMMA Finite == TypeOK => IsFiniteSet(permits) /\ IsFiniteSet(Others)
<1> SUFFICES ASSUME TypeOK PROVE IsFiniteSet(permits) /\ IsFiniteSet(Others)
  OBVIOUS
<1>1. IsFiniteSet(permits)
  BY AdmissionAssumption, FS_Subset DEF TypeOK
<1>2. Others \subseteq permits
  BY DEF Others
<1> QED BY <1>1, <1>2, FS_Subset

LEMMA Within ==
  ASSUME PermitInv
  PROVE  active \in Nat /\ nonCallbacks \in Nat /\ active <= Limit /\ nonCallbacks <= Limit - 1
BY DEF PermitInv, TypeOK, Balance

-----------------------------------------------------------------------------
(* What giving a permit out, and taking one back, does to the two sets     *)
LEMMA GivenOut ==
  ASSUME PermitInv, NEW r \in Requests, step[r] # "working", NEW k \in Kinds
  PROVE  LET others == IF k = "callback" THEN Others ELSE Others \cup {r} IN
         /\ Cardinality(permits \cup {r}) = active + 1
         /\ Cardinality(others) = nonCallbacks + Weight(k)
<1>1. r \notin permits /\ r \notin Others
  BY DEF PermitInv, Balance, Others
<1>2. IsFiniteSet(permits) /\ IsFiniteSet(Others)
  BY Finite DEF PermitInv
<1>3. Cardinality(permits \cup {r}) = active + 1
  BY <1>1, <1>2, OneMore DEF PermitInv, Balance
<1>4. CASE k = "callback"
  <2>1. nonCallbacks \in Nat /\ nonCallbacks = Cardinality(Others)
    BY DEF PermitInv, TypeOK, Balance
  <2> QED BY <1>3, <1>4, <2>1 DEF Weight
<1>5. CASE k # "callback"
  <2>1. Cardinality(Others \cup {r}) = nonCallbacks + 1
    BY <1>1, <1>2, OneMore DEF PermitInv, Balance
  <2> QED BY <1>3, <1>5, <2>1 DEF Weight
<1> QED BY <1>4, <1>5

LEMMA TakenBack ==
  ASSUME PermitInv, NEW r \in permits
  PROVE  /\ IsFiniteSet(permits \ {r}) /\ IsFiniteSet(Others \ {r})
         /\ Cardinality(permits \ {r}) = active - 1 /\ active >= 1
         /\ Cardinality(Others \ {r}) = nonCallbacks - Weight(kind[r])
         /\ nonCallbacks - Weight(kind[r]) \in Nat
<1>1. IsFiniteSet(permits) /\ IsFiniteSet(Others)
  BY Finite DEF PermitInv
<1>2. IsFiniteSet(permits \ {r}) /\ Cardinality(permits \ {r}) = active - 1 /\ active >= 1
  BY <1>1, OneLess DEF PermitInv, Balance
<1>3. nonCallbacks \in Nat /\ nonCallbacks = Cardinality(Others)
  BY DEF PermitInv, TypeOK, Balance
<1>4. CASE kind[r] = "callback"
  <2>1. Others \ {r} = Others
    BY <1>4 DEF Others
  <2>2. Weight(kind[r]) = 0
    BY <1>4 DEF Weight
  <2>3. nonCallbacks - Weight(kind[r]) = nonCallbacks
    BY <1>3, <2>2
  <2>4. Cardinality(Others \ {r}) = nonCallbacks
    BY <1>3, <2>1
  <2>5. IsFiniteSet(Others \ {r})
    BY <1>1, <2>1
  <2> QED BY <1>2, <1>3, <2>3, <2>4, <2>5
<1>5. CASE kind[r] # "callback"
  <2>1. r \in Others
    BY <1>5 DEF Others
  <2>2. /\ IsFiniteSet(Others \ {r}) /\ Cardinality(Others \ {r}) = Cardinality(Others) - 1
        /\ Cardinality(Others) >= 1
    BY <1>1, <2>1, OneLess
  <2> QED BY <1>2, <1>3, <1>5, <2>2 DEF Weight
<1> QED BY <1>4, <1>5

-----------------------------------------------------------------------------
LEMMA PermitStart == Init => PermitInv
<1> SUFFICES ASSUME Init PROVE PermitInv
  OBVIOUS
<1>1. TypeOK
  BY DEF Init, TypeOK, Kinds
<1>2. permits = {} /\ Others = {} /\ Waiting = {}
  BY DEF Init, Others, Waiting
<1>3. Balance
  BY <1>2, FS_EmptySet, AdmissionAssumption DEF Init, Balance
<1> QED BY <1>1, <1>2, <1>3 DEF PermitInv, NoIdlePermit

LEMMA AcquireKeeps ==
  ASSUME PermitInv, NEW r \in Requests, NEW k \in Kinds, Acquire(r, k)
  PROVE  PermitInv'
<1>1. /\ step[r] = "idle" /\ kind' = [kind EXCEPT ![r] = k] /\ kind'[r] = k
      /\ r \notin permits
  BY DEF Acquire, PermitInv, TypeOK, Balance
<1>2. CASE Room(k, active, nonCallbacks)
  <2>1. /\ step' = [step EXCEPT ![r] = "working"] /\ permits' = permits \cup {r}
        /\ active' = active + 1 /\ nonCallbacks' = nonCallbacks + Weight(k)
    BY <1>2 DEF Acquire
  <2>2. TypeOK'
    BY <1>1, <2>1 DEF PermitInv, TypeOK, Weight
  <2>3. Others' = IF k = "callback" THEN Others ELSE Others \cup {r}
    BY <1>1, <2>1 DEF Others, PermitInv, TypeOK
  <2>4. active' = Cardinality(permits') /\ nonCallbacks' = Cardinality(Others')
    BY <1>1, <2>1, <2>3, GivenOut
  <2>5. active' <= Limit /\ nonCallbacks' <= Limit - 1
    BY <1>2, <2>1, AdmissionAssumption DEF Room, Weight, PermitInv, TypeOK, Balance
  <2>6. \A p \in permits' : step'[p] = "working"
    BY <2>1 DEF PermitInv, TypeOK, Balance
  <2>7. NoIdlePermit'
    <3> SUFFICES ASSUME NEW v \in Waiting' PROVE ~Room(kind[v], active, nonCallbacks)'
      BY DEF NoIdlePermit
    <3>1. v \in Waiting /\ v # r /\ kind'[v] = kind[v]
      BY <1>1, <2>1 DEF Waiting, PermitInv, TypeOK
    <3>2. ~Room(kind[v], active, nonCallbacks)
      BY <3>1 DEF PermitInv, NoIdlePermit
    <3> QED BY <2>1, <3>1, <3>2, AdmissionAssumption DEF Room, Weight, PermitInv, TypeOK
  <2> QED BY <2>2, <2>4, <2>5, <2>6, <2>7 DEF PermitInv, Balance
<1>3. CASE ~Room(k, active, nonCallbacks)
  <2>1. step' = [step EXCEPT ![r] = "waiting"] /\ UNCHANGED <<permits, active, nonCallbacks>>
    BY <1>3 DEF Acquire
  <2>2. TypeOK'
    BY <1>1, <2>1 DEF PermitInv, TypeOK
  <2>3. Others' = Others
    BY <1>1, <2>1 DEF Others, PermitInv, TypeOK
  <2>4. Balance'
    BY <1>1, <2>1, <2>3 DEF Balance, PermitInv, TypeOK
  <2>5. NoIdlePermit'
    BY <1>1, <1>3, <2>1 DEF NoIdlePermit, Room, Waiting, PermitInv, TypeOK
  <2> QED BY <2>2, <2>4, <2>5 DEF PermitInv
<1> QED BY <1>2, <1>3

LEMMA RejectKeeps ==
  ASSUME PermitInv, NEW r \in Requests, Reject(r)
  PROVE  PermitInv'
<1>1. TypeOK'
  BY DEF Reject, PermitInv, TypeOK
<1>2. Others' = Others
  BY DEF Reject, Others
<1>3. Balance'
  BY <1>2 DEF Reject, Balance, PermitInv, TypeOK
<1>4. NoIdlePermit'
  BY DEF Reject, NoIdlePermit, Room, Waiting, PermitInv, TypeOK
<1> QED BY <1>1, <1>3, <1>4 DEF PermitInv

(* The heart of it: one permit, one waiter. *)
LEMMA ReleaseKeeps ==
  ASSUME PermitInv, NEW r \in Requests, NEW to \in {"idle", "working"}, step[r] = "working",
         to = "working" => r \in permits, Release(r, to), UNCHANGED kind
  PROVE  PermitInv'
<1>0. \A v \in Waiting : v \notin permits /\ v # r
  BY DEF Waiting, PermitInv, Balance
<1>1. CASE r \notin permits
  <2>1. step' = [step EXCEPT ![r] = to] /\ UNCHANGED <<permits, active, nonCallbacks>>
    BY <1>1 DEF Release
  <2>2. TypeOK'
    BY <2>1 DEF PermitInv, TypeOK
  <2>3. Others' = Others
    BY <2>1 DEF Others
  <2>4. Balance'
    BY <1>1, <2>1, <2>3 DEF Balance, PermitInv, TypeOK
  <2>5. NoIdlePermit'
    BY <2>1 DEF NoIdlePermit, Room, Waiting, PermitInv, TypeOK
  <2> QED BY <2>2, <2>4, <2>5 DEF PermitInv
<1>2. CASE r \in permits /\ Next1(r) = {}
  <2>1. /\ step' = [step EXCEPT ![r] = to] /\ permits' = permits \ {r}
        /\ active' = active - 1 /\ nonCallbacks' = nonCallbacks - Weight(kind[r])
    BY <1>2 DEF Release
  <2>2. Others' = Others \ {r}
    BY <2>1 DEF Others
  <2>3. active' = Cardinality(permits') /\ nonCallbacks' = Cardinality(Others')
    BY <1>2, <2>1, <2>2, TakenBack
  <2>4. /\ active' \in Nat /\ nonCallbacks' \in Nat
        /\ active' <= Limit /\ nonCallbacks' <= Limit - 1
    <3>1. active >= 1 /\ nonCallbacks - Weight(kind[r]) \in Nat
      BY <1>2, TakenBack
    <3>2. Limit \in Nat /\ Weight(kind[r]) \in {0, 1}
      BY AdmissionAssumption DEF Weight
    <3> QED BY <2>1, <3>1, <3>2, Within
  <2>5. TypeOK'
    BY <2>1, <2>4 DEF PermitInv, TypeOK
  <2>6. \A p \in permits' : step'[p] = "working"
    BY <2>1 DEF PermitInv, TypeOK, Balance
  <2>7. NoIdlePermit'
    BY <1>2, <2>1 DEF NoIdlePermit, Next1, Waiting, PermitInv, TypeOK
  <2> QED BY <2>3, <2>4, <2>5, <2>6, <2>7 DEF PermitInv, Balance
<1>3. CASE r \in permits /\ Next1(r) # {}
  <2>1. PICK w \in Next1(r) :
          /\ step' = [step EXCEPT ![r] = to, ![w] = "working"]
          /\ permits' = (permits \ {r}) \cup {w}
          /\ active' = active
          /\ nonCallbacks' = nonCallbacks - Weight(kind[r]) + Weight(kind[w])
    BY <1>3 DEF Release
  <2>2. /\ w \in Requests /\ w \in Waiting /\ w # r /\ w \notin permits
        /\ Room(kind[w], active - 1, nonCallbacks - Weight(kind[r]))
    BY <1>0, <2>1 DEF Next1, Waiting
  <2>3. Others' = IF kind[w] = "callback" THEN Others \ {r} ELSE (Others \ {r}) \cup {w}
    BY <2>1, <2>2 DEF Others
  <2>4. active' = Cardinality(permits')
    <3>1. IsFiniteSet(permits \ {r}) /\ Cardinality(permits \ {r}) = active - 1 /\ w \notin permits \ {r}
      BY <1>3, <2>2, TakenBack
    <3>2. Cardinality(permits') = (active - 1) + 1
      BY <2>1, <3>1, OneMore
    <3> QED BY <2>1, <3>2 DEF PermitInv, TypeOK
  <2>5. nonCallbacks' = Cardinality(Others')
    <3>1. /\ IsFiniteSet(Others \ {r}) /\ w \notin Others \ {r}
          /\ Cardinality(Others \ {r}) = nonCallbacks - Weight(kind[r])
          /\ nonCallbacks - Weight(kind[r]) \in Nat
      BY <1>3, <2>2, TakenBack DEF Others
    <3>2. CASE kind[w] = "callback"
      BY <2>1, <2>3, <3>1, <3>2 DEF Weight
    <3>3. CASE kind[w] # "callback"
      <4>1. Cardinality(Others') = Cardinality(Others \ {r}) + 1
        BY <2>3, <3>1, <3>3, OneMore
      <4> QED BY <2>1, <3>1, <3>3, <4>1 DEF Weight
    <3> QED BY <3>2, <3>3
  <2>6. /\ active' \in Nat /\ nonCallbacks' \in Nat
        /\ active' <= Limit /\ nonCallbacks' <= Limit - 1
    <3>1. nonCallbacks - Weight(kind[r]) \in Nat
      BY <1>3, TakenBack
    <3>2. Limit \in Nat /\ Weight(kind[r]) \in {0, 1}
      BY AdmissionAssumption DEF Weight
    <3>3. CASE kind[w] = "callback"
      <4>1. Weight(kind[w]) = 0
        BY <3>3 DEF Weight
      <4> QED BY <2>1, <3>1, <3>2, <4>1, Within
    <3>4. CASE kind[w] # "callback"
      <4>1. Weight(kind[w]) = 1 /\ nonCallbacks - Weight(kind[r]) < Limit - 1
        BY <2>2, <3>4 DEF Weight, Room
      <4> QED BY <2>1, <3>1, <3>2, <4>1, Within
    <3> QED BY <3>3, <3>4
  <2>7. TypeOK'
    BY <2>1, <2>2, <2>6 DEF PermitInv, TypeOK
  <2>8. \A p \in permits' : step'[p] = "working"
    BY <2>1, <2>2 DEF PermitInv, TypeOK, Balance
  <2>9. NoIdlePermit'
    <3> SUFFICES ASSUME NEW v \in Waiting' PROVE ~Room(kind[v], active', nonCallbacks')
      BY DEF NoIdlePermit
    <3>1. v \in Waiting
      BY <2>1, <2>2 DEF Waiting, PermitInv, TypeOK
    <3>2. ~Room(kind[v], active, nonCallbacks) /\ ~Room(kind[w], active, nonCallbacks)
      BY <2>2, <3>1 DEF PermitInv, NoIdlePermit
    <3> QED BY <2>1, <2>2, <3>2, AdmissionAssumption DEF Room, Weight, PermitInv, TypeOK, Balance
  <2> QED BY <2>4, <2>5, <2>6, <2>7, <2>8, <2>9 DEF PermitInv, Balance
<1> QED BY <1>1, <1>2, <1>3

LEMMA PermitNext == PermitInv /\ [Next]_vars => PermitInv'
<1> SUFFICES ASSUME PermitInv, [Next]_vars PROVE PermitInv'
  OBVIOUS
<1>1. ASSUME NEW r \in Requests, NEW k \in Kinds, Acquire(r, k) PROVE PermitInv'
  BY <1>1, AcquireKeeps
<1>2. ASSUME NEW r \in Requests, Reject(r) PROVE PermitInv'
  BY <1>2, RejectKeeps
<1>3. ASSUME NEW r \in Requests, Leave(r) PROVE PermitInv'
  BY <1>3, ReleaseKeeps DEF Leave
<1>4. ASSUME NEW r \in Requests, Respond(r) PROVE PermitInv'
  BY <1>4, ReleaseKeeps DEF Respond
<1>5. CASE UNCHANGED vars
  BY <1>5 DEF vars, PermitInv, TypeOK, Balance, Others, NoIdlePermit, Room, Waiting
<1> QED BY <1>1, <1>2, <1>3, <1>4, <1>5 DEF Next

-----------------------------------------------------------------------------
(* The counters are the permits that are out, and never above their limits *)
(* (PrincipalAdmission.active and nonCallbacks): nothing a client or a     *)
(* handler does leaks a permit or gives one back twice.                    *)
THEOREM PermitsBalance == Spec => [](TypeOK /\ Balance)
<1>1. PermitInv => TypeOK /\ Balance
  BY DEF PermitInv
<1> QED BY <1>1, PermitStart, PermitNext, PTL DEF Spec

(* A callback that waits has another callback before it. *)
LEMMA RoomKept == PermitInv => CallbackRoom
<1> SUFFICES ASSUME PermitInv, NEW r \in Waiting, kind[r] = "callback"
             PROVE  \E h \in permits : kind[h] = "callback"
  BY DEF CallbackRoom
<1>1. active = Limit
  BY AdmissionAssumption DEF PermitInv, NoIdlePermit, Room, Balance, TypeOK
<1>2. SUFFICES ASSUME \A h \in permits : kind[h] # "callback" PROVE FALSE
  OBVIOUS
<1>3. Others = permits
  BY <1>2 DEF Others
<1>4. nonCallbacks = Limit
  BY <1>1, <1>3 DEF PermitInv, Balance
<1> QED BY <1>4, Within, AdmissionAssumption

(* Nobody waits for a permit it could have, and a callback waits only for  *)
(* callbacks: requests that invoke functions cannot fill the gate and lock *)
(* out the calls they wait for (principal-admission.ts, limit - 1).        *)
THEOREM WaitsAreNeeded == Spec => []WaitsEnd
<1>1. PermitInv => WaitsEnd
  BY RoomKept DEF PermitInv, WaitsEnd
<1> QED BY <1>1, PermitStart, PermitNext, PTL DEF Spec
-----------------------------------------------------------------------------
(* Compute.  What runs was verified, because the child of an operation     *)
(* exists only while the container that checked the files for it is up,    *)
(* and the evidence it is compared with never changes once it is there.    *)

Evidence == [control : Contents, image : Images]
Container == [up : BOOLEAN, closing : BOOLEAN, env : Evidence, slot : Dispatches \cup {None},
              children : SUBSET Box!Operations]
Job == [step : {"none", "intake", "checked", "child", "reaping"}, checked : Contents \cup {None},
        fate : {"none", "answered", "refused"}]
Early == {"idle", "probing", "comparing", "verified", "ready"}
Undecided == {"ready", "waiting", "answered", "refused"}
Request == [step : Early \cup Undecided \cup {"done", "failed"},
            kind : {"none", "deploy", "activate", "invoke"},
            of : Deployments \cup {None}, expected : Deployments \cup {None},
            evidence : Evidence \cup {None},
            ran : [control : Contents \cup {None}, image : Images] \cup {None}]
Row == [status : [Deployments -> {"none", "registered", "active", "retired"}],
        lock : Dispatches \cup {None}]

BoxTypes ==
  /\ files \in Contents
  /\ box \in Container
  /\ job \in [Box!Operations -> Job]
  /\ request \in [Dispatches -> Request]
  /\ row \in Row
  /\ count \in [{"updates", "starts"} -> Nat]

(* What an operation has, it has of the container that is up. *)
BoxWork ==
  /\ ~box.up => \A o \in Box!Operations : job[o].step = "none"
  /\ \A o \in Box!Operations : job[o].step \in {"checked", "child"} => job[o].checked = box.env.control
  /\ \A o \in Box!Operations : job[o].step = "reaping" => job[o].fate # "none"
  /\ \A o \in box.children : job[o].step \in {"child", "reaping"}
  /\ \A r \in Dispatches : job[r].step # "none" => box.slot = r
  /\ \A r \in Dispatches : request[r].step \in Early => job[r].step = "none" /\ request[r].ran = None
  /\ \A r \in Dispatches : request[r].kind = "activate" => request[r].of \in Deployments

(* An activation that is under way holds the lock, and what it expected    *)
(* is still so.                                                            *)
OneActive == \A d, e \in Deployments : row.status[d] = "active" /\ row.status[e] = "active" => d = e
Holds(r) == row.lock = r /\ Box!Expected(r)
Locked ==
  \A r \in Dispatches : request[r].kind = "activate" /\ request[r].step \in Undecided => Holds(r)

BoxInv == BoxTypes /\ BoxWork /\ Box!RanAsVerified /\ OneActive /\ Locked

LEMMA Constants ==
  /\ ProbeId \notin Dispatches /\ None \notin Dispatches /\ None \notin Deployments /\ Contents # {}
  /\ Box!Operations = Dispatches \cup {ProbeId}
BY ServingAssumption DEF Box!ComputeAssumption, Box!Operations

(* The active deployment is the only one with that status. *)
LEMMA ActiveIs ==
  ASSUME OneActive
  PROVE  /\ \A d \in Deployments : row.status[d] = "active" => Box!Active = d
         /\ (\A d \in Deployments : row.status[d] # "active") => Box!Active = None
BY DEF OneActive, Box!Active, Box!Status

LEMMA ActiveStays ==
  ASSUME OneActive, OneActive',
         \A d \in Deployments : row.status[d] = "active" <=> row'.status[d] = "active"
  PROVE  Box!Active' = Box!Active
<1>1. CASE \E d \in Deployments : row.status[d] = "active"
  <2>1. PICK d \in Deployments : row.status[d] = "active"
    BY <1>1
  <2>2. Box!Active = d
    BY <2>1, ActiveIs
  <2>3. Box!Active' = d
    BY <2>1 DEF OneActive, Box!Active, Box!Status
  <2> QED BY <2>2, <2>3
<1>2. CASE \A d \in Deployments : row.status[d] # "active"
  BY <1>2 DEF Box!Active, Box!Status
<1> QED BY <1>1, <1>2

(* Nobody's expectation changes while the statuses stay as they are. *)
LEMMA LocksStay ==
  ASSUME Locked, UNCHANGED row,
         \A r \in Dispatches :
           request'[r].kind = "activate" /\ request'[r].step \in Undecided =>
             /\ request[r].kind = "activate" /\ request[r].step \in Undecided
             /\ request'[r].of = request[r].of /\ request'[r].expected = request[r].expected
  PROVE  Locked'
BY DEF Locked, Holds, Box!Expected, Box!Status, Box!Active

LEMMA BoxStart == Box!Init => BoxInv
<1> SUFFICES ASSUME Box!Init PROVE BoxInv
  OBVIOUS
<1>1. PICK image \in Images : box = Box!Started(image)
  BY DEF Box!Init
<1>2. /\ files \in Contents /\ job = [o \in Box!Operations |-> Box!Resting]
      /\ request = [r \in Dispatches |-> Box!Idle]
      /\ count = [what \in {"updates", "starts"} |-> 0] /\ row \in Box!Earlier
  BY Constants DEF Box!Init
<1>3. row \in Row /\ OneActive
  BY <1>2, Constants DEF Box!Earlier, Row, OneActive
<1>4. box \in Container
  BY <1>1, <1>2 DEF Box!Started, Box!Measured, Container, Evidence
<1>5. BoxTypes
  BY <1>2, <1>3, <1>4 DEF BoxTypes, Box!Resting, Box!Idle, Job, Request, Early
<1>6. BoxWork
  BY <1>1, <1>2, Constants DEF BoxWork, Box!Started, Box!Resting, Box!Idle
<1>7. Box!RanAsVerified /\ Locked
  BY <1>2 DEF Box!RanAsVerified, Locked, Box!Idle
<1> QED BY <1>3, <1>5, <1>6, <1>7 DEF BoxInv
-----------------------------------------------------------------------------
(* The steps of the server *)

LEMMA VerifyKeeps ==
  ASSUME BoxInv, NEW r \in Dispatches, Box!Verify(r)
  PROVE  BoxInv'
<1>1. PICK kind_ \in {"deploy", "activate", "invoke"}, d \in Deployments, e \in Deployments \cup {None} :
        request' = [request EXCEPT ![r] = [Box!Idle EXCEPT !.step = "probing", !.kind = kind_, !.of = d,
                                                           !.expected = e]]
  BY DEF Box!Verify
<1>2. /\ request[r].step = "idle" /\ box.up /\ UNCHANGED <<files, box, row, count>>
      /\ job' = IF Box!Busy(ProbeId) THEN job ELSE Box!Step(ProbeId, "intake")
  BY DEF Box!Verify, Box!At
<1>3. \A o \in Dispatches : job'[o] = job[o]
  BY <1>2, Constants DEF Box!Step, BoxInv, BoxTypes
<1>4. BoxTypes'
  <2>1. [Box!Idle EXCEPT !.step = "probing", !.kind = kind_, !.of = d, !.expected = e] \in Request
    BY DEF Request, Early, Box!Idle
  <2>2. request' \in [Dispatches -> Request]
    BY <1>1, <2>1 DEF BoxInv, BoxTypes
  <2>3. job' \in [Box!Operations -> Job]
    BY <1>2 DEF BoxInv, BoxTypes, Job, Box!Step
  <2> QED BY <1>2, <2>2, <2>3 DEF BoxInv, BoxTypes
<1>5. BoxWork'
  BY <1>1, <1>2, <1>3, Constants DEF BoxInv, BoxTypes, BoxWork, Early, Box!Idle, Box!Step, Box!Busy
<1>6. Box!RanAsVerified'
  BY <1>1 DEF BoxInv, BoxTypes, Box!RanAsVerified, Box!Idle
<1>7. Locked'
  BY <1>1, <1>2, LocksStay DEF BoxInv, BoxTypes, Box!Idle, Undecided
<1> QED BY <1>2, <1>4, <1>5, <1>6, <1>7 DEF BoxInv, OneActive

(* What a request does to itself in the server, as far as the container is *)
(* concerned                                                               *)
LEMMA StepsOn ==
  ASSUME BoxInv, NEW r \in Dispatches, NEW to \in Early \cup Undecided \cup {"done", "failed"},
         request[r].step \in Early \/ to \notin Early, to = "idle" => request[r].step = "idle",
         request' = Box!Ended(r, to), UNCHANGED <<files, box, job, count>>, row' \in Row
  PROVE  BoxTypes' /\ BoxWork' /\ Box!RanAsVerified'
<1>1. BoxTypes'
  BY DEF BoxInv, BoxTypes, Request, Box!Ended
<1>2. BoxWork'
  BY DEF BoxInv, BoxTypes, Request, BoxWork, Box!Ended
<1>3. Box!RanAsVerified'
  BY DEF BoxInv, BoxTypes, Request, Box!RanAsVerified, Box!Ended
<1> QED BY <1>1, <1>2, <1>3

LEMMA CompareKeeps ==
  ASSUME BoxInv, NEW r \in Dispatches, Box!Compare(r)
  PROVE  BoxInv'
<1>1. PICK to \in {"verified", "failed"} :
        /\ request[r].step = "comparing" /\ request' = Box!Ended(r, to)
        /\ UNCHANGED <<files, box, job, row, count>>
  BY DEF Box!Compare, Box!At
<1>2. BoxTypes' /\ BoxWork' /\ Box!RanAsVerified'
  BY <1>1, StepsOn DEF Early, BoxInv, BoxTypes
<1>3. Locked'
  BY <1>1, LocksStay DEF BoxInv, BoxTypes, Request, Undecided, Box!Ended
<1> QED BY <1>1, <1>2, <1>3 DEF BoxInv, OneActive

LEMMA DeployKeeps ==
  ASSUME BoxInv, NEW r \in Dispatches, Box!Deploy(r)
  PROVE  BoxInv' /\ Box!Active' = Box!Active
<1>1. /\ request[r].step = "verified" /\ request[r].kind = "deploy" /\ row.lock = None
      /\ request' = Box!Ended(r, "done") /\ UNCHANGED <<files, box, job, count>>
      /\ row' = IF row.status[request[r].of] = "none"
                THEN [row EXCEPT !.status[request[r].of] = "registered"] ELSE row
  BY DEF Box!Deploy, Box!At, Box!Status
<1>2. row' \in Row /\ row'.lock = row.lock
  BY <1>1 DEF BoxInv, BoxTypes, Row
<1>3. \A d \in Deployments : row.status[d] = "active" <=> row'.status[d] = "active"
  BY <1>1 DEF BoxInv, BoxTypes, Row
<1>4. BoxTypes' /\ BoxWork' /\ Box!RanAsVerified'
  BY <1>1, <1>2, StepsOn DEF Early
<1>5. OneActive'
  BY <1>3 DEF OneActive, BoxInv
<1>6. \A q \in Dispatches : ~(request[q].kind = "activate" /\ request[q].step \in Undecided)
  BY <1>1, Constants DEF BoxInv, Locked, Holds
<1>7. Locked'
  BY <1>1, <1>6 DEF BoxInv, BoxTypes, Request, Locked, Box!Ended, Undecided
<1>8. Box!Active' = Box!Active
  BY <1>3, <1>5, ActiveStays DEF BoxInv
<1> QED BY <1>4, <1>5, <1>7, <1>8 DEF BoxInv

LEMMA ActivateKeeps ==
  ASSUME BoxInv, NEW r \in Dispatches, Box!Activate(r)
  PROVE  BoxInv' /\ Box!Active' = Box!Active
<1>1. /\ request[r].step = "verified" /\ request[r].kind = "activate" /\ row.lock = None
      /\ UNCHANGED <<files, box, job, count>>
  BY DEF Box!Activate, Box!At
<1>2. \A q \in Dispatches : ~(request[q].kind = "activate" /\ request[q].step \in Undecided)
  BY <1>1, Constants DEF BoxInv, Locked, Holds
<1>3. CASE Box!Expected(r)
  <2>1. row' = [row EXCEPT !.lock = r] /\ request' = Box!Ended(r, "ready")
    BY <1>3 DEF Box!Activate, Box!Hold
  <2>2. row' \in Row /\ row'.status = row.status /\ row'.lock = r
    BY <2>1 DEF BoxInv, BoxTypes, Row
  <2>3. BoxTypes' /\ BoxWork' /\ Box!RanAsVerified'
    BY <1>1, <2>1, <2>2, StepsOn DEF Early
  <2>4. OneActive' /\ Box!Active' = Box!Active
    BY <2>2, ActiveStays DEF OneActive, BoxInv
  <2>5. \A q \in Dispatches \ {r} : request'[q] = request[q]
    BY <2>1 DEF BoxInv, BoxTypes, Box!Ended
  <2>6. /\ request'[r].of = request[r].of /\ request'[r].expected = request[r].expected
        /\ request[r].of \in Deployments
    BY <1>1, <2>1 DEF BoxInv, BoxTypes, BoxWork, Request, Box!Ended
  <2>7. Box!Expected(r)'
    BY <1>3, <2>2, <2>4, <2>6 DEF Box!Expected, Box!Status
  <2>8. Holds(r)'
    BY <2>2, <2>7 DEF Holds
  <2>9. Locked'
    BY <1>2, <2>5, <2>8 DEF Locked
  <2> QED BY <2>3, <2>4, <2>9 DEF BoxInv
<1>4. CASE ~Box!Expected(r)
  <2>1. request' = Box!Ended(r, "failed") /\ UNCHANGED row
    BY <1>4 DEF Box!Activate
  <2>2. BoxTypes' /\ BoxWork' /\ Box!RanAsVerified'
    BY <1>1, <2>1, StepsOn DEF Early, BoxInv, BoxTypes
  <2>3. Locked'
    BY <1>1, <2>1, LocksStay DEF BoxInv, BoxTypes, Request, Undecided, Box!Ended
  <2> QED BY <2>1, <2>2, <2>3 DEF BoxInv, OneActive, Box!Active, Box!Status
<1> QED BY <1>3, <1>4

LEMMA InvokeKeeps ==
  ASSUME BoxInv, NEW r \in Dispatches, Box!Invoke(r)
  PROVE  BoxInv'
<1>1. PICK to \in {"ready", "failed"} :
        /\ request[r].step = "verified" /\ request[r].kind = "invoke"
        /\ request' = Box!Ended(r, to) /\ UNCHANGED <<files, box, job, row, count>>
  BY DEF Box!Invoke, Box!At
<1>2. BoxTypes' /\ BoxWork' /\ Box!RanAsVerified'
  BY <1>1, StepsOn DEF Early, BoxInv, BoxTypes
<1>3. Locked'
  BY <1>1, LocksStay DEF BoxInv, BoxTypes, Request, Box!Ended
<1> QED BY <1>1, <1>2, <1>3 DEF BoxInv, OneActive

(* The slot was free, and so nothing but the probe can have a child. *)
LEMMA DispatchKeeps ==
  ASSUME BoxInv, NEW r \in Dispatches, Box!Dispatch(r)
  PROVE  BoxInv'
<1>1. request[r].step = "ready" /\ UNCHANGED <<files, row, count>>
  BY DEF Box!Dispatch, Box!At
<1>2. CASE box.up /\ ~box.closing /\ box.slot = None
  <2>1. /\ box' = [box EXCEPT !.slot = r] /\ job' = Box!Step(r, "intake")
        /\ request' = Box!Ended(r, "waiting")
    BY <1>2 DEF Box!Dispatch
  <2>2. BoxTypes'
    <3>1. box' \in Container
      BY <2>1 DEF BoxInv, BoxTypes, Container
    <3>2. job' \in [Box!Operations -> Job]
      BY <2>1 DEF BoxInv, BoxTypes, Job, Box!Step
    <3>3. request' \in [Dispatches -> Request]
      BY <2>1 DEF BoxInv, BoxTypes, Request, Undecided, Box!Ended
    <3> QED BY <1>1, <3>1, <3>2, <3>3 DEF BoxInv, BoxTypes
  <2>3. \A q \in Dispatches : job[q].step = "none"
    BY <1>2, Constants DEF BoxInv, BoxWork
  <2>4. BoxWork'
    BY <1>1, <1>2, <2>1, <2>3, Constants
    DEF BoxInv, BoxTypes, Container, Job, Request, BoxWork, Early, Box!Step, Box!Ended
  <2>5. Box!RanAsVerified'
    BY <2>1 DEF BoxInv, BoxTypes, Request, Box!RanAsVerified, Box!Ended
  <2>6. Locked'
    BY <1>1, <2>1, LocksStay DEF BoxInv, BoxTypes, Request, Undecided, Box!Ended
  <2> QED BY <1>1, <2>2, <2>4, <2>5, <2>6 DEF BoxInv, OneActive
<1>3. CASE ~(box.up /\ ~box.closing /\ box.slot = None)
  <2>1. request' = Box!Ended(r, "refused") /\ UNCHANGED <<box, job>>
    BY <1>3 DEF Box!Dispatch
  <2>2. BoxTypes' /\ BoxWork' /\ Box!RanAsVerified'
    BY <1>1, <2>1, StepsOn DEF Early, Undecided, BoxInv, BoxTypes
  <2>3. Locked'
    BY <1>1, <2>1, LocksStay DEF BoxInv, BoxTypes, Request, Undecided, Box!Ended
  <2> QED BY <1>1, <2>2, <2>3 DEF BoxInv, OneActive
<1> QED BY <1>2, <1>3

(* The activation that commits replaces what was expected: it has held the *)
(* lock since it looked.                                                   *)
LEMMA FinishKeeps ==
  ASSUME BoxInv, NEW r \in Dispatches, Box!Finish(r)
  PROVE  /\ BoxInv'
         /\ Box!Active' # Box!Active =>
              /\ request[r].kind = "activate" /\ Box!At(r, "answered")
              /\ request[r].of = Box!Active' /\ request[r].expected = Box!Active
<1>1. PICK to \in {"done", "failed"} :
        /\ request[r].step \in {"answered", "refused"}
        /\ request' = Box!Ended(r, to) /\ row' = Box!Commit(r)
        /\ UNCHANGED <<files, box, job, count>>
  BY DEF Box!Finish
<1>2. CASE request[r].kind = "activate" /\ request[r].step = "answered"
  <2>1. row' = [status |-> [d \in Deployments |->
                  IF d = request[r].of THEN "active"
                  ELSE IF row.status[d] = "active" THEN "retired" ELSE row.status[d]], lock |-> None]
    BY <1>1, <1>2 DEF Box!Commit, Box!At, Box!Status
  <2>2. /\ request[r].of \in Deployments /\ row.lock = r /\ Box!Expected(r)
        /\ \A q \in Dispatches \ {r} : ~(request[q].kind = "activate" /\ request[q].step \in Undecided)
    BY <1>2 DEF BoxInv, BoxWork, Locked, Holds, Undecided
  <2>3. row' \in Row
    BY <2>1 DEF BoxInv, BoxTypes, Row
  <2>4. BoxTypes' /\ BoxWork' /\ Box!RanAsVerified'
    BY <1>1, <2>3, StepsOn DEF Early
  <2>5. OneActive'
    BY <2>1 DEF OneActive
  <2>6. Locked'
    BY <1>1, <2>2 DEF BoxInv, BoxTypes, Request, Locked, Box!Ended, Undecided
  <2>7. row'.status[request[r].of] = "active"
    BY <2>1, <2>2
  <2>8. Box!Active' = request[r].of
    BY <2>2, <2>5, <2>7 DEF OneActive, Box!Active, Box!Status
  <2>9. row.status[request[r].of] = "active" => Box!Active = request[r].of
    BY <2>2, ActiveIs DEF BoxInv
  <2>10. Box!Active' # Box!Active => request[r].expected = Box!Active
    BY <2>2, <2>8, <2>9 DEF Box!Expected, Box!Status
  <2> QED BY <1>2, <2>4, <2>5, <2>6, <2>8, <2>10 DEF BoxInv, Box!At
<1>3. CASE ~(request[r].kind = "activate" /\ request[r].step = "answered")
  <2>1. row' = [row EXCEPT !.lock = IF @ = r THEN None ELSE @]
    BY <1>1, <1>3 DEF Box!Commit, Box!At
  <2>2. row' \in Row /\ row'.status = row.status /\ (row.lock # r => row' = row)
    BY <2>1 DEF BoxInv, BoxTypes, Row
  <2>3. BoxTypes' /\ BoxWork' /\ Box!RanAsVerified'
    BY <1>1, <2>2, StepsOn DEF Early
  <2>4. OneActive' /\ Box!Active' = Box!Active
    BY <2>2, ActiveStays DEF OneActive, BoxInv
  <2>5. \A q \in Dispatches \ {r} : request'[q] = request[q]
    BY <1>1 DEF BoxInv, BoxTypes, Box!Ended
  <2>6. request'[r].step \notin Undecided
    BY <1>1 DEF BoxInv, BoxTypes, Request, Box!Ended, Undecided
  <2>7. ASSUME NEW q \in Dispatches, request'[q].kind = "activate", request'[q].step \in Undecided
        PROVE  Holds(q)'
    <3>1. q # r /\ request'[q] = request[q]
      BY <2>5, <2>6, <2>7
    <3>2. Holds(q)
      BY <2>7, <3>1 DEF BoxInv, Locked
    <3>3. row' = row
      BY <2>2, <3>1, <3>2 DEF Holds
    <3> QED BY <2>4, <3>1, <3>2, <3>3 DEF Holds, Box!Expected, Box!Status
  <2>8. Locked'
    BY <2>7 DEF Locked
  <2> QED BY <2>3, <2>4, <2>8 DEF BoxInv
<1> QED BY <1>2, <1>3

LEMMA GiveUpKeeps ==
  ASSUME BoxInv, NEW r \in Dispatches, Box!GiveUp(r)
  PROVE  BoxInv'
<1>1. PICK to \in {"failed", "refused"} :
        /\ request[r].step \in {"probing", "waiting"}
        /\ (request[r].step = "probing" => to = "failed")
        /\ request' = Box!Ended(r, to) /\ UNCHANGED <<files, box, job, row, count>>
  BY DEF Box!GiveUp, Box!At
<1>2. BoxTypes' /\ BoxWork' /\ Box!RanAsVerified'
  BY <1>1, StepsOn DEF Early, Undecided, BoxInv, BoxTypes
<1>3. Locked'
  BY <1>1, LocksStay DEF BoxInv, BoxTypes, Request, Undecided, Box!Ended
<1> QED BY <1>1, <1>2, <1>3 DEF BoxInv, OneActive
-----------------------------------------------------------------------------
(* The steps of the supervisor and of the container, which leave the       *)
(* database alone                                                          *)

(* One operation gets further; a request of it keeps what it is.           *)
LEMMA WorkMoves ==
  ASSUME BoxTypes, BoxWork, NEW o \in Box!Operations, job[o].step # "none",
         \A p \in Box!Operations \ {o} : job'[p] = job[p],
         job'[o].step \in {"checked", "child"} => job'[o].checked = box.env.control,
         job'[o].step = "reaping" => job'[o].fate # "none",
         box'.up = box.up, box'.env = box.env, box'.slot = box.slot,
         box'.children \subseteq box.children \cup {o},
         o \in box'.children => job'[o].step \in {"child", "reaping"},
         \A r \in Dispatches :
           /\ request'[r].step = request[r].step /\ request'[r].kind = request[r].kind
           /\ request'[r].of = request[r].of /\ (r # o => request'[r].ran = request[r].ran)
  PROVE  BoxWork'
<1>1. box.children \subseteq Box!Operations /\ \A r \in Dispatches : r \in Box!Operations
  BY Constants DEF BoxTypes, Container
<1>2. box'.up
  BY DEF BoxWork
<1>3. \A p \in Box!Operations : job'[p].step \in {"checked", "child"} => job'[p].checked = box'.env.control
  BY DEF BoxWork
<1>4. \A p \in Box!Operations : job'[p].step = "reaping" => job'[p].fate # "none"
  BY DEF BoxWork
<1>5. \A p \in box'.children : job'[p].step \in {"child", "reaping"}
  BY <1>1 DEF BoxWork
<1>6. \A r \in Dispatches : job'[r].step # "none" => box'.slot = r
  BY <1>1 DEF BoxWork
<1>7. \A r \in Dispatches : request'[r].step \in Early => job'[r].step = "none" /\ request'[r].ran = None
  BY <1>1 DEF BoxWork
<1>8. \A r \in Dispatches : request'[r].kind = "activate" => request'[r].of \in Deployments
  BY DEF BoxWork
<1> QED BY <1>2, <1>3, <1>4, <1>5, <1>6, <1>7, <1>8 DEF BoxWork

LEMMA CheckKeeps ==
  ASSUME BoxInv, NEW o \in Box!Operations, Box!Check(o)
  PROVE  BoxInv'
<1>1. /\ job[o].step = "intake" /\ UNCHANGED <<files, box, request, row, count>>
      /\ job' = IF files = box.env.control
                THEN [Box!Step(o, "checked") EXCEPT ![o].checked = files]
                ELSE Box!Aborted(o, "refused")
  BY DEF Box!Check
<1>2. job' \in [Box!Operations -> Job]
  BY <1>1 DEF BoxInv, BoxTypes, Job, Box!Step, Box!Aborted
<1>3. /\ \A p \in Box!Operations \ {o} : job'[p] = job[p]
      /\ job'[o].step \in {"checked", "reaping"}
      /\ job'[o].step = "checked" => job'[o].checked = box.env.control
      /\ job'[o].step = "reaping" => job'[o].fate = "refused"
  BY <1>1 DEF BoxInv, BoxTypes, Job, Box!Step, Box!Aborted
<1>4. BoxWork'
  <2>1. o \notin box.children
    BY <1>1 DEF BoxInv, BoxWork
  <2> QED BY <1>1, <1>3, <2>1, WorkMoves DEF BoxInv
<1>5. Locked' /\ Box!RanAsVerified' /\ OneActive'
  BY <1>1, LocksStay DEF BoxInv, Box!RanAsVerified, OneActive
<1> QED BY <1>1, <1>2, <1>4, <1>5 DEF BoxInv, BoxTypes

LEMMA SpawnKeeps ==
  ASSUME BoxInv, NEW o \in Box!Operations, Box!Spawn(o)
  PROVE  BoxInv'
<1>1. /\ job[o].step = "checked" /\ UNCHANGED <<files, request, row, count>>
      /\ box' = [box EXCEPT !.children = @ \cup {o}] /\ job' = Box!Step(o, "child")
  BY DEF Box!Spawn
<1>2. job' \in [Box!Operations -> Job] /\ box' \in Container
  BY <1>1 DEF BoxInv, BoxTypes, Job, Container, Box!Step
<1>3. /\ \A p \in Box!Operations \ {o} : job'[p] = job[p]
      /\ job'[o].step = "child" /\ job'[o].checked = job[o].checked
      /\ box'.children = box.children \cup {o}
      /\ box'.up = box.up /\ box'.env = box.env /\ box'.slot = box.slot
  BY <1>1 DEF BoxInv, BoxTypes, Job, Container, Box!Step
<1>4. BoxWork'
  <2>1. job[o].checked = box.env.control
    BY <1>1 DEF BoxInv, BoxWork
  <2> QED BY <1>1, <1>3, <2>1, WorkMoves DEF BoxInv
<1>5. Locked' /\ Box!RanAsVerified' /\ OneActive'
  BY <1>1, LocksStay DEF BoxInv, Box!RanAsVerified, OneActive
<1> QED BY <1>1, <1>2, <1>4, <1>5 DEF BoxInv, BoxTypes

(* An operation that ends, however it does *)
LEMMA EndsWork ==
  ASSUME BoxInv, NEW o \in Box!Operations, job[o].step # "none",
         NEW fate \in {"answered", "refused"}, job' = Box!Aborted(o, fate),
         UNCHANGED <<files, box, count>>, request' \in [Dispatches -> Request], row' \in Row,
         \A r \in Dispatches :
           /\ request'[r].step = request[r].step /\ request'[r].kind = request[r].kind
           /\ request'[r].of = request[r].of /\ (r # o => request'[r].ran = request[r].ran)
  PROVE  BoxTypes' /\ BoxWork'
<1>1. job' \in [Box!Operations -> Job]
  BY DEF BoxInv, BoxTypes, Job, Box!Aborted
<1>2. /\ \A p \in Box!Operations \ {o} : job'[p] = job[p]
      /\ job'[o].step = "reaping" /\ job'[o].fate = fate
  BY DEF BoxInv, BoxTypes, Job, Box!Aborted
<1>3. BoxWork'
  BY <1>2, WorkMoves DEF BoxInv
<1> QED BY <1>1, <1>3 DEF BoxInv, BoxTypes

(* The loader compares with the evidence, and the files were found to be   *)
(* those of the measurement.                                               *)
LEMMA ServeKeeps ==
  ASSUME BoxInv, NEW o \in Box!Operations, Box!Serve(o)
  PROVE  BoxInv'
<1>1. job[o].step = "child" /\ UNCHANGED <<files, box, row, count>>
  BY DEF Box!Serve
<1>2. CASE UNCHANGED request
  <2>1. PICK fate \in {"answered", "refused"} : job' = Box!Aborted(o, fate)
    <3>1. CASE o = ProbeId
      BY <3>1 DEF Box!Serve
    <3>2. CASE o # ProbeId
      BY <3>2 DEF Box!Serve
    <3> QED BY <3>1, <3>2
  <2>2. BoxTypes' /\ BoxWork'
    BY <1>1, <1>2, <2>1, EndsWork DEF BoxInv, BoxTypes
  <2>3. Locked' /\ Box!RanAsVerified' /\ OneActive'
    BY <1>1, <1>2, LocksStay DEF BoxInv, Box!RanAsVerified, OneActive
  <2> QED BY <2>2, <2>3 DEF BoxInv
<1>3. CASE request' # request
  <2>1. /\ o \in Dispatches /\ request[o].evidence = box.env
        /\ request' = [request EXCEPT ![o].ran = [control |-> job[o].checked, image |-> box.env.image]]
        /\ \E fate \in {"answered", "refused"} : job' = Box!Aborted(o, fate)
    BY <1>3, Constants DEF Box!Serve, Box!Believes
  <2>2. PICK fate \in {"answered", "refused"} : job' = Box!Aborted(o, fate)
    BY <2>1
  <2>3. /\ job[o].checked = box.env.control /\ box.env \in Evidence
        /\ [control |-> job[o].checked, image |-> box.env.image] = box.env
    BY <1>1 DEF BoxInv, BoxTypes, BoxWork, Container, Evidence
  <2>4. request' = [request EXCEPT ![o].ran = box.env]
    BY <2>1, <2>3
  <2>5. /\ request' \in [Dispatches -> Request]
        /\ \A r \in Dispatches :
             /\ request'[r].step = request[r].step /\ request'[r].kind = request[r].kind
             /\ request'[r].of = request[r].of /\ request'[r].expected = request[r].expected
             /\ request'[r].evidence = request[r].evidence
             /\ request'[r].ran = IF r = o THEN box.env ELSE request[r].ran
    BY <2>1, <2>3, <2>4 DEF BoxInv, BoxTypes, Request, Evidence
  <2>6. BoxTypes' /\ BoxWork'
    BY <1>1, <2>2, <2>5, EndsWork DEF BoxInv, BoxTypes
  <2>7. Box!RanAsVerified'
    BY <2>1, <2>5 DEF BoxInv, Box!RanAsVerified
  <2>8. Locked' /\ OneActive'
    BY <1>1, <2>5, LocksStay DEF BoxInv, OneActive
  <2> QED BY <2>6, <2>7, <2>8 DEF BoxInv
<1> QED BY <1>2, <1>3

LEMMA AbortKeeps ==
  ASSUME BoxInv, NEW o \in Box!Operations, Box!Abort(o)
  PROVE  BoxInv'
<1>1. /\ job[o].step # "none" /\ job' = Box!Aborted(o, "refused")
      /\ UNCHANGED <<files, box, request, row, count>>
  BY DEF Box!Abort, Box!Overdue
<1>2. BoxTypes' /\ BoxWork'
  BY <1>1, EndsWork DEF BoxInv, BoxTypes
<1>3. Locked' /\ Box!RanAsVerified' /\ OneActive'
  BY <1>1, LocksStay DEF BoxInv, Box!RanAsVerified, OneActive
<1> QED BY <1>2, <1>3 DEF BoxInv

(* The answer of the probe gives its evidence to requests that have run    *)
(* nothing yet.                                                            *)
LEMMA ReapKeeps ==
  ASSUME BoxInv, NEW o \in Box!Operations, Box!Reap(o)
  PROVE  BoxInv'
<1>1. /\ job[o].step = "reaping" /\ UNCHANGED <<files, row, count>>
      /\ box' = [box EXCEPT !.children = @ \ {o}, !.slot = IF @ = o THEN None ELSE @]
      /\ job' = [job EXCEPT ![o] = Box!Resting] /\ request' = Box!Answer(o)
  BY DEF Box!Reap, Box!Reaped
<1>2. /\ job[o].fate \in {"answered", "refused"} /\ box.env \in Evidence
      /\ box.children \subseteq Box!Operations
      /\ \A r \in Dispatches : request[r].step = "probing" => r # o /\ request[r].ran = None
  BY <1>1 DEF BoxInv, BoxTypes, BoxWork, Job, Container, Early
<1>3. job' \in [Box!Operations -> Job] /\ box' \in Container
  BY <1>1 DEF BoxInv, BoxTypes, Job, Container, Box!Resting
<1>4. /\ \A p \in Box!Operations \ {o} : job'[p] = job[p]
      /\ job'[o].step = "none"
      /\ box'.children = box.children \ {o} /\ box'.up = box.up /\ box'.env = box.env
      /\ box'.slot = IF box.slot = o THEN None ELSE box.slot
  BY <1>1 DEF BoxInv, BoxTypes, Job, Container, Box!Resting
<1>5. ASSUME NEW r \in Dispatches
      PROVE  \/ request'[r] = request[r]
             \/ /\ request[r].step = "probing" /\ request[r].ran = None
                /\ request'[r] \in {[request[r] EXCEPT !.step = "comparing", !.evidence = box.env],
                                    [request[r] EXCEPT !.step = "failed"]}
             \/ /\ request[r].step = "waiting"
                /\ request'[r] \in {[request[r] EXCEPT !.step = "answered"],
                                    [request[r] EXCEPT !.step = "refused"]}
  BY <1>1, <1>2 DEF Box!Answer, Box!At
<1>6. ASSUME NEW r \in Dispatches
      PROVE  /\ request'[r] \in Request
             /\ request'[r].kind = request[r].kind /\ request'[r].of = request[r].of
             /\ request'[r].expected = request[r].expected /\ request'[r].ran = request[r].ran
             /\ request'[r].ran # None => request'[r].evidence = request[r].evidence
             /\ request'[r].step \in Undecided => request[r].step \in Undecided
             /\ request'[r].step \in Early => request[r].step \in Early
  <2>1. request[r] \in Request
    BY DEF BoxInv, BoxTypes
  <2>2. CASE request'[r] = request[r]
    BY <2>1, <2>2
  <2>3. CASE request[r].step = "probing" /\ request[r].ran = None
             /\ request'[r] = [request[r] EXCEPT !.step = "comparing", !.evidence = box.env]
    BY <1>2, <2>1, <2>3 DEF Request, Early, Undecided
  <2>4. CASE request[r].step = "probing" /\ request'[r] = [request[r] EXCEPT !.step = "failed"]
    BY <2>1, <2>4 DEF Request, Early, Undecided
  <2>5. CASE request[r].step = "waiting" /\ request'[r] = [request[r] EXCEPT !.step = "answered"]
    BY <2>1, <2>5 DEF Request, Early, Undecided
  <2>6. CASE request[r].step = "waiting" /\ request'[r] = [request[r] EXCEPT !.step = "refused"]
    BY <2>1, <2>6 DEF Request, Early, Undecided
  <2> QED BY <1>5, <2>2, <2>3, <2>4, <2>5, <2>6
<1>7. BoxTypes'
  <2>1. request' \in [Dispatches -> Request]
    BY <1>1, <1>6 DEF Box!Answer
  <2> QED BY <1>1, <1>3, <2>1 DEF BoxInv, BoxTypes
<1>8. BoxWork'
  <2>1. \A r \in Dispatches : r \in Box!Operations
    BY Constants
  <2>2. ~box'.up => \A p \in Box!Operations : job'[p].step = "none"
    BY <1>4 DEF BoxInv, BoxWork
  <2>3. \A p \in Box!Operations : job'[p].step \in {"checked", "child"} => job'[p].checked = box'.env.control
    BY <1>4 DEF BoxInv, BoxWork
  <2>4. \A p \in Box!Operations : job'[p].step = "reaping" => job'[p].fate # "none"
    BY <1>4 DEF BoxInv, BoxWork
  <2>5. \A p \in box'.children : job'[p].step \in {"child", "reaping"}
    BY <1>2, <1>4 DEF BoxInv, BoxWork
  <2>6. \A r \in Dispatches : job'[r].step # "none" => box'.slot = r
    BY <1>4, <2>1 DEF BoxInv, BoxWork
  <2>7. \A r \in Dispatches : request'[r].step \in Early => job'[r].step = "none" /\ request'[r].ran = None
    BY <1>4, <1>6, <2>1 DEF BoxInv, BoxWork
  <2>8. \A r \in Dispatches : request'[r].kind = "activate" => request'[r].of \in Deployments
    BY <1>6 DEF BoxInv, BoxWork
  <2> QED BY <2>2, <2>3, <2>4, <2>5, <2>6, <2>7, <2>8 DEF BoxWork
<1>9. Box!RanAsVerified'
  BY <1>6 DEF BoxInv, Box!RanAsVerified
<1>10. Locked' /\ OneActive'
  BY <1>1, <1>6, LocksStay DEF BoxInv, OneActive
<1> QED BY <1>7, <1>8, <1>9, <1>10 DEF BoxInv

LEMMA CloseKeeps ==
  ASSUME BoxInv, Box!Close
  PROVE  BoxInv'
<1>1. /\ box.up /\ box' = [box EXCEPT !.closing = TRUE] /\ UNCHANGED <<files, request, row, count>>
      /\ job' = [o \in Box!Operations |->
           IF Box!Overdue(o) THEN [job[o] EXCEPT !.step = "reaping", !.fate = "refused"] ELSE job[o]]
  BY DEF Box!Close
<1>2. box' \in Container /\ box.children \subseteq Box!Operations /\ box'.up = box.up
      /\ box'.children = box.children /\ box'.env = box.env /\ box'.slot = box.slot
  BY <1>1 DEF BoxInv, BoxTypes, Container
<1>3. ASSUME NEW o \in Box!Operations
      PROVE  /\ job'[o] \in Job
             /\ \/ job'[o] = job[o]
                \/ job[o].step # "none" /\ job'[o].step = "reaping" /\ job'[o].fate = "refused"
  BY <1>1 DEF BoxInv, BoxTypes, Job, Box!Overdue
<1>4. BoxTypes'
  BY <1>1, <1>2, <1>3 DEF BoxInv, BoxTypes
<1>5. BoxWork'
  <2>1. \A r \in Dispatches : r \in Box!Operations
    BY Constants
  <2>2. \A p \in Box!Operations : job'[p].step \in {"checked", "child"} => job'[p].checked = box'.env.control
    BY <1>2, <1>3 DEF BoxInv, BoxWork
  <2>3. \A p \in Box!Operations : job'[p].step = "reaping" => job'[p].fate # "none"
    BY <1>3 DEF BoxInv, BoxWork
  <2>4. \A p \in box'.children : job'[p].step \in {"child", "reaping"}
    BY <1>2, <1>3 DEF BoxInv, BoxWork
  <2>5. \A r \in Dispatches : job'[r].step # "none" => box'.slot = r
    BY <1>2, <1>3, <2>1 DEF BoxInv, BoxWork
  <2>6. \A r \in Dispatches : request'[r].step \in Early => job'[r].step = "none" /\ request'[r].ran = None
    BY <1>1, <1>3, <2>1 DEF BoxInv, BoxWork
  <2> QED BY <1>1, <1>2, <2>2, <2>3, <2>4, <2>5, <2>6 DEF BoxInv, BoxWork
<1>6. Locked' /\ Box!RanAsVerified' /\ OneActive'
  BY <1>1, LocksStay DEF BoxInv, Box!RanAsVerified, OneActive
<1> QED BY <1>4, <1>5, <1>6 DEF BoxInv

LEMMA StopKeeps ==
  ASSUME BoxInv, Box!Stop
  PROVE  BoxInv'
<1>1. /\ box' = [box EXCEPT !.up = FALSE, !.slot = None, !.children = {}]
      /\ job' = [o \in Box!Operations |-> Box!Resting] /\ request' = Box!Lost
      /\ UNCHANGED <<files, row, count>>
  BY DEF Box!Stop
<1>2. box' \in Container /\ box'.children = {} /\ box'.env = box.env
  BY <1>1 DEF BoxInv, BoxTypes, Container
<1>3. job' \in [Box!Operations -> Job] /\ \A o \in Box!Operations : job'[o].step = "none"
  BY <1>1 DEF Job, Box!Resting
<1>4. ASSUME NEW r \in Dispatches
      PROVE  /\ request'[r] \in Request
             /\ request'[r].kind = request[r].kind /\ request'[r].of = request[r].of
             /\ request'[r].expected = request[r].expected /\ request'[r].ran = request[r].ran
             /\ request'[r].evidence = request[r].evidence
             /\ request'[r].step \in Undecided => request[r].step \in Undecided
             /\ request'[r].step \in Early => request[r].step \in Early
  <2>1. request[r] \in Request
    BY DEF BoxInv, BoxTypes
  <2>2. CASE request[r].step = "probing"
    <3>1. request'[r] = [request[r] EXCEPT !.step = "failed"]
      BY <1>1, <2>2 DEF Box!Lost, Box!At
    <3> QED BY <2>1, <2>2, <3>1 DEF Request, Early, Undecided
  <2>3. CASE request[r].step = "waiting"
    <3>1. request'[r] = [request[r] EXCEPT !.step = "refused"]
      BY <1>1, <2>3 DEF Box!Lost, Box!At
    <3> QED BY <2>1, <2>3, <3>1 DEF Request, Early, Undecided
  <2>4. CASE request[r].step \notin {"probing", "waiting"}
    <3>1. request'[r] = request[r]
      BY <1>1, <2>4 DEF Box!Lost, Box!At
    <3> QED BY <2>1, <3>1
  <2> QED BY <2>2, <2>3, <2>4
<1>5. BoxTypes'
  <2>1. request' \in [Dispatches -> Request]
    BY <1>1, <1>4 DEF Box!Lost
  <2> QED BY <1>1, <1>2, <1>3, <2>1 DEF BoxInv, BoxTypes
<1>6. BoxWork'
  BY <1>2, <1>3, <1>4, Constants DEF BoxInv, BoxWork
<1>7. Box!RanAsVerified'
  BY <1>4 DEF BoxInv, Box!RanAsVerified
<1>8. Locked' /\ OneActive'
  BY <1>1, <1>4, LocksStay DEF BoxInv, OneActive
<1> QED BY <1>5, <1>6, <1>7, <1>8 DEF BoxInv

(* A container that starts has a measurement of its own: nothing is left   *)
(* of an operation that another one checked.                               *)
LEMMA StartKeeps ==
  ASSUME BoxInv, NEW image \in Images, Box!Start(image)
  PROVE  BoxInv'
<1>1. /\ ~box.up /\ box' = Box!Started(image) /\ UNCHANGED <<files, job, request, row>>
      /\ count' = [count EXCEPT !["starts"] = @ + 1]
  BY DEF Box!Start, Box!Spend
<1>2. box' \in Container /\ box'.up /\ box'.children = {}
  BY <1>1 DEF BoxInv, BoxTypes, Container, Evidence, Box!Started, Box!Measured
<1>3. BoxTypes'
  BY <1>1, <1>2 DEF BoxInv, BoxTypes
<1>4. BoxWork'
  BY <1>1, <1>2, Constants DEF BoxInv, BoxWork
<1>5. Locked' /\ Box!RanAsVerified' /\ OneActive'
  BY <1>1, LocksStay DEF BoxInv, Box!RanAsVerified, OneActive
<1> QED BY <1>3, <1>4, <1>5 DEF BoxInv

LEMMA UpdateKeeps ==
  ASSUME BoxInv, NEW content \in Contents, Box!Update(content)
  PROVE  BoxInv'
<1>1. /\ files' = content /\ UNCHANGED <<box, job, request, row>>
      /\ count' = [count EXCEPT !["updates"] = @ + 1]
  BY DEF Box!Update, Box!Spend
<1>2. Locked' /\ Box!RanAsVerified' /\ OneActive'
  BY <1>1, LocksStay DEF BoxInv, Box!RanAsVerified, OneActive
<1> QED BY <1>1, <1>2 DEF BoxInv, BoxTypes, BoxWork
-----------------------------------------------------------------------------
(* One step, whichever it is: the second part is what OnlyExpected says of *)
(* it.                                                                     *)
Replaces ==
  Box!Active' # Box!Active =>
    \E r \in Dispatches : /\ request[r].kind = "activate" /\ Box!At(r, "answered")
                          /\ request[r].of = Box!Active' /\ request[r].expected = Box!Active

LEMMA SameRow == UNCHANGED row => Box!Active' = Box!Active
BY DEF Box!Active, Box!Status

LEMMA ServerKeeps ==
  ASSUME BoxInv, NEW r \in Dispatches, Box!Verify(r) \/ Box!Server(r)
  PROVE  BoxInv' /\ Replaces
<1>1. CASE Box!Verify(r)
  BY <1>1, VerifyKeeps, SameRow DEF Replaces, Box!Verify
<1>2. CASE Box!Compare(r)
  BY <1>2, CompareKeeps, SameRow DEF Replaces, Box!Compare
<1>3. CASE Box!Deploy(r)
  BY <1>3, DeployKeeps DEF Replaces
<1>4. CASE Box!Activate(r)
  BY <1>4, ActivateKeeps DEF Replaces
<1>5. CASE Box!Invoke(r)
  BY <1>5, InvokeKeeps, SameRow DEF Replaces, Box!Invoke
<1>6. CASE Box!Dispatch(r)
  BY <1>6, DispatchKeeps, SameRow DEF Replaces, Box!Dispatch
<1>7. CASE Box!Finish(r)
  BY <1>7, FinishKeeps DEF Replaces
<1>8. CASE Box!GiveUp(r)
  BY <1>8, GiveUpKeeps, SameRow DEF Replaces, Box!GiveUp
<1> QED BY <1>1, <1>2, <1>3, <1>4, <1>5, <1>6, <1>7, <1>8 DEF Box!Server

LEMMA BoxNext == BoxInv /\ [Box!Next]_Box!vars => BoxInv' /\ [Replaces]_Box!vars
<1> SUFFICES ASSUME BoxInv, [Box!Next]_Box!vars PROVE BoxInv' /\ Replaces
  OBVIOUS
<1>1. ASSUME NEW r \in Dispatches, Box!Verify(r) \/ Box!Server(r) PROVE BoxInv' /\ Replaces
  BY <1>1, ServerKeeps
<1>2. ASSUME NEW o \in Box!Operations, Box!Supervisor(o) \/ Box!Abort(o) \/ Box!Reap(o)
      PROVE  BoxInv' /\ Replaces
  <2>1. BoxInv'
    BY <1>2, CheckKeeps, SpawnKeeps, ServeKeeps, AbortKeeps, ReapKeeps DEF Box!Supervisor
  <2>2. UNCHANGED row
    BY <1>2 DEF Box!Supervisor, Box!Check, Box!Spawn, Box!Serve, Box!Abort, Box!Reap
  <2> QED BY <2>1, <2>2, SameRow DEF Replaces
<1>3. ASSUME Box!Environment PROVE BoxInv' /\ Replaces
  <2>1. BoxInv'
    BY <1>3, CloseKeeps, StopKeeps, StartKeeps, UpdateKeeps DEF Box!Environment
  <2>2. UNCHANGED row
    BY <1>3 DEF Box!Environment, Box!Close, Box!Stop, Box!Start, Box!Update
  <2> QED BY <2>1, <2>2, SameRow DEF Replaces
<1>4. CASE UNCHANGED Box!vars
  <2>1. Locked' /\ Box!Active' = Box!Active
    BY <1>4, LocksStay, SameRow DEF Box!vars, BoxInv
  <2> QED BY <1>4, <2>1 DEF Box!vars, BoxInv, BoxTypes, BoxWork, OneActive, Box!RanAsVerified, Replaces
<1> QED BY <1>1, <1>2, <1>3, <1>4 DEF Box!Next

(* Every process has the slot, except that of the probe. *)
LEMMA SlotKept == BoxInv => Box!SlotCoversChild
BY Constants DEF BoxInv, BoxTypes, BoxWork, Container, Box!SlotCoversChild

(* Code of a request runs only in the container that was verified for it,  *)
(* with control files unchanged at its last check, and its process lives   *)
(* within its slot (supervisor.js: operation, killAndReap; loader.js),     *)
(* whatever restarts, updates, deadlines and disconnections come between.  *)
THEOREM RunsVerified == Box!Spec => []RunsAsAdmitted
<1>1. BoxInv => RunsAsAdmitted
  BY SlotKept DEF BoxInv, RunsAsAdmitted, Box!RunsAsAdmitted
<1> QED BY <1>1, BoxStart, BoxNext, PTL DEF Box!Spec

(* An activation replaces exactly the deployment its caller expected       *)
(* (functions: the compare-and-set of the active deployment), although the *)
(* container prepares between the look and the update.                     *)
THEOREM ReplacesExpected == Box!Spec => OnlyExpected
<1>1. OnlyExpected <=> [][Replaces]_Box!vars
  BY DEF OnlyExpected, Box!OnlyExpected, Replaces
<1> QED BY <1>1, BoxStart, BoxNext, PTL DEF Box!Spec
-----------------------------------------------------------------------------
(* StreamAdmission.  The counters and the gate are each inductive with     *)
(* what a stream can have under way at its step.                           *)

QuerySteps == {"none", "waiting", "woken", "running"}
Query == [step : QuerySteps, aborted : BOOLEAN]
Stream == [step : {"idle", "authorizing", "admitting", "opening", "streaming", "failing", "closing"},
           workspace : Workspaces, actor : Actors, gone : BOOLEAN]
AuditTypes ==
  /\ stream \in [Streams -> Stream]
  /\ counters \in [app : Nat, workspace : [Workspaces -> Nat], actor : [Actors -> Nat]]
  /\ query \in [Streams -> [Audit!Places -> Query]]
  /\ running \in Nat

(* A stream begins and ends with nothing under way; until it streams, only *)
(* its data query is.                                                      *)
Quiet ==
  \A s \in Streams :
    /\ stream[s].step \in {"idle", "admitting"} => query[s]["data"] = Audit!Unused
    /\ stream[s].step \in {"idle", "authorizing", "admitting", "opening"} =>
         query[s]["access"] = Audit!Unused

AuditInv == AuditTypes /\ Quiet /\ Audit!StreamsCounted /\ Audit!NoIdleQuery

(* The instance has operators of its own for the sizes of sets; they are   *)
(* the same.                                                               *)
LEMMA SameFinite == \A S : Audit!IsFiniteSet(S) <=> IsFiniteSet(S)
BY DEF Audit!IsFiniteSet, IsFiniteSet

LEMMA SameCardinality == \A S : Audit!Cardinality(S) = Cardinality(S)
BY DEF Audit!Cardinality, Cardinality

LEMMA StreamConstants ==
  /\ IsFiniteSet(Streams) /\ Workspaces # {} /\ Actors # {}
  /\ AppLimit \in Nat \ {0} /\ ActorLimit \in Nat \ {0} /\ Width \in Nat \ {0}
BY ServingAssumption, SameFinite DEF Audit!StreamAdmissionAssumption

LEMMA PlacesAre == Audit!Places = {"data", "access"} /\ "data" # "access"
BY DEF Audit!Places

-----------------------------------------------------------------------------
(* The gate: the queries that run, counted                                 *)
Turns == {x \in Streams \X Audit!Places : query[x[1]][x[2]].step = "running"}

LEMMA TurnsFinite == IsFiniteSet(Turns)
<1>1. IsFiniteSet(Audit!Places)
  <2>1. IsFiniteSet({} \cup {"data"})
    BY FS_EmptySet, FS_AddElement
  <2>2. IsFiniteSet({"data"} \cup {"access"})
    BY <2>1, FS_AddElement
  <2> QED BY <2>2, PlacesAre
<1>2. IsFiniteSet(Streams \X Audit!Places)
  BY <1>1, StreamConstants, FS_Product
<1> QED BY <1>2, FS_Subset DEF Turns

(* What a step may do to the queries, as far as the gate goes: nobody      *)
(* begins to wait unless the gate is full, and nobody goes on waiting when *)
(* a turn ends.                                                            *)
Taken(s, p) ==
  /\ query[s][p].step # "running"
  /\ \A t \in Streams, o \in Audit!Places :
       IF t = s /\ o = p
       THEN query'[t][o].step = IF running >= Width THEN "waiting" ELSE "running"
       ELSE query'[t][o] = query[t][o]
  /\ running' = IF running >= Width THEN running ELSE running + 1

GivenBack(s, p) ==
  /\ query[s][p].step = "running" /\ query'[s][p].step = "none"
  /\ \A t \in Streams, o \in Audit!Places :
       /\ t # s \/ o # p => (query'[t][o].step = "running" <=> query[t][o].step = "running")
       /\ query'[t][o].step # "waiting"
  /\ running' = running - 1

NoTurn ==
  /\ \A t \in Streams, o \in Audit!Places :
       /\ query'[t][o].step = "running" <=> query[t][o].step = "running"
       /\ query'[t][o].step = "waiting" => query[t][o].step = "waiting"
  /\ running' = running

LEMMA GateIs ==
  Audit!NoIdleQuery <=>
    /\ running = Cardinality(Turns) /\ running <= Width
    /\ (\E s \in Streams, p \in Audit!Places : query[s][p].step = "waiting") => running = Width
BY SameCardinality DEF Audit!NoIdleQuery, Turns

LEMMA GateIsNext ==
  Audit!NoIdleQuery' <=>
    /\ running' = Cardinality(Turns') /\ running' <= Width
    /\ (\E s \in Streams, p \in Audit!Places : query'[s][p].step = "waiting") => running' = Width
BY SameCardinality DEF Audit!NoIdleQuery, Turns

LEMMA GateTaken ==
  ASSUME AuditInv, NEW s \in Streams, NEW p \in Audit!Places, Taken(s, p)
  PROVE  Audit!NoIdleQuery' /\ running' \in Nat
<1>1. running \in Nat /\ running = Cardinality(Turns) /\ running <= Width /\ Width \in Nat
  BY StreamConstants, GateIs DEF AuditInv, AuditTypes
<1>2. <<s, p>> \notin Turns /\ <<s, p>> \in Streams \X Audit!Places
  BY DEF Taken, Turns
<1>3. CASE running >= Width
  <2>1. Turns' = Turns
    <3>1. \A x \in Streams \X Audit!Places : x \in Turns' <=> x \in Turns
      <4> SUFFICES ASSUME NEW t \in Streams, NEW o \in Audit!Places
                   PROVE  <<t, o>> \in Turns' <=> <<t, o>> \in Turns
        OBVIOUS
      <4> QED BY <1>3 DEF Taken, Turns
    <3> QED BY <3>1 DEF Turns
  <2>2. running' = running /\ running = Width
    BY <1>1, <1>3 DEF Taken
  <2> QED BY <1>1, <2>1, <2>2, GateIsNext
<1>4. CASE ~(running >= Width)
  <2>1. Turns' = Turns \cup {<<s, p>>}
    <3>1. \A x \in Streams \X Audit!Places : x \in Turns' <=> x \in Turns \cup {<<s, p>>}
      <4> SUFFICES ASSUME NEW t \in Streams, NEW o \in Audit!Places
                   PROVE  <<t, o>> \in Turns' <=> <<t, o>> \in Turns \cup {<<s, p>>}
        OBVIOUS
      <4> QED BY <1>4 DEF Taken, Turns
    <3> QED BY <1>2, <3>1 DEF Turns
  <2>2. running' = running + 1 /\ running' <= Width
    BY <1>1, <1>4 DEF Taken
  <2>3. Cardinality(Turns') = running'
    BY <1>1, <1>2, <2>1, <2>2, OneMore, TurnsFinite
  <2>4. \A t \in Streams, o \in Audit!Places : query'[t][o].step # "waiting"
    BY <1>1, <1>4, GateIs DEF Taken, AuditInv
  <2> QED BY <1>1, <2>2, <2>3, <2>4, GateIsNext
<1> QED BY <1>3, <1>4

LEMMA GateGivenBack ==
  ASSUME AuditInv, NEW s \in Streams, NEW p \in Audit!Places, GivenBack(s, p)
  PROVE  Audit!NoIdleQuery' /\ running' \in Nat
<1>1. running \in Nat /\ running = Cardinality(Turns) /\ running <= Width /\ Width \in Nat
  BY StreamConstants, GateIs DEF AuditInv, AuditTypes
<1>2. <<s, p>> \in Turns
  BY DEF GivenBack, Turns
<1>3. Turns' = Turns \ {<<s, p>>}
  <2>1. \A x \in Streams \X Audit!Places : x \in Turns' <=> x \in Turns \ {<<s, p>>}
    <3> SUFFICES ASSUME NEW t \in Streams, NEW o \in Audit!Places
                 PROVE  <<t, o>> \in Turns' <=> <<t, o>> \in Turns \ {<<s, p>>}
      OBVIOUS
    <3> QED BY DEF GivenBack, Turns
  <2> QED BY <2>1 DEF Turns
<1>4. Cardinality(Turns') = running - 1 /\ running >= 1
  BY <1>1, <1>2, <1>3, OneLess, TurnsFinite
<1> QED BY <1>1, <1>4, GateIsNext DEF GivenBack

LEMMA GateLeft ==
  ASSUME AuditInv, NoTurn
  PROVE  Audit!NoIdleQuery' /\ running' \in Nat
<1>1. Turns' = Turns
  <2>1. \A x \in Streams \X Audit!Places : x \in Turns' <=> x \in Turns
    <3> SUFFICES ASSUME NEW t \in Streams, NEW o \in Audit!Places
                 PROVE  <<t, o>> \in Turns' <=> <<t, o>> \in Turns
      OBVIOUS
    <3> QED BY DEF NoTurn, Turns
  <2> QED BY <2>1 DEF Turns
<1> QED BY <1>1, GateIs, GateIsNext DEF NoTurn, AuditInv, AuditTypes
-----------------------------------------------------------------------------
(* The counters                                                            *)
Counting == Audit!Counting
OfWorkspace(w) == {s \in Counting : stream[s].workspace = w}
OfActor(a) == {s \in Counting : stream[s].actor = a}

Sums ==
  /\ counters.app = Cardinality(Counting) /\ counters.app <= AppLimit
  /\ \A w \in Workspaces : counters.workspace[w] = Cardinality(OfWorkspace(w))
  /\ \A a \in Actors : /\ counters.actor[a] = Cardinality(OfActor(a))
                       /\ counters.actor[a] <= ActorLimit

LEMMA SumsAre == Audit!StreamsCounted <=> Sums
BY SameCardinality DEF Audit!StreamsCounted, Sums, Counting, OfWorkspace, OfActor

LEMMA SumsAreNext == (Audit!StreamsCounted <=> Sums)'
BY SumsAre, PTL

LEMMA CountingFinite ==
  /\ IsFiniteSet(Counting) /\ Counting \subseteq Streams
  /\ \A w : IsFiniteSet(OfWorkspace(w)) /\ \A a : IsFiniteSet(OfActor(a))
<1>1. IsFiniteSet(Counting) /\ Counting \subseteq Streams
  BY StreamConstants, FS_Subset DEF Counting, Audit!Counting
<1>2. \A w : OfWorkspace(w) \subseteq Counting
  BY DEF OfWorkspace
<1>3. \A a : OfActor(a) \subseteq Counting
  BY DEF OfActor
<1> QED BY <1>1, <1>2, <1>3, FS_Subset

Counters == [app : Nat, workspace : [Workspaces -> Nat], actor : [Actors -> Nat]]
SameOwners == \A t \in Counting' : /\ stream'[t].workspace = stream[t].workspace
                                   /\ stream'[t].actor = stream[t].actor

LEMMA CountsStay ==
  ASSUME AuditInv, counters' = counters, Counting' = Counting, SameOwners
  PROVE  Audit!StreamsCounted' /\ counters' \in Counters
<1>1. \A w : OfWorkspace(w)' = OfWorkspace(w)
  BY DEF OfWorkspace, SameOwners
<1>2. \A a : OfActor(a)' = OfActor(a)
  BY DEF OfActor, SameOwners
<1>3. Sums'
  BY <1>1, <1>2, SumsAre DEF AuditInv, Sums
<1> QED BY <1>3, SumsAreNext DEF AuditInv, AuditTypes, Counters

(* A stream that is admitted is counted once in each place. *)
LEMMA CountsUp ==
  ASSUME AuditInv, NEW s \in Streams, s \notin Counting, Counting' = Counting \cup {s}, SameOwners,
         counters' = Audit!Raised(s), NEW quota, Audit!Admissible(s, quota)
  PROVE  Audit!StreamsCounted' /\ counters' \in Counters
<1> DEFINE ws == stream[s].workspace
           who == stream[s].actor
<1>1. /\ ws \in Workspaces /\ who \in Actors /\ counters \in Counters /\ Sums
      /\ AppLimit \in Nat /\ ActorLimit \in Nat
  BY SumsAre, StreamConstants DEF AuditInv, AuditTypes, Stream, Counters
<1>2. /\ counters'.app = counters.app + 1 /\ counters'.app \in Nat
      /\ counters' \in Counters
      /\ \A w \in Workspaces : counters'.workspace[w] =
           IF w = ws THEN counters.workspace[w] + 1 ELSE counters.workspace[w]
      /\ \A a \in Actors : counters'.actor[a] =
           IF a = who THEN counters.actor[a] + 1 ELSE counters.actor[a]
  <2>1. counters' = [app |-> counters.app + 2 - 1,
                     workspace |-> [counters.workspace EXCEPT ![ws] = @ + 2 - 1],
                     actor |-> [counters.actor EXCEPT ![who] = @ + 2 - 1]]
    BY <1>1 DEF Audit!Raised, Audit!Bump, Counters
  <2>2. /\ counters.app \in Nat /\ counters.workspace \in [Workspaces -> Nat]
        /\ counters.actor \in [Actors -> Nat]
    BY <1>1 DEF Counters
  <2> QED BY <1>1, <2>1, <2>2 DEF Counters
<1>3. \A w : OfWorkspace(w)' = IF w = ws THEN OfWorkspace(w) \cup {s} ELSE OfWorkspace(w)
  BY DEF OfWorkspace, SameOwners
<1>4. \A a : OfActor(a)' = IF a = who THEN OfActor(a) \cup {s} ELSE OfActor(a)
  BY DEF OfActor, SameOwners
<1>5. (\A w : s \notin OfWorkspace(w)) /\ (\A a : s \notin OfActor(a))
  BY DEF OfWorkspace, OfActor
<1>6. counters'.app = Cardinality(Counting') /\ counters'.app <= AppLimit
  <2>1. Cardinality(Counting') = Cardinality(Counting) + 1
    BY CountingFinite, OneMore
  <2> QED BY <1>1, <1>2, <2>1 DEF Sums, Counters, Audit!Admissible
<1>7. ASSUME NEW w \in Workspaces PROVE counters'.workspace[w] = Cardinality(OfWorkspace(w)')
  <2>1. Cardinality(OfWorkspace(w) \cup {s}) = Cardinality(OfWorkspace(w)) + 1
    BY <1>5, CountingFinite, OneMore
  <2> QED BY <1>1, <1>2, <1>3, <2>1 DEF Sums
<1>8. ASSUME NEW a \in Actors
      PROVE  counters'.actor[a] = Cardinality(OfActor(a)') /\ counters'.actor[a] <= ActorLimit
  <2>1. Cardinality(OfActor(a) \cup {s}) = Cardinality(OfActor(a)) + 1
    BY <1>5, CountingFinite, OneMore
  <2>2. counters.actor[a] \in Nat /\ counters.actor[who] < ActorLimit
    BY <1>1 DEF Counters, Audit!Admissible
  <2>3. counters.actor[a] = Cardinality(OfActor(a)) /\ counters.actor[a] <= ActorLimit
    BY <1>1 DEF Sums
  <2>4. CASE a = who
    <3>1. counters'.actor[a] = counters.actor[a] + 1 /\ Cardinality(OfActor(a)') = Cardinality(OfActor(a)) + 1
      BY <1>2, <1>4, <2>1, <2>4
    <3> QED BY <1>1, <2>2, <2>3, <2>4, <3>1
  <2>5. CASE a # who
    <3>1. counters'.actor[a] = counters.actor[a] /\ OfActor(a)' = OfActor(a)
      BY <1>2, <1>4, <2>5
    <3> QED BY <2>3, <3>1
  <2> QED BY <2>4, <2>5
<1>9. Sums'
  BY <1>6, <1>7, <1>8 DEF Sums
<1> QED BY <1>2, <1>9, SumsAreNext

LEMMA CountsDown ==
  ASSUME AuditInv, NEW s \in Counting, Counting' = Counting \ {s}, SameOwners,
         counters' = Audit!Lowered(s)
  PROVE  Audit!StreamsCounted' /\ counters' \in Counters
<1> DEFINE ws == stream[s].workspace
           who == stream[s].actor
<1>1. /\ ws \in Workspaces /\ who \in Actors /\ counters \in Counters /\ Sums
      /\ AppLimit \in Nat /\ ActorLimit \in Nat
  BY SumsAre, StreamConstants, CountingFinite DEF AuditInv, AuditTypes, Stream, Counters
<1>2. s \in OfWorkspace(ws) /\ s \in OfActor(who)
  BY DEF OfWorkspace, OfActor
<1>3. /\ Cardinality(Counting \ {s}) = Cardinality(Counting) - 1 /\ Cardinality(Counting) >= 1
      /\ Cardinality(OfWorkspace(ws) \ {s}) = Cardinality(OfWorkspace(ws)) - 1
      /\ Cardinality(OfWorkspace(ws)) >= 1
      /\ Cardinality(OfActor(who) \ {s}) = Cardinality(OfActor(who)) - 1
      /\ Cardinality(OfActor(who)) >= 1
  BY <1>2, CountingFinite, OneLess
<1>4. counters.app >= 1 /\ counters.workspace[ws] >= 1 /\ counters.actor[who] >= 1
  BY <1>1, <1>3 DEF Sums
<1>5. /\ counters'.app = counters.app - 1
      /\ counters' \in Counters
      /\ \A w \in Workspaces : counters'.workspace[w] =
           IF w = ws THEN counters.workspace[w] - 1 ELSE counters.workspace[w]
      /\ \A a \in Actors : counters'.actor[a] =
           IF a = who THEN counters.actor[a] - 1 ELSE counters.actor[a]
  <2>1. counters' = [app |-> counters.app + 0 - 1,
                     workspace |-> [counters.workspace EXCEPT ![ws] = @ + 0 - 1],
                     actor |-> [counters.actor EXCEPT ![who] = @ + 0 - 1]]
    BY <1>1 DEF Audit!Lowered, Audit!Bump, Counters
  <2>2. /\ counters.app \in Nat /\ counters.workspace \in [Workspaces -> Nat]
        /\ counters.actor \in [Actors -> Nat]
    BY <1>1 DEF Counters
  <2> QED BY <1>1, <1>4, <2>1, <2>2 DEF Counters
<1>6. \A w : OfWorkspace(w)' = IF w = ws THEN OfWorkspace(w) \ {s} ELSE OfWorkspace(w)
  BY DEF OfWorkspace, SameOwners
<1>7. \A a : OfActor(a)' = IF a = who THEN OfActor(a) \ {s} ELSE OfActor(a)
  BY DEF OfActor, SameOwners
<1>8. counters'.app = Cardinality(Counting') /\ counters'.app <= AppLimit
  BY <1>1, <1>3, <1>4, <1>5 DEF Sums, Counters
<1>9. ASSUME NEW w \in Workspaces PROVE counters'.workspace[w] = Cardinality(OfWorkspace(w)')
  BY <1>1, <1>3, <1>5, <1>6 DEF Sums
<1>10. ASSUME NEW a \in Actors
       PROVE  counters'.actor[a] = Cardinality(OfActor(a)') /\ counters'.actor[a] <= ActorLimit
  <2>1. counters.actor[a] \in Nat /\ counters.actor[a] <= ActorLimit
    BY <1>1 DEF Counters, Sums
  <2>2. counters.actor[a] = Cardinality(OfActor(a))
    BY <1>1 DEF Sums
  <2>3. CASE a = who
    <3>1. counters'.actor[a] = counters.actor[a] - 1 /\ Cardinality(OfActor(a)') = Cardinality(OfActor(a)) - 1
      BY <1>3, <1>5, <1>7, <2>3
    <3> QED BY <1>1, <2>1, <2>2, <3>1
  <2>4. CASE a # who
    <3>1. counters'.actor[a] = counters.actor[a] /\ OfActor(a)' = OfActor(a)
      BY <1>5, <1>7, <2>4
    <3> QED BY <2>1, <2>2, <3>1
  <2> QED BY <2>3, <2>4
<1>11. Sums'
  BY <1>8, <1>9, <1>10 DEF Sums
<1> QED BY <1>5, <1>11, SumsAreNext
-----------------------------------------------------------------------------
(* What the operations of the gate do to the queries                       *)
Queries == [Streams -> [Audit!Places -> Query]]
UnusedStay ==
  \A t \in Streams, o \in Audit!Places : query[t][o] = Audit!Unused => query'[t][o] = Audit!Unused

LEMMA StartedTakes ==
  ASSUME AuditInv, NEW s \in Streams, NEW p \in Audit!Places, query[s][p] = Audit!Unused,
         Audit!Started(s, p)
  PROVE  /\ query' \in Queries /\ Taken(s, p)
         /\ \A t \in Streams, o \in Audit!Places : t # s \/ o # p => query'[t][o] = query[t][o]
<1>1. query \in Queries /\ stream[s].gone \in BOOLEAN
  BY DEF AuditInv, AuditTypes, Queries, Stream
<1> DEFINE q == Audit!Entered([Audit!Unused EXCEPT !.aborted = stream[s].gone])
<1>2. q \in Query /\ q.step = IF running >= Width THEN "waiting" ELSE "running"
  BY <1>1 DEF Audit!Entered, Audit!Unused, Query, QuerySteps
<1>3. query' = [query EXCEPT ![s][p] = q] /\ running' = IF running >= Width THEN running ELSE running + 1
  BY DEF Audit!Started
<1> HIDE DEF q
<1>4. query' \in Queries
  BY <1>1, <1>2, <1>3 DEF Queries
<1>5. /\ \A t \in Streams, o \in Audit!Places : t # s \/ o # p => query'[t][o] = query[t][o]
      /\ query'[s][p] = q
  BY <1>1, <1>3 DEF Queries
<1> QED BY <1>2, <1>3, <1>4, <1>5 DEF Taken, Audit!Unused

LEMMA EndedGives ==
  ASSUME AuditInv, NEW s \in Streams, NEW p \in Audit!Places, NEW ok \in BOOLEAN, Audit!Ended(s, p, ok)
  PROVE  /\ query' \in Queries /\ UnusedStay /\ query'[s][p] = Audit!Unused
         /\ Audit!NoIdleQuery' /\ running' \in Nat
<1>1. query \in Queries /\ Audit!Unused \in Query
  BY DEF AuditInv, AuditTypes, Queries, Query, QuerySteps, Audit!Unused
<1>2. CASE query[s][p].step = "running" /\ running' = running - 1 /\ query' = Audit!Woken(s, p)
  <2>1. ASSUME NEW t \in Streams, NEW o \in Audit!Places
        PROVE  query'[t][o] =
                 IF t = s /\ o = p THEN Audit!Unused
                 ELSE IF query[t][o].step = "waiting" THEN [query[t][o] EXCEPT !.step = "woken"]
                 ELSE query[t][o]
    BY <1>2 DEF Audit!Woken
  <2>2. ASSUME NEW t \in Streams, NEW o \in Audit!Places
        PROVE  /\ query'[t][o] \in Query /\ query'[t][o].step # "waiting"
               /\ query[t][o] = Audit!Unused => query'[t][o] = Audit!Unused
               /\ t # s \/ o # p => (query'[t][o].step = "running" <=> query[t][o].step = "running")
    <3>1. query[t][o] \in Query
      BY <1>1 DEF Queries
    <3>2. CASE t = s /\ o = p
      <4>1. query'[t][o] = Audit!Unused
        BY <2>1, <3>2
      <4>2. Audit!Unused.step = "none"
        BY DEF Audit!Unused
      <4> QED BY <1>1, <3>2, <4>1, <4>2
    <3>3. CASE ~(t = s /\ o = p) /\ query[t][o].step = "waiting"
      <4>1. query'[t][o] = [query[t][o] EXCEPT !.step = "woken"]
        BY <2>1, <3>3
      <4> QED BY <3>1, <3>3, <4>1 DEF Query, QuerySteps, Audit!Unused
    <3>4. CASE ~(t = s /\ o = p) /\ query[t][o].step # "waiting"
      BY <2>1, <3>1, <3>4
    <3> QED BY <3>2, <3>3, <3>4
  <2>3. query'[s][p] = Audit!Unused
    BY <2>1
  <2>4. query' \in Queries
    BY <1>2, <2>2 DEF Queries, Audit!Woken
  <2>5. GivenBack(s, p)
    BY <1>2, <2>2, <2>3 DEF GivenBack, Audit!Unused
  <2> QED BY <2>2, <2>3, <2>4, <2>5, GateGivenBack DEF UnusedStay
<1>3. CASE query[s][p].step = "woken" /\ query' = [query EXCEPT ![s][p] = Audit!Unused] /\ running' = running
  <2>1. /\ query' \in Queries /\ query'[s][p] = Audit!Unused
        /\ \A t \in Streams, o \in Audit!Places : t # s \/ o # p => query'[t][o] = query[t][o]
    BY <1>1, <1>3 DEF Queries
  <2>2. NoTurn
    BY <1>3, <2>1 DEF NoTurn, Audit!Unused
  <2> QED BY <2>1, <2>2, GateLeft DEF UnusedStay
<1> QED BY <1>2, <1>3 DEF Audit!Ended

LEMMA AbortedIs ==
  ASSUME NEW q \in Query
  PROVE  /\ Audit!Aborted(q) \in Query
         /\ Audit!Aborted(q).step = IF q.step = "waiting" THEN "woken" ELSE q.step
BY DEF Audit!Aborted, Query, QuerySteps

(* The step of a stream *)
LEMMA ToIs ==
  ASSUME AuditInv, NEW s \in Streams, NEW to, [stream[s] EXCEPT !.step = to] \in Stream,
         Audit!To(s, to)
  PROVE  /\ stream' \in [Streams -> Stream] /\ stream'[s].step = to
         /\ \A t \in Streams : /\ stream'[t].workspace = stream[t].workspace
                               /\ stream'[t].actor = stream[t].actor
                               /\ t # s => stream'[t].step = stream[t].step
<1>1. stream' = [stream EXCEPT ![s].step = to] /\ stream \in [Streams -> Stream]
  BY DEF Audit!To, AuditInv, AuditTypes
<1> QED BY <1>1 DEF Stream

(* A step that leaves the counters alone: none of its streams comes to     *)
(* count, or ceases to.                                                    *)
CountingStep(k) == k \in {"opening", "streaming", "failing", "closing"}
LEMMA CountingIs ==
  /\ \A t \in Streams : t \in Counting <=> CountingStep(stream[t].step)
  /\ Counting \subseteq Streams
BY DEF Counting, Audit!Counting, CountingStep

LEMMA CountingIsNext ==
  /\ \A t \in Streams : t \in Counting' <=> CountingStep(stream'[t].step)
  /\ Counting' \subseteq Streams
BY DEF Counting, Audit!Counting, CountingStep

LEMMA Together ==
  ASSUME stream' \in [Streams -> Stream], counters' \in Counters, query' \in Queries, running' \in Nat,
         Audit!StreamsCounted', Audit!NoIdleQuery', Quiet'
  PROVE  AuditInv'
BY DEF AuditInv, AuditTypes, Counters, Queries

LEMMA QuietKept ==
  ASSUME AuditInv, NEW s \in Streams,
         \A t \in Streams : t # s => stream'[t].step = stream[t].step,
         \A t \in Streams, o \in Audit!Places :
           t # s /\ query[t][o] = Audit!Unused => query'[t][o] = Audit!Unused,
         stream'[s].step \in {"idle", "admitting"} => query'[s]["data"] = Audit!Unused,
         stream'[s].step \in {"idle", "authorizing", "admitting", "opening"} =>
           query'[s]["access"] = Audit!Unused
  PROVE  Quiet'
BY PlacesAre DEF AuditInv, Quiet

-----------------------------------------------------------------------------
LEMMA AuditStart == Audit!Init => AuditInv
<1> SUFFICES ASSUME Audit!Init PROVE AuditInv
  OBVIOUS
<1>1. /\ stream = [s \in Streams |-> Audit!Closed]
      /\ counters = [app |-> 0, workspace |-> [w \in Workspaces |-> 0], actor |-> [a \in Actors |-> 0]]
      /\ query = [s \in Streams |-> [p \in Audit!Places |-> Audit!Unused]]
      /\ running = 0
  BY DEF Audit!Init
<1>2. Audit!Closed \in Stream /\ Audit!Unused \in Query /\ Audit!Closed.step = "idle"
  BY StreamConstants DEF Audit!Closed, Audit!Unused, Stream, Query, QuerySteps
<1>3. AuditTypes
  BY <1>1, <1>2 DEF AuditTypes
<1>4. Quiet
  BY <1>1, PlacesAre DEF Quiet
<1>5. Counting = {}
  BY <1>1, <1>2, CountingIs DEF CountingStep
<1>6. (\A w : OfWorkspace(w) = {}) /\ (\A a : OfActor(a) = {})
  BY <1>5 DEF OfWorkspace, OfActor
<1>7. Sums
  BY <1>1, <1>5, <1>6, FS_EmptySet, StreamConstants DEF Sums
<1>8. Turns = {}
  <2>1. \A t \in Streams, o \in Audit!Places : query[t][o].step = "none"
    BY <1>1 DEF Audit!Unused
  <2> QED BY <2>1 DEF Turns
<1>9. Audit!NoIdleQuery
  <2>1. \A t \in Streams, o \in Audit!Places : query[t][o].step = "none"
    BY <1>1 DEF Audit!Unused
  <2> QED BY <1>1, <1>8, <2>1, FS_EmptySet, StreamConstants, GateIs
<1> QED BY <1>3, <1>4, <1>7, <1>9, SumsAre DEF AuditInv

LEMMA RequestKeeps ==
  ASSUME AuditInv, NEW s \in Streams, Audit!Request(s)
  PROVE  AuditInv'
<1>1. PICK w \in Workspaces, a \in Actors :
        stream' = [stream EXCEPT ![s] = [step |-> "authorizing", workspace |-> w, actor |-> a, gone |-> FALSE]]
  BY DEF Audit!Request
<1>2. stream[s].step = "idle" /\ Audit!Started(s, "data") /\ UNCHANGED counters /\ "data" \in Audit!Places
  BY PlacesAre DEF Audit!Request, Audit!At
<1>3. query[s]["data"] = Audit!Unused /\ query[s]["access"] = Audit!Unused
  BY <1>2 DEF AuditInv, Quiet
<1>4. /\ query' \in Queries /\ Taken(s, "data")
      /\ \A t \in Streams, o \in Audit!Places : t # s \/ o # "data" => query'[t][o] = query[t][o]
  BY <1>2, <1>3, StartedTakes
<1>5. stream' \in [Streams -> Stream] /\ stream'[s].step = "authorizing"
      /\ \A t \in Streams : t # s => stream'[t] = stream[t]
  BY <1>1 DEF AuditInv, AuditTypes, Stream
<1>6. Counting' = Counting /\ s \notin Counting
  BY <1>2, <1>5, CountingIs, CountingIsNext DEF CountingStep
<1>7. SameOwners
  BY <1>5, <1>6, CountingIs DEF SameOwners
<1>8. Quiet'
  BY <1>3, <1>4, <1>5, QuietKept, PlacesAre
<1>9. Audit!StreamsCounted' /\ counters' \in Counters
  BY <1>2, <1>6, <1>7, CountsStay
<1>10. Audit!NoIdleQuery' /\ running' \in Nat
  BY <1>2, <1>4, GateTaken
<1> QED BY <1>4, <1>5, <1>8, <1>9, <1>10, Together

LEMMA AuthorizedKeeps ==
  ASSUME AuditInv, NEW s \in Streams, Audit!Authorized(s)
  PROVE  AuditInv'
<1>1. PICK ok \in BOOLEAN : Audit!Ended(s, "data", ok) /\ Audit!To(s, IF ok THEN "admitting" ELSE "idle")
  BY DEF Audit!Authorized
<1>2. stream[s].step = "authorizing" /\ UNCHANGED counters /\ "data" \in Audit!Places /\ stream[s] \in Stream
  BY PlacesAre DEF Audit!Authorized, Audit!At, AuditInv, AuditTypes
<1>3. PICK to \in {"admitting", "idle"} : Audit!To(s, to)
  BY <1>1
<1>4. [stream[s] EXCEPT !.step = to] \in Stream
  BY <1>2 DEF Stream
<1>5. /\ query' \in Queries /\ UnusedStay /\ query'[s]["data"] = Audit!Unused
      /\ Audit!NoIdleQuery' /\ running' \in Nat
  BY <1>1, <1>2, EndedGives
<1>6. /\ stream' \in [Streams -> Stream] /\ stream'[s].step = to
      /\ \A t \in Streams : /\ stream'[t].workspace = stream[t].workspace
                            /\ stream'[t].actor = stream[t].actor
                            /\ t # s => stream'[t].step = stream[t].step
  BY <1>3, <1>4, ToIs
<1>7. query'[s]["access"] = Audit!Unused
  BY <1>2, <1>5, PlacesAre DEF AuditInv, Quiet, UnusedStay
<1>8. Quiet'
  BY <1>5, <1>6, <1>7, QuietKept DEF UnusedStay
<1>9. Counting' = Counting /\ SameOwners
  BY <1>2, <1>6, CountingIs, CountingIsNext DEF CountingStep, SameOwners
<1>10. Audit!StreamsCounted' /\ counters' \in Counters
  BY <1>2, <1>9, CountsStay
<1> QED BY <1>5, <1>6, <1>8, <1>10, Together

LEMMA AdmitKeeps ==
  ASSUME AuditInv, NEW s \in Streams, Audit!Admit(s)
  PROVE  AuditInv'
<1>1. PICK quota \in Quotas :
        IF ~stream[s].gone /\ Audit!Admissible(s, quota)
        THEN counters' = Audit!Raised(s) /\ Audit!To(s, "opening") /\ Audit!Started(s, "data")
        ELSE Audit!To(s, "idle") /\ UNCHANGED <<counters, query, running>>
  BY DEF Audit!Admit
<1>2. /\ stream[s].step = "admitting" /\ "data" \in Audit!Places /\ stream[s] \in Stream
      /\ query[s]["data"] = Audit!Unused /\ query[s]["access"] = Audit!Unused
      /\ query \in Queries /\ s \notin Counting
  BY PlacesAre, CountingIs DEF Audit!Admit, Audit!At, AuditInv, AuditTypes, Queries, Quiet, CountingStep
<1>3. \A to \in {"opening", "idle"} : [stream[s] EXCEPT !.step = to] \in Stream
  BY <1>2 DEF Stream
<1>4. CASE ~stream[s].gone /\ Audit!Admissible(s, quota)
  <2>1. counters' = Audit!Raised(s) /\ Audit!To(s, "opening") /\ Audit!Started(s, "data")
    BY <1>1, <1>4
  <2>2. /\ query' \in Queries /\ Taken(s, "data")
        /\ \A t \in Streams, o \in Audit!Places : t # s \/ o # "data" => query'[t][o] = query[t][o]
    BY <1>2, <2>1, StartedTakes
  <2>3. /\ stream' \in [Streams -> Stream] /\ stream'[s].step = "opening"
        /\ \A t \in Streams : /\ stream'[t].workspace = stream[t].workspace
                              /\ stream'[t].actor = stream[t].actor
                              /\ t # s => stream'[t].step = stream[t].step
    BY <1>3, <2>1, ToIs
  <2>4. Counting' = Counting \cup {s} /\ SameOwners
    BY <1>2, <2>3, CountingIs, CountingIsNext DEF CountingStep, SameOwners
  <2>5. Audit!StreamsCounted' /\ counters' \in Counters
    BY <1>2, <1>4, <2>1, <2>4, CountsUp
  <2>6. Quiet'
    BY <1>2, <2>2, <2>3, QuietKept, PlacesAre
  <2>7. Audit!NoIdleQuery' /\ running' \in Nat
    BY <1>2, <2>2, GateTaken
  <2> QED BY <2>2, <2>3, <2>5, <2>6, <2>7, Together
<1>5. CASE ~(~stream[s].gone /\ Audit!Admissible(s, quota))
  <2>1. Audit!To(s, "idle") /\ UNCHANGED <<counters, query, running>>
    BY <1>1, <1>5
  <2>2. /\ stream' \in [Streams -> Stream] /\ stream'[s].step = "idle"
        /\ \A t \in Streams : /\ stream'[t].workspace = stream[t].workspace
                              /\ stream'[t].actor = stream[t].actor
                              /\ t # s => stream'[t].step = stream[t].step
    BY <1>3, <2>1, ToIs
  <2>3. Counting' = Counting /\ SameOwners
    BY <1>2, <2>2, CountingIs, CountingIsNext DEF CountingStep, SameOwners
  <2>4. Audit!StreamsCounted' /\ counters' \in Counters
    BY <2>1, <2>3, CountsStay
  <2>5. Quiet'
    BY <1>2, <2>1, <2>2, QuietKept
  <2>6. Audit!NoIdleQuery' /\ running' \in Nat
    BY <2>1, GateLeft DEF NoTurn
  <2> QED BY <1>2, <2>1, <2>2, <2>4, <2>5, <2>6, Together
<1> QED BY <1>4, <1>5

LEMMA OpenKeeps ==
  ASSUME AuditInv, NEW s \in Streams, Audit!Open(s)
  PROVE  AuditInv'
<1>1. PICK ok \in BOOLEAN :
        /\ Audit!Ended(s, "data", ok)
        /\ IF ok /\ ~stream[s].gone
           THEN Audit!To(s, "streaming") /\ UNCHANGED counters
           ELSE counters' = Audit!Lowered(s) /\ Audit!To(s, "idle")
  BY DEF Audit!Open, Audit!Refused
<1>2. /\ stream[s].step = "opening" /\ "data" \in Audit!Places /\ stream[s] \in Stream
      /\ query[s]["access"] = Audit!Unused /\ s \in Counting
  BY PlacesAre, CountingIs DEF Audit!Open, Audit!At, AuditInv, AuditTypes, Quiet, CountingStep
<1>3. /\ query' \in Queries /\ UnusedStay /\ query'[s]["data"] = Audit!Unused
      /\ Audit!NoIdleQuery' /\ running' \in Nat
  BY <1>1, <1>2, EndedGives
<1>4. query'[s]["access"] = Audit!Unused
  BY <1>2, <1>3, PlacesAre DEF UnusedStay
<1>5. PICK to \in {"streaming", "idle"} : Audit!To(s, to) /\ (to = "streaming" <=> ok /\ ~stream[s].gone)
  BY <1>1
<1>6. [stream[s] EXCEPT !.step = to] \in Stream
  BY <1>2 DEF Stream
<1>7. /\ stream' \in [Streams -> Stream] /\ stream'[s].step = to
      /\ \A t \in Streams : /\ stream'[t].workspace = stream[t].workspace
                            /\ stream'[t].actor = stream[t].actor
                            /\ t # s => stream'[t].step = stream[t].step
  BY <1>5, <1>6, ToIs
<1>8. Quiet'
  BY <1>3, <1>4, <1>7, QuietKept DEF UnusedStay
<1>9. Audit!StreamsCounted' /\ counters' \in Counters
  <2>1. CASE ok /\ ~stream[s].gone
    <3>1. counters' = counters /\ to = "streaming"
      BY <1>1, <1>5, <2>1
    <3>2. Counting' = Counting /\ SameOwners
      BY <1>2, <1>7, <3>1, CountingIs, CountingIsNext DEF CountingStep, SameOwners
    <3> QED BY <3>1, <3>2, CountsStay
  <2>2. CASE ~(ok /\ ~stream[s].gone)
    <3>1. counters' = Audit!Lowered(s) /\ to = "idle"
      BY <1>1, <1>5, <2>2
    <3>2. Counting' = Counting \ {s} /\ SameOwners
      BY <1>2, <1>7, <3>1, CountingIs, CountingIsNext DEF CountingStep, SameOwners
    <3> QED BY <1>2, <3>1, <3>2, CountsDown
  <2> QED BY <2>1, <2>2
<1> QED BY <1>3, <1>7, <1>8, <1>9, Together

(* The two queries of a stream that has been opened, of whatever it tells: *)
(* the stream stays one that counts.                                       *)
LEMMA EndedKeeps ==
  ASSUME AuditInv, NEW s \in Streams, NEW p \in Audit!Places, NEW ok \in BOOLEAN,
         Audit!Ended(s, p, ok), UNCHANGED counters, stream' \in [Streams -> Stream],
         stream[s].step \in {"streaming", "closing"}, stream'[s].step \in {"streaming", "failing", "closing"},
         \A t \in Streams : /\ stream'[t].workspace = stream[t].workspace
                            /\ stream'[t].actor = stream[t].actor
                            /\ t # s => stream'[t].step = stream[t].step
  PROVE  AuditInv'
<1>1. /\ query' \in Queries /\ UnusedStay /\ Audit!NoIdleQuery' /\ running' \in Nat
  BY EndedGives
<1>2. Quiet'
  BY <1>1, QuietKept DEF UnusedStay
<1>3. Counting' = Counting /\ SameOwners
  BY CountingIs, CountingIsNext DEF CountingStep, SameOwners
<1>4. Audit!StreamsCounted' /\ counters' \in Counters
  BY <1>3, CountsStay
<1> QED BY <1>1, <1>2, <1>4, Together

LEMMA TockKeeps ==
  ASSUME AuditInv, NEW s \in Streams, NEW p \in Audit!Places, Audit!Tock(s, p)
  PROVE  AuditInv'
<1>1. PICK ok \in BOOLEAN : Audit!Ended(s, p, ok) /\ Audit!To(s, IF ok THEN "streaming" ELSE "failing")
  BY DEF Audit!Tock
<1>2. stream[s].step = "streaming" /\ UNCHANGED counters /\ stream[s] \in Stream
  BY DEF Audit!Tock, Audit!At, AuditInv, AuditTypes
<1>3. PICK to \in {"streaming", "failing"} : Audit!To(s, to)
  BY <1>1
<1>4. [stream[s] EXCEPT !.step = to] \in Stream
  BY <1>2 DEF Stream
<1>5. /\ stream' \in [Streams -> Stream] /\ stream'[s].step = to
      /\ \A t \in Streams : /\ stream'[t].workspace = stream[t].workspace
                            /\ stream'[t].actor = stream[t].actor
                            /\ t # s => stream'[t].step = stream[t].step
  BY <1>3, <1>4, ToIs
<1> QED BY <1>1, <1>2, <1>5, EndedKeeps

LEMMA SettleKeeps ==
  ASSUME AuditInv, NEW s \in Streams, NEW p \in Audit!Places, Audit!Settle(s, p)
  PROVE  AuditInv'
<1>1. PICK ok \in BOOLEAN : Audit!Ended(s, p, ok)
  BY DEF Audit!Settle
<1>2. stream[s].step = "closing" /\ UNCHANGED <<stream, counters>> /\ stream \in [Streams -> Stream]
  BY DEF Audit!Settle, Audit!At, AuditInv, AuditTypes
<1> QED BY <1>1, <1>2, EndedKeeps

LEMMA ReleaseOfStreamKeeps ==
  ASSUME AuditInv, NEW s \in Streams, Audit!Release(s)
  PROVE  AuditInv'
<1>1. /\ stream[s].step = "closing" /\ counters' = Audit!Lowered(s) /\ Audit!To(s, "idle")
      /\ UNCHANGED <<query, running>> /\ stream[s] \in Stream /\ s \in Counting
      /\ query[s]["data"] = Audit!Unused /\ query[s]["access"] = Audit!Unused
  BY PlacesAre, CountingIs DEF Audit!Release, Audit!At, AuditInv, AuditTypes, CountingStep
<1>2. [stream[s] EXCEPT !.step = "idle"] \in Stream
  BY <1>1 DEF Stream
<1>3. /\ stream' \in [Streams -> Stream] /\ stream'[s].step = "idle"
      /\ \A t \in Streams : /\ stream'[t].workspace = stream[t].workspace
                            /\ stream'[t].actor = stream[t].actor
                            /\ t # s => stream'[t].step = stream[t].step
  BY <1>1, <1>2, ToIs
<1>4. Counting' = Counting \ {s} /\ SameOwners
  BY <1>3, CountingIs, CountingIsNext DEF CountingStep, SameOwners
<1>5. Audit!StreamsCounted' /\ counters' \in Counters
  BY <1>1, <1>4, CountsDown
<1>6. Quiet'
  BY <1>1, <1>3, QuietKept
<1>7. Audit!NoIdleQuery' /\ running' \in Nat
  BY <1>1, GateLeft DEF NoTurn
<1>8. query' \in Queries
  BY <1>1 DEF AuditInv, AuditTypes, Queries
<1> QED BY <1>3, <1>5, <1>6, <1>7, <1>8, Together

-----------------------------------------------------------------------------
(* Steps that only reach the queries, or leave the streams that count as   *)
(* they are                                                                *)

(* A query that is aborted, or aborted already, keeps its turn. *)
LEMMA AbortsKeep ==
  ASSUME AuditInv, NEW s \in Streams, UNCHANGED <<counters, running>>,
         query' \in Queries, stream' \in [Streams -> Stream],
         \A t \in Streams : /\ stream'[t].workspace = stream[t].workspace
                            /\ stream'[t].actor = stream[t].actor
                            /\ t # s => stream'[t].step = stream[t].step,
         \/ stream'[s].step = stream[s].step
         \/ CountingStep(stream[s].step) /\ stream'[s].step = "closing",
         \A t \in Streams, o \in Audit!Places :
           /\ query[t][o] = Audit!Unused => query'[t][o] = Audit!Unused
           /\ query'[t][o].step \in {query[t][o].step, "none", "woken"}
           /\ query'[t][o].step = "running" <=> query[t][o].step = "running"
  PROVE  AuditInv'
<1>1. NoTurn
  BY DEF NoTurn
<1>2. Audit!NoIdleQuery' /\ running' \in Nat
  BY <1>1, GateLeft
<1>3. Counting' = Counting /\ SameOwners
  BY CountingIs, CountingIsNext DEF CountingStep, SameOwners
<1>4. Audit!StreamsCounted' /\ counters' \in Counters
  BY <1>3, CountsStay
<1>5. Quiet'
  <2>1. /\ stream'[s].step \in {"idle", "admitting"} => query[s]["data"] = Audit!Unused
        /\ stream'[s].step \in {"idle", "authorizing", "admitting", "opening"} =>
             query[s]["access"] = Audit!Unused
    BY DEF AuditInv, Quiet
  <2> QED BY <2>1, PlacesAre, QuietKept
<1> QED BY <1>2, <1>4, <1>5, Together

LEMMA ExpireKeeps ==
  ASSUME AuditInv, NEW s \in Streams, NEW p \in Audit!Places, Audit!Expire(s, p)
  PROVE  AuditInv'
<1>1. /\ query[s][p].step # "none" /\ query' = [query EXCEPT ![s][p] = Audit!Aborted(@)]
      /\ UNCHANGED <<stream, counters, running>>
  BY DEF Audit!Expire
<1>2. query \in Queries /\ stream \in [Streams -> Stream] /\ query[s][p] \in Query
  BY DEF AuditInv, AuditTypes, Queries
<1>3. /\ Audit!Aborted(query[s][p]) \in Query
      /\ Audit!Aborted(query[s][p]).step = IF query[s][p].step = "waiting" THEN "woken" ELSE query[s][p].step
  BY <1>2, AbortedIs
<1>4. /\ query' \in Queries /\ query'[s][p] = Audit!Aborted(query[s][p])
      /\ \A t \in Streams, o \in Audit!Places : t # s \/ o # p => query'[t][o] = query[t][o]
  BY <1>1, <1>2, <1>3 DEF Queries
<1>5. query[s][p] # Audit!Unused
  BY <1>1 DEF Audit!Unused
<1>6. ASSUME NEW t \in Streams, NEW o \in Audit!Places
      PROVE  /\ query[t][o] = Audit!Unused => query'[t][o] = Audit!Unused
             /\ query'[t][o].step \in {query[t][o].step, "none", "woken"}
             /\ query'[t][o].step = "running" <=> query[t][o].step = "running"
  BY <1>3, <1>4, <1>5
<1> QED BY <1>1, <1>2, <1>4, <1>6, AbortsKeep

LEMMA FinishOfStreamKeeps ==
  ASSUME AuditInv, NEW s \in Streams, Audit!Finish(s)
  PROVE  AuditInv'
<1>1. /\ stream[s].step \in {"streaming", "failing"} /\ Audit!To(s, "closing")
      /\ query' = [query EXCEPT ![s] = [p \in Audit!Places |->
           IF query[s][p].step = "none" THEN Audit!Unused ELSE Audit!Aborted(query[s][p])]]
      /\ UNCHANGED <<counters, running>> /\ stream[s] \in Stream /\ query \in Queries
      /\ Audit!Unused \in Query /\ Audit!Unused.step = "none"
  BY DEF Audit!Finish, AuditInv, AuditTypes, Queries, Query, QuerySteps, Audit!Unused
<1>2. [stream[s] EXCEPT !.step = "closing"] \in Stream
  BY <1>1 DEF Stream
<1>3. /\ stream' \in [Streams -> Stream] /\ stream'[s].step = "closing"
      /\ \A t \in Streams : /\ stream'[t].workspace = stream[t].workspace
                            /\ stream'[t].actor = stream[t].actor
                            /\ t # s => stream'[t].step = stream[t].step
  BY <1>1, <1>2, ToIs
<1>4. ASSUME NEW o \in Audit!Places
      PROVE  /\ query[s][o] \in Query /\ Audit!Aborted(query[s][o]) \in Query
             /\ Audit!Aborted(query[s][o]).step =
                  IF query[s][o].step = "waiting" THEN "woken" ELSE query[s][o].step
  BY <1>1, AbortedIs DEF Queries
<1>5. ASSUME NEW t \in Streams, NEW o \in Audit!Places
      PROVE  query'[t][o] = IF t # s THEN query[t][o]
                            ELSE IF query[s][o].step = "none" THEN Audit!Unused
                            ELSE Audit!Aborted(query[s][o])
  BY <1>1 DEF Queries
<1>6. query' \in Queries
  BY <1>1, <1>4 DEF Queries
<1>7. ASSUME NEW t \in Streams, NEW o \in Audit!Places
      PROVE  /\ query[t][o] = Audit!Unused => query'[t][o] = Audit!Unused
             /\ query'[t][o].step \in {query[t][o].step, "none", "woken"}
             /\ query'[t][o].step = "running" <=> query[t][o].step = "running"
  BY <1>1, <1>4, <1>5
<1> QED BY <1>1, <1>3, <1>6, <1>7, AbortsKeep DEF CountingStep

LEMMA LeaveOfStreamKeeps ==
  ASSUME AuditInv, NEW s \in Streams, Audit!Leave(s)
  PROVE  AuditInv'
<1>1. /\ stream' = [stream EXCEPT ![s].gone = TRUE]
      /\ query' = [query EXCEPT ![s]["data"] = IF @ = Audit!Unused THEN @ ELSE Audit!Aborted(@)]
      /\ UNCHANGED <<counters, running>> /\ stream \in [Streams -> Stream] /\ query \in Queries
  BY DEF Audit!Leave, AuditInv, AuditTypes, Queries
<1>2. /\ query[s]["data"] \in Query /\ Audit!Aborted(query[s]["data"]) \in Query
      /\ Audit!Aborted(query[s]["data"]).step =
           IF query[s]["data"].step = "waiting" THEN "woken" ELSE query[s]["data"].step
  BY <1>1, AbortedIs, PlacesAre DEF Queries
<1>3. /\ stream' \in [Streams -> Stream]
      /\ \A t \in Streams : /\ stream'[t].workspace = stream[t].workspace
                            /\ stream'[t].actor = stream[t].actor
                            /\ stream'[t].step = stream[t].step
  BY <1>1 DEF Stream
<1>4. /\ query' \in Queries
      /\ query'[s]["data"] = IF query[s]["data"] = Audit!Unused THEN query[s]["data"]
                             ELSE Audit!Aborted(query[s]["data"])
      /\ \A t \in Streams, o \in Audit!Places : t # s \/ o # "data" => query'[t][o] = query[t][o]
  BY <1>1, <1>2, PlacesAre DEF Queries
<1>5. ASSUME NEW t \in Streams, NEW o \in Audit!Places
      PROVE  /\ query[t][o] = Audit!Unused => query'[t][o] = Audit!Unused
             /\ query'[t][o].step \in {query[t][o].step, "none", "woken"}
             /\ query'[t][o].step = "running" <=> query[t][o].step = "running"
  BY <1>2, <1>4
<1> QED BY <1>1, <1>3, <1>4, <1>5, AbortsKeep

(* A query that takes a turn, or waits for one *)
LEMMA TakenKeeps ==
  ASSUME AuditInv, NEW s \in Streams, NEW p \in Audit!Places, Taken(s, p), query' \in Queries,
         UNCHANGED <<stream, counters>>, stream[s].step = "streaming" \/ query[s][p] # Audit!Unused
  PROVE  AuditInv'
<1>1. Audit!NoIdleQuery' /\ running' \in Nat
  BY GateTaken
<1>2. Counting' = Counting /\ SameOwners
  BY CountingIs, CountingIsNext DEF SameOwners
<1>3. Audit!StreamsCounted' /\ counters' \in Counters
  BY <1>2, CountsStay
<1>4. Quiet'
  BY PlacesAre DEF AuditInv, Quiet, Taken
<1> QED BY <1>1, <1>3, <1>4, Together DEF AuditInv, AuditTypes

LEMMA ResumeKeeps ==
  ASSUME AuditInv, NEW s \in Streams, NEW p \in Audit!Places, Audit!Resume(s, p)
  PROVE  AuditInv'
<1>1. /\ query[s][p].step = "woken" /\ query' = [query EXCEPT ![s][p] = Audit!Entered(@)]
      /\ running' = IF running >= Width THEN running ELSE running + 1
      /\ UNCHANGED <<stream, counters>> /\ query \in Queries /\ query[s][p] \in Query
  BY DEF Audit!Resume, AuditInv, AuditTypes, Queries
<1>2. /\ Audit!Entered(query[s][p]) \in Query
      /\ Audit!Entered(query[s][p]).step = IF running >= Width THEN "waiting" ELSE "running"
  BY <1>1 DEF Audit!Entered, Query, QuerySteps
<1>3. /\ query' \in Queries /\ query'[s][p] = Audit!Entered(query[s][p])
      /\ \A t \in Streams, o \in Audit!Places : t # s \/ o # p => query'[t][o] = query[t][o]
  BY <1>1, <1>2 DEF Queries
<1>4. Taken(s, p) /\ query[s][p] # Audit!Unused
  BY <1>1, <1>2, <1>3 DEF Taken, Audit!Unused
<1> QED BY <1>1, <1>3, <1>4, TakenKeeps

LEMMA TickKeeps ==
  ASSUME AuditInv, NEW s \in Streams, NEW p \in Audit!Places, Audit!Tick(s, p)
  PROVE  AuditInv'
<1>1. /\ stream[s].step = "streaming" /\ query[s][p] = Audit!Unused /\ Audit!Started(s, p)
      /\ UNCHANGED <<stream, counters>>
  BY DEF Audit!Tick, Audit!At
<1>2. Taken(s, p) /\ query' \in Queries
  BY <1>1, StartedTakes
<1> QED BY <1>1, <1>2, TakenKeeps

-----------------------------------------------------------------------------
LEMMA AuditNext == AuditInv /\ [Audit!Next]_Audit!vars => AuditInv'
<1> SUFFICES ASSUME AuditInv, [Audit!Next]_Audit!vars PROVE AuditInv'
  OBVIOUS
<1>1. ASSUME NEW s \in Streams,
             \/ Audit!Request(s) \/ Audit!Authorized(s) \/ Audit!Admit(s) \/ Audit!Open(s)
             \/ Audit!Finish(s) \/ Audit!Release(s) \/ Audit!Leave(s)
      PROVE  AuditInv'
  BY <1>1, RequestKeeps, AuthorizedKeeps, AdmitKeeps, OpenKeeps, FinishOfStreamKeeps,
     ReleaseOfStreamKeeps, LeaveOfStreamKeeps
<1>2. ASSUME NEW s \in Streams, NEW p \in Audit!Places,
             \/ Audit!Resume(s, p) \/ Audit!Expire(s, p) \/ Audit!Tick(s, p)
             \/ Audit!Tock(s, p) \/ Audit!Settle(s, p)
      PROVE  AuditInv'
  BY <1>2, ResumeKeeps, ExpireKeeps, TickKeeps, TockKeeps, SettleKeeps
<1>3. CASE UNCHANGED Audit!vars
  <2>1. UNCHANGED <<stream, counters, query, running>>
    BY <1>3 DEF Audit!vars
  <2>2. Quiet' /\ AuditTypes'
    BY <2>1 DEF AuditInv, Quiet, AuditTypes
  <2>3. Audit!NoIdleQuery'
    BY <2>1, GateLeft DEF NoTurn
  <2>4. Counting' = Counting /\ SameOwners
    BY <2>1, CountingIs, CountingIsNext DEF SameOwners
  <2>5. Audit!StreamsCounted'
    BY <2>1, <2>4, CountsStay
  <2> QED BY <2>2, <2>3, <2>5 DEF AuditInv
<1> QED BY <1>1, <1>2, <1>3 DEF Audit!Next

(* The counters are the streams that are open, and no query waits while    *)
(* there is room (stream-audit-route.ts: admitStream, its release in every *)
(* way out; StreamQueries.run): no end of a stream or a query, in whatever *)
(* order the two come, leaks a slot or a turn.                             *)
THEOREM StreamsBalance == Audit!Spec => []StreamsAccounted
<1>1. AuditInv => StreamsAccounted
  BY DEF AuditInv, StreamsAccounted, Audit!StreamsAccounted
<1> QED BY <1>1, AuditStart, AuditNext, PTL DEF Audit!Spec
=============================================================================
