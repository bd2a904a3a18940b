----------------------------- MODULE Admission -----------------------------
(***************************************************************************)
(* The gate through which every request of a Principal passes              *)
(* (apps/server/platform/principal-admission.ts).  It bounds the requests  *)
(* that work at once, and keeps one permit for callbacks: a request that   *)
(* invokes a function waits for the function, and the function calls back. *)
(***************************************************************************)
EXTENDS Naturals, FiniteSets

CONSTANTS
  Requests,   \* that are under way at once; an identity is used again
  Limit       \* PrincipalAdmission.limit

ASSUME AdmissionAssumption == IsFiniteSet(Requests) /\ Limit \in Nat \ {0}

VARIABLES
  step,          \* of each request: "idle", "waiting", "working"
  kind,          \* what it is: "ordinary", "invocation", "callback"
  permits,       \* the keys of releases: who still has to give a permit back
  active,        \* the two counters
  nonCallbacks

vars == <<step, kind, permits, active, nonCallbacks>>

-----------------------------------------------------------------------------
Kinds == {"ordinary", "invocation", "callback"}
Waiting == {r \in Requests : step[r] = "waiting"}

(* Mutant: no permit is kept for callbacks. *)
RoomForAll(k, a, n) == a < Limit
Room(k, a, n) == a < Limit /\ (k = "callback" \/ n < Limit - 1)

Weight(k) == IF k = "callback" THEN 0 ELSE 1

(* acquire: a client that has left already is refused. *)
Acquire(r, k) ==
  /\ step[r] = "idle"
  /\ kind' = [kind EXCEPT ![r] = k]
  /\ IF Room(k, active, nonCallbacks)
     THEN /\ step' = [step EXCEPT ![r] = "working"]
          /\ permits' = permits \cup {r}
          /\ active' = active + 1
          /\ nonCallbacks' = nonCallbacks + Weight(k)
     ELSE /\ step' = [step EXCEPT ![r] = "waiting"]
          /\ UNCHANGED <<permits, active, nonCallbacks>>

(* After two seconds, or when its client leaves, a request that waits is   *)
(* rejected.                                                               *)
Reject(r) ==
  /\ step[r] = "waiting"
  /\ step' = [step EXCEPT ![r] = "idle"]
  /\ UNCHANGED <<kind, permits, active, nonCallbacks>>

(* Who may enter when r gives its permit back.  The code lets every waiter *)
(* try, in the order of arrival, which is left open here; that the permit  *)
(* admits at most one is part of NoIdlePermit.                             *)

(* Mutant: only the waiter at the front may try. *)
FrontOnly(r) ==
  IF Waiting = {} THEN {}
  ELSE {w \in {CHOOSE v \in Waiting : TRUE} :
          Room(kind[w], active - 1, nonCallbacks - Weight(kind[r]))}
Next1(r) == {w \in Waiting : Room(kind[w], active - 1, nonCallbacks - Weight(kind[r]))}

(* release, by a request that goes on to the step given *)
Release(r, to) ==
  IF r \notin permits
  THEN step' = [step EXCEPT ![r] = to] /\ UNCHANGED <<permits, active, nonCallbacks>>
  ELSE IF Next1(r) = {}
  THEN /\ step' = [step EXCEPT ![r] = to]
       /\ permits' = permits \ {r}
       /\ active' = active - 1
       /\ nonCallbacks' = nonCallbacks - Weight(kind[r])
  ELSE \E w \in Next1(r) :
       /\ step' = [step EXCEPT ![r] = to, ![w] = "working"]
       /\ permits' = (permits \ {r}) \cup {w}
       /\ active' = active
       /\ nonCallbacks' = nonCallbacks - Weight(kind[r]) + Weight(kind[w])

(* The client leaves: the permit goes back, though the handler goes on;    *)
(* that of an invocation stays until the invocation is finished.           *)
Leave(r) ==
  /\ step[r] = "working" /\ kind[r] # "invocation" /\ r \in permits
  /\ Release(r, "working")
  /\ UNCHANGED kind

(* The response, or the end of the invocation *)
Respond(r) ==
  /\ step[r] = "working"
  /\ Release(r, "idle")
  /\ UNCHANGED kind

-----------------------------------------------------------------------------
Init ==
  /\ step = [r \in Requests |-> "idle"]
  /\ kind = [r \in Requests |-> "ordinary"]
  /\ permits = {}
  /\ active = 0 /\ nonCallbacks = 0

Next == \E r \in Requests :
  \/ \E k \in Kinds : Acquire(r, k)
  \/ Reject(r) \/ Leave(r) \/ Respond(r)

Spec == Init /\ [][Next]_vars

-----------------------------------------------------------------------------
TypeOK ==
  /\ step \in [Requests -> {"idle", "waiting", "working"}]
  /\ kind \in [Requests -> Kinds]
  /\ permits \subseteq Requests
  /\ active \in Nat /\ nonCallbacks \in Nat

(* The counters are the permits that were given out and not given back.    *)
Others == {r \in permits : kind[r] # "callback"}
Balance ==
  /\ \A r \in permits : step[r] = "working"
  /\ active = Cardinality(permits)
  /\ nonCallbacks = Cardinality(Others)
  /\ active <= Limit /\ nonCallbacks <= Limit - 1

(* Nobody waits for a permit that it could have.                           *)
NoIdlePermit == \A r \in Waiting : ~Room(kind[r], active, nonCallbacks)

(* A callback waits for another callback, never only for the requests that *)
(* may be waiting for it: they cannot lock each other out.                 *)
CallbackRoom ==
  \A r \in Waiting : kind[r] = "callback" => \E h \in permits : kind[h] = "callback"

(* What a wait depends on *)
WaitsEnd == NoIdlePermit /\ CallbackRoom
=============================================================================
