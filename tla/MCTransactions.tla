--------------------------- MODULE MCTransactions ---------------------------
(***************************************************************************)
(* Small instances of Transactions, of Bootstrap and of StatementPolicy.   *)
(* They share no state: a behaviour is one of one of them.                 *)
(***************************************************************************)
EXTENDS Transactions, TLC

CONSTANTS p1, handoff, other, alone, query, row, row2, item, claim
CONSTANTS Gone, Us, Other, MaxByHand, MaxStops
CONSTANTS TableNames, MaxNodes, MaxDdl

VARIABLES
  part,   \* the module whose behaviour this is
  users, claimed, capability, hash, server, stops, workspaces, principals, keys,
  wire, answers, lockFile, checkpoint, mainFile, copies, proc,
  text, index, decision, plan

Boot == INSTANCE Bootstrap
Sql == INSTANCE StatementPolicy WITH Names <- TableNames
ASSUME PartsGiven == Boot!TenancyAssumption /\ Sql!StatementAssumption
bootVars == <<users, claimed, capability, hash, server, stops, workspaces, principals,
              keys, wire, answers, lockFile, checkpoint, mainFile, copies, proc>>
sqlVars == <<text, index, decision, plan>>

Do(verb, on) == [verb |-> verb, on |-> on, expect |-> {0, 1}]
Insert(on) == [verb |-> "sql", on |-> on, expect |-> {1}]

(* A handoff, another transaction that meets it on a row and a Message, a  *)
(* send and a statement on their own.                                      *)
MCPlan ==
  (handoff :> <<Insert(row), Do("send", item), Do("ack", claim)>>) @@
  (other :> <<Do("send", item), Do("sql", row)>>) @@
  (alone :> <<Do("send", item)>>) @@
  (query :> <<Do("sql", row2)>>)

Limit(operations, rows, sends) ==
  ("transaction_operations" :> operations) @@ ("sql_rows" :> rows) @@ ("queue_sends" :> sends)
MCLimits == {Limit(3, 1, 1), Limit(5, 2, 0)}

Names == Permutations(Keys) \cup Permutations(Clients)

(* Bounds for the bootstrap: the server stops while an enrollment is under *)
(* way, and nobody else asks to enroll once there is a Workspace.          *)
Focus ==
  /\ server = "down" => claimed = Nobody \/ \E r \in wire : r.op = "enroll"
  /\ checkpoint.workspace # 0 => \A r \in wire : r.op # "enroll"

MCInit ==
  /\ part \in {"transactions", "bootstrap", "sql"}
  /\ Init /\ Boot!Init
  /\ IF part = "sql" THEN Sql!Init
     ELSE text = <<>> /\ index = Sql!None /\ decision = Sql!Undecided /\ plan = Sql!Undecided
MCNext ==
  /\ \/ part = "transactions" /\ Next /\ UNCHANGED <<bootVars, sqlVars>>
     \/ part = "bootstrap" /\ Boot!Next /\ Focus' /\ UNCHANGED <<vars, sqlVars>>
     \/ part = "sql" /\ Sql!Next /\ UNCHANGED <<vars, bootVars>>
  /\ UNCHANGED part
MCSpec == MCInit /\ [][MCNext]_<<part, vars, bootVars, sqlVars>>

(* Bootstrap: one checkpoint provisions once, and what it says exists. *)
Provisioned == Boot!Provisioned
(* StatementPolicy: the server finds every table that PostgreSQL will. *)
PolicySeesAll == Sql!PolicySeesAll
(* Tenancy: a published capability can be used. *)
CapabilityWorks == Boot!CapabilityWorks
=============================================================================
