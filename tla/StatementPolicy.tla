-------------------------- MODULE StatementPolicy --------------------------
(***************************************************************************)
(* What the server finds out about an SQL text before PostgreSQL runs it   *)
(* (apps/server/sql/statement-policy.ts, schema/migration-policy.ts).  The *)
(* tables a text names decide what else is checked: the contract of each   *)
(* table (prepare-sql.ts), the gate on the table a statement writes        *)
(* (approvals/consume-in.ts), and the gates a migration may not touch      *)
(* (schema/apply-migration.ts, module Approvals).  A table that is missed  *)
(* is not checked.                                                         *)
(*                                                                         *)
(* A statement is the tree of its SELECTs, INSERTs, UPDATEs and DELETEs;   *)
(* in each of them one thing stands for the expressions and tables it      *)
(* reads.  The lists of allowed node types, functions and types are one    *)
(* forbidden thing.                                                        *)
(***************************************************************************)
EXTENDS Naturals, Sequences, FiniteSets

CONSTANTS
  Names,     \* of tables, and of common table expressions
  MaxNodes,  \* bound: statements in the tree of a statement
  MaxDdl     \* bound: statements of a migration

None == "none"
\* Assumed of the constants, by the module that gives them values.
StatementAssumption == None \notin Names /\ MaxNodes \in Nat \ {0} /\ MaxDdl \in Nat

VARIABLES
  text,      \* the statements that were sent
  index,     \* pg_index: the table of the only index, or None
  decision,  \* statementPolicy, for a single statement
  plan       \* migrationPolicy

vars == <<text, index, decision, plan>>

-----------------------------------------------------------------------------
(* The parsed texts.  Node 1 is the statement itself, any other node has a *)
(* parent before it, and is the body of a common table expression of that  *)
(* parent or a query inside it.  The common table expressions of a parent  *)
(* are in the order of the nodes.                                          *)
Things == [name : Names, schema : BOOLEAN] \cup {[forbidden |-> TRUE]}
Forbidden(thing) == "forbidden" \in DOMAIN thing
Inner == {[cte |-> None, stmt |-> "SelectStmt"]} \cup
         [cte : Names, stmt : {"SelectStmt", "UpdateStmt"}]
Outer == {[stmt |-> "SelectStmt", relation |-> None]} \cup
         [stmt : {"InsertStmt", "UpsertStmt", "UpdateStmt", "DeleteStmt"}, relation : Names]

Parents == {p \in [2 .. MaxNodes -> 1 .. MaxNodes - 1] : \A n \in 2 .. MaxNodes : p[n] < n}
Trees == [root : Outer, parent : Parents, node : [2 .. MaxNodes -> Inner],
          reads : [1 .. MaxNodes -> Things]]

(* An INSERT with ON CONFLICT DO UPDATE is the UpsertStmt.  fk: a table    *)
(* that a constraint refers to; index: of the one index of the schema.     *)
Ddl == [stmt : {"CreateStmt"}, relation : Names, fk : Names \cup {None}]
       \cup [stmt : {"AlterTableStmt"}, relation : Names, fk : Names \cup {None},
             cmd : {"AT_AddConstraint", "AT_DropColumn"}]
       \cup [stmt : {"IndexStmt"}, relation : Names]
       \cup [stmt : {"DropStmt", "CommentStmt"}, relation : Names]
       \cup [stmt : {"DropStmt", "CommentStmt"}, index : {TRUE}]
IsDdl(s) == "root" \notin DOMAIN s
OnIndex(s) == "index" \in DOMAIN s

Children(t, n) == {m \in 2 .. MaxNodes : t.parent[m] = n}
Ctes(t, n) == {m \in Children(t, n) : t.node[m].cte # None}
CteNames(t, nodes) == {t.node[m].cte : m \in nodes}

-----------------------------------------------------------------------------
(* statementPolicy.  The walk carries the names of the common table        *)
(* expressions in scope: each sees those before it, the statement sees     *)
(* them all, and what an INSERT, UPDATE or DELETE writes is never one.     *)

(* Mutant: the table that is written is looked up like the others. *)
TargetInScope(t, scope) ==
  IF t.root.relation \in CteNames(t, Ctes(t, 1)) THEN {} ELSE {t.root.relation}
Target(t, scope) == {t.root.relation} \ {None}

RangeVar(thing, scope) ==
  IF Forbidden(thing) \/ (~thing.schema /\ thing.name \in scope) THEN {} ELSE {thing.name}

Walk(t) ==
  LET visit[n \in 1 .. MaxNodes] == [scope \in SUBSET Names |->
        LET ctes == Ctes(t, n)
            local == scope \cup CteNames(t, ctes)
            preceding(c) == scope \cup CteNames(t, {d \in ctes : d < c})
        IN  RangeVar(t.reads[n], local)
            \cup (UNION {visit[c][preceding(c)] : c \in ctes})
            \cup (UNION {visit[c][local] : c \in Children(t, n) \ ctes})]
  IN  visit[1][{}]

Rejected == [ok |-> FALSE]
statementPolicy(t) ==
  IF \/ \E n \in 1 .. MaxNodes : Forbidden(t.reads[n])
     \/ \E n \in 2 .. MaxNodes : t.node[n].cte # None /\ t.node[n].stmt # "SelectStmt"
  THEN Rejected
  ELSE [ok |-> TRUE, relations |-> Walk(t) \cup Target(t, {}),
        writeTable |-> t.root.relation, insertOnly |-> t.root.stmt = "InsertStmt"]

(* migrationPolicy: the tables that the statements name.  An index that is *)
(* dropped or commented on does not tell its table.                        *)
Tables(s) ==
  IF IsDdl(s)
  THEN (IF OnIndex(s) THEN {} ELSE {s.relation}) \cup
       (IF "fk" \in DOMAIN s THEN {s.fk} \ {None} ELSE {})
  ELSE statementPolicy(s).relations
Destructive(s) ==
  IF IsDdl(s) THEN s.stmt = "DropStmt" \/ (s.stmt = "AlterTableStmt" /\ s.cmd # "AT_AddConstraint")
  ELSE s.root.stmt # "InsertStmt"
Valid(s) == IsDdl(s) \/ (s.root.stmt # "SelectStmt" /\ statementPolicy(s).ok)

migrationPolicy(ss) ==
  IF \E i \in DOMAIN ss : ~Valid(ss[i]) THEN Rejected
  ELSE [ok |-> TRUE, tables |-> UNION {Tables(ss[i]) : i \in DOMAIN ss},
        destructive |-> \E i \in DOMAIN ss : Destructive(ss[i])]

(* applyMigration: what is compared with the gates, before anything runs.  *)
Named ==
  plan.tables \cup
  (IF \E i \in DOMAIN text : IsDdl(text[i]) /\ OnIndex(text[i]) THEN {index} \ {None} ELSE {})

-----------------------------------------------------------------------------
Undecided == [ok |-> FALSE, asked |-> FALSE]
Init ==
  /\ \/ \E t \in Trees : text = <<t>>
     \/ \E k \in 1 .. MaxDdl : text \in [1 .. k -> Ddl]
  /\ index \in IF IsDdl(text[1]) THEN Names \cup {None} ELSE {None}
  /\ decision = Undecided /\ plan = Undecided

Execute ==
  /\ decision = Undecided /\ plan = Undecided /\ ~IsDdl(text[1])
  /\ decision' = statementPolicy(text[1])
  /\ UNCHANGED <<text, index, plan>>
Preview ==
  /\ plan = Undecided /\ decision = Undecided
  /\ plan' = migrationPolicy(text)
  /\ UNCHANGED <<text, index, decision>>

Next == Execute \/ Preview
Spec == Init /\ [][Next]_vars

-----------------------------------------------------------------------------
(* PostgreSQL: a name without a schema is that of a common table           *)
(* expression if some statement around it has one of that name, other than *)
(* those that come after the one the name is in, or are it.                *)
Around(t, node) ==
  LET up[n \in 1 .. MaxNodes] == {n} \cup IF n = 1 THEN {} ELSE up[t.parent[n]] IN up[node]
IsCte(t, n) ==
  \E a \in Around(t, n) : \E c \in Ctes(t, a) :
    /\ t.node[c].cte = t.reads[n].name
    /\ \A d \in Around(t, n) \cap Ctes(t, a) : c < d
Touched(t) ==
  {t.reads[n].name : n \in {m \in 1 .. MaxNodes : t.reads[m].schema \/ ~IsCte(t, m)}}
  \cup ({t.root.relation} \ {None})
(* An UPDATE inside updates the table it names. *)
Written(t) ==
  ({t.root.relation} \ {None})
  \cup {t.reads[n].name : n \in {m \in 2 .. MaxNodes : t.node[m].stmt # "SelectStmt"}}

(* A migration runs statement by statement, and an index is that of the    *)
(* table it was created on by then.                                        *)
IndexAt[i \in 1 .. MaxDdl + 1] ==
  IF i = 1 THEN index
  ELSE IF i - 1 \notin DOMAIN text \/ ~IsDdl(text[i - 1]) THEN IndexAt[i - 1]
  ELSE IF text[i - 1].stmt = "IndexStmt" THEN text[i - 1].relation
  ELSE IF text[i - 1].stmt = "DropStmt" /\ OnIndex(text[i - 1]) THEN None ELSE IndexAt[i - 1]
Changed(i) ==
  LET s == text[i] IN
  IF ~IsDdl(s) THEN Touched(s)
  ELSE (IF OnIndex(s) THEN {IndexAt[i]} ELSE {s.relation}) \cup (IF "fk" \in DOMAIN s THEN {s.fk} ELSE {})

(* Every table that PostgreSQL reads or writes for an accepted statement   *)
(* is among those whose contract is checked, and only those are; it writes *)
(* only the table whose gate is checked; and the tables of a migration,    *)
(* also those of its indexes, are all compared with the gates.             *)
PolicySeesAll ==
  /\ decision.ok => /\ decision.relations = Touched(text[1])
                    /\ Written(text[1]) \subseteq {decision.writeTable}
  /\ plan.ok => \A i \in DOMAIN text : Changed(i) \ {None} \subseteq Named
=============================================================================
