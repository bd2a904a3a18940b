----------------------------- MODULE AuditTrail -----------------------------
(***************************************************************************)
(* What the audit log of one Workspace promises its readers (ADR-0006): a  *)
(* log that only grows, in whole transactions, until the database is       *)
(* restored to a backup; a restore shuts the gate, and the log is given a  *)
(* generation it never had before the gate opens again.                    *)
(***************************************************************************)
EXTENDS Naturals, Sequences

CONSTANT Event

VARIABLES
  log,         \* the committed events, by position
  generation,  \* audit.cursor.generation
  gated,       \* control.restore_gate.active
  epoch,       \* how often the database was restored; names the generation
               \* that control.restore_workspaces holds for this restore
  saved        \* log and generation in the backup

trail == <<log, generation, gated, epoch, saved>>

TrailTypeOK ==
  /\ log \in Seq(Event)
  /\ generation \in 0 .. epoch
  /\ gated \in BOOLEAN
  /\ epoch \in Nat
  /\ saved \in [log : Seq(Event), generation : 0 .. epoch]

TrailInit ==
  /\ log = <<>>
  /\ generation = 0
  /\ gated = FALSE
  /\ epoch = 0
  /\ saved = [log |-> <<>>, generation |-> 0]

(* A transaction commits its events, at the positions after the head. *)
Grow(es) ==
  /\ es # <<>>
  /\ log' = log \o es
  /\ UNCHANGED <<generation, gated, epoch, saved>>

Backup ==
  /\ saved' = [log |-> log, generation |-> generation]
  /\ UNCHANGED <<log, generation, gated, epoch>>

Restore ==
  /\ log' = saved.log
  /\ generation' = saved.generation
  /\ gated' = TRUE
  /\ epoch' = epoch + 1
  /\ UNCHANGED saved

(* A User's release, or that of the last other Workspace: the log is in    *)
(* the generation of this restore from now on, and the gate may open.      *)
Release(es, opens) ==
  /\ gated
  /\ log' = log \o es
  /\ generation' = epoch
  /\ gated' = ~opens
  /\ UNCHANGED <<epoch, saved>>

Added == SubSeq(log', Len(log) + 1, Len(log'))
TrailNext ==
  /\ \/ Grow(Added)
     \/ Backup
     \/ Restore
     \/ \E opens \in BOOLEAN : Release(Added, opens)
  /\ TrailTypeOK'

TrailSpec == TrailInit /\ [][TrailNext]_trail
=============================================================================
