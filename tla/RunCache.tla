------------------------------ MODULE RunCache ------------------------------
(***************************************************************************)
(* The cache of the CLI for the Run of a session: one file with the Run's  *)
(* id, and a lock directory that serialises the commands that read and     *)
(* replace it (packages/cli/runtime/run-cache.ts).  A command is a process *)
(* of the operating system; each of its filesystem calls is a step.        *)
(*                                                                         *)
(* A lock is stale when the process named in its owner file is gone or     *)
(* when it is older than 60 seconds.  No command here holds the lock for   *)
(* 60 seconds, the case the source names as an exception; so only the lock *)
(* of a dead command is ever found stale.                                  *)
(***************************************************************************)
EXTENDS Naturals, Sequences, FiniteSets

CONSTANTS
  Commands,    \* processes that use the same cache entry
  Inodes,      \* inode numbers
  MaxRuns,     \* bound: Runs created
  MaxCrashes,  \* bound: commands that die
  Reuse,       \* an inode number a command remembers may be given out again
  Free         \* no directory, no process, no inode

ASSUME CacheAssumption ==
  /\ MaxRuns \in Nat /\ MaxCrashes \in Nat /\ Reuse \in BOOLEAN
  /\ Free \notin Inodes /\ Free \notin Commands

VARIABLES
  lock,     \* the inode at the lock's path
  dirs,     \* of each inode: who made it, and whose owner file is in it
  entry,    \* the Run in the cache file, 0 for none
  runs,     \* of each Run, in order of creation: the one it replaced
  proc,     \* the commands
  crashes

vars == <<lock, dirs, entry, runs, proc, crashes>>
files == <<lock, dirs, entry, runs, crashes>>

-----------------------------------------------------------------------------
Calls == {"select", "force", "touch"}
Holding == {"inside", "create", "save"}
Steps == {"idle", "try", "look", "read", "again", "move", "scrap", "own", "sign",
          "leave", "remove", "dead"} \cup Holding

(* run: the Run a command uses; rejected: the one the server forbade;      *)
(* ino, moved: the lock it saw or made, and the one it moved away; aged:   *)
(* what it saw was 60 seconds old; value: the Run it read, then saves.     *)
Resting == [step |-> "idle", call |-> "select", run |-> 0, rejected |-> 0,
            ino |-> Free, moved |-> Free, aged |-> FALSE, tried |-> FALSE, value |-> 0]

Unused == [by |-> Free, owner |-> Free]
At(c, step) == proc[c].step = step
Dead(c) == c # Free /\ proc[c].step = "dead"
Put(c, p) == proc' = [proc EXCEPT ![c] = p]
Goes(c, step) == Put(c, [proc[c] EXCEPT !.step = step])
Rest(c) == Put(c, [Resting EXCEPT !.run = proc[c].run])
Retry(c) == Put(c, [Resting EXCEPT !.step = "try", !.tried = TRUE, !.call = proc[c].call,
                                   !.run = proc[c].run, !.rejected = proc[c].rejected])

(* A command selects a Run, selects another than the one that was refused, *)
(* creates one by force, or touches the one it used.                       *)
Start(c, call, rejected) ==
  /\ At(c, "idle")
  /\ rejected # 0 => call = "select"
  /\ call = "touch" => proc[c].run # 0
  /\ Put(c, [Resting EXCEPT !.step = "try", !.call = call, !.run = proc[c].run,
                            !.rejected = rejected])
  /\ UNCHANGED files

-----------------------------------------------------------------------------
(* locked(): wait for the lock *)

(* Mutant: mkdir does not mind that the directory is there. *)
MakeOrReuse(c) ==
  /\ At(c, "try")
  /\ LET i == IF lock = Free THEN CHOOSE i \in Inodes : dirs[i] = Unused ELSE lock IN
       lock' = i /\ dirs' = [dirs EXCEPT ![i].by = c]
  /\ Goes(c, "own")
  /\ UNCHANGED <<entry, runs, crashes>>
Make(c) ==
  /\ At(c, "try") /\ lock = Free
  /\ \E i \in Inodes :
       /\ dirs[i] = Unused
       /\ Reuse \/ \A d \in Commands : proc[d].ino # i
       /\ lock' = i /\ dirs' = [dirs EXCEPT ![i].by = c]
  /\ Goes(c, "own")
  /\ UNCHANGED <<entry, runs, crashes>>

Exists(c) == At(c, "try") /\ lock # Free /\ Goes(c, "look") /\ UNCHANGED files

(* run_cache_locked: not before the first look *)
GiveUp(c) == At(c, "try") /\ proc[c].tried /\ Rest(c) /\ UNCHANGED files

Look(c, aged) ==
  /\ At(c, "look")
  /\ aged => lock # Free /\ Dead(dirs[lock].by)
  /\ IF lock = Free
     THEN Retry(c)
     ELSE Put(c, [proc[c] EXCEPT !.step = "read", !.ino = lock, !.aged = aged])
  /\ UNCHANGED files

(* The owner file is the one at the lock's path now.  Without one the age  *)
(* decides.                                                                *)
Stale(c) ==
  IF lock # Free /\ dirs[lock].owner # Free THEN Dead(dirs[lock].owner) ELSE proc[c].aged
Judge(c) ==
  /\ At(c, "read")
  /\ IF Stale(c) THEN Goes(c, "again") ELSE Retry(c)
  /\ UNCHANGED files

Again(c) ==
  /\ At(c, "again")
  /\ IF lock = proc[c].ino THEN Goes(c, "move") ELSE Retry(c)
  /\ UNCHANGED files

(* Mutant: what is stale stays where it is. *)
MoveNothing(c) == At(c, "move") /\ Retry(c) /\ UNCHANGED files
(* rename moves whatever is at the lock's path by now *)
Move(c) ==
  /\ At(c, "move")
  /\ lock' = Free
  /\ IF lock = Free THEN Retry(c)
     ELSE Put(c, [proc[c] EXCEPT !.step = "scrap", !.moved = lock])
  /\ UNCHANGED <<dirs, entry, runs, crashes>>

Scrap(c) ==
  /\ At(c, "scrap")
  /\ dirs' = [dirs EXCEPT ![proc[c].moved] = Unused]
  /\ Retry(c)
  /\ UNCHANGED <<lock, entry, runs, crashes>>

Own(c) ==
  /\ At(c, "own")
  /\ IF lock = Free THEN Rest(c) ELSE Put(c, [proc[c] EXCEPT !.step = "sign", !.ino = lock])
  /\ UNCHANGED files

Sign(c) ==
  /\ At(c, "sign")
  /\ IF lock # Free /\ dirs[lock].owner = Free
     THEN dirs' = [dirs EXCEPT ![lock].owner = c] /\ Goes(c, "inside")
     ELSE Goes(c, "leave") /\ UNCHANGED dirs
  /\ UNCHANGED <<lock, entry, runs, crashes>>

Leave(c) ==
  /\ At(c, "leave")
  /\ IF lock # Free /\ lock = proc[c].ino THEN Goes(c, "remove") ELSE Rest(c)
  /\ UNCHANGED files

Remove(c) ==
  /\ At(c, "remove")
  /\ dirs' = IF lock = Free THEN dirs ELSE [dirs EXCEPT ![lock] = Unused]
  /\ lock' = Free
  /\ Rest(c)
  /\ UNCHANGED <<entry, runs, crashes>>

-----------------------------------------------------------------------------
(* select() and touch(): what the lock protects *)

(* Mutant: touch writes the Run it used, whatever the file holds by now. *)
TouchesAny(c) == TRUE
Touches(c) == entry = proc[c].run
Serves(c) == entry # 0 /\ entry # proc[c].rejected
ReadEntry(c) ==
  /\ At(c, "inside")
  /\ Put(c, CASE proc[c].call = "touch" ->
                   [proc[c] EXCEPT !.step = IF Touches(c) THEN "save" ELSE "leave",
                                  !.value = proc[c].run]
              [] proc[c].call = "select" /\ Serves(c) ->
                   [proc[c] EXCEPT !.step = "leave", !.run = entry]
              [] OTHER -> [proc[c] EXCEPT !.step = "create", !.value = entry])
  /\ UNCHANGED files

Create(c, answered) ==
  /\ At(c, "create")
  /\ IF answered
     THEN /\ Len(runs) < MaxRuns
          /\ runs' = Append(runs, proc[c].value)
          /\ Put(c, [proc[c] EXCEPT !.step = "save", !.value = Len(runs) + 1])
     ELSE Goes(c, "leave") /\ UNCHANGED runs
  /\ UNCHANGED <<lock, dirs, entry, crashes>>

(* the file is replaced by rename *)
Save(c) ==
  /\ At(c, "save")
  /\ entry' = proc[c].value
  /\ Put(c, [proc[c] EXCEPT !.step = "leave", !.run = proc[c].value])
  /\ UNCHANGED <<lock, dirs, runs, crashes>>

Die(c) ==
  /\ crashes < MaxCrashes /\ ~At(c, "idle") /\ ~At(c, "dead")
  /\ crashes' = crashes + 1
  /\ Goes(c, "dead")
  /\ UNCHANGED <<lock, dirs, entry, runs>>

-----------------------------------------------------------------------------
Init ==
  /\ lock = Free /\ dirs = [i \in Inodes |-> Unused]
  /\ entry = 0 /\ runs = <<>>
  /\ proc = [c \in Commands |-> Resting]
  /\ crashes = 0

Begin(c) == \E call \in Calls, rejected \in {0, proc[c].run} : Start(c, call, rejected)
Walk(c) ==
  \/ Make(c) \/ Exists(c) \/ Judge(c) \/ Again(c) \/ Move(c) \/ Scrap(c)
  \/ Own(c) \/ Sign(c) \/ ReadEntry(c) \/ Save(c) \/ Leave(c) \/ Remove(c)
  \/ \E aged \in BOOLEAN : Look(c, aged)
  \/ \E answered \in BOOLEAN : Create(c, answered)

Next == \E c \in Commands : Begin(c) \/ Walk(c) \/ GiveUp(c) \/ Die(c)
Spec == Init /\ [][Next]_vars

(* Commands keep being run and the operating system runs them; a lock      *)
(* without an owner file reaches its 60 seconds.                           *)
Fairness ==
  \A c \in Commands : WF_vars(Begin(c)) /\ WF_vars(Walk(c)) /\ SF_vars(Look(c, TRUE))
FairSpec == Spec /\ Fairness

-----------------------------------------------------------------------------
(* Properties *)

TypeOK ==
  /\ lock \in Inodes \cup {Free}
  /\ dirs \in [Inodes -> [by : Commands \cup {Free}, owner : Commands \cup {Free}]]
  /\ entry \in 0 .. MaxRuns /\ runs \in Seq(0 .. MaxRuns) /\ crashes \in 0 .. MaxCrashes
  /\ proc \in [Commands ->
       [step : Steps, call : Calls, run : 0 .. MaxRuns, rejected : 0 .. MaxRuns,
        ino : Inodes \cup {Free}, moved : Inodes \cup {Free}, aged : BOOLEAN,
        tried : BOOLEAN, value : 0 .. MaxRuns]]

(* No command has died.  Two that find the lock of a dead one can take each *)
(* other's new lock away (Again and Move are two steps).                   *)
Calm == \A c \in Commands : ~At(c, "dead")

(* The lock serialises lazy creation and replacement across the processes  *)
(* (run-cache.ts:1): while no command died, one at a time is inside.       *)
OneInside == Calm => Cardinality({c \in Commands : proc[c].step \in Holding}) <= 1

(* A Run that was replaced does not come back by a touch of a command that *)
(* still uses it.                                                          *)
NeverBack == [][Calm => entry' >= entry]_vars

(* The lock of a command that died does not stay.                          *)
DeadLocksGo ==
  (lock # Free /\ Dead(dirs[lock].by)) ~> ~(lock # Free /\ Dead(dirs[lock].by))

(* The lock does what it is for, and can be had again.                     *)
LockServes == NeverBack /\ DeadLocksGo
=============================================================================
