--------------------------- MODULE RunCache_proofs ---------------------------
(***************************************************************************)
(* Theorems about RunCache, for any number of commands and inodes, and     *)
(* about the other behaviours of MCRunCache, those of TalkDigest.          *)
(*                                                                         *)
(* RunCache.  While no command died none takes a lock away (Patient), so   *)
(* a command that made the lock has it until it removes it (Owned): the    *)
(* directory at the lock's path is its own.  That makes it the only one    *)
(* inside, and what it read of the entry is still so when it writes        *)
(* (Current).                                                              *)
(*                                                                         *)
(* TalkDigest.  A command holds the locks of what it writes (Locked), so   *)
(* what it read of a claim file or a proof is there when it writes it back *)
(* (Fresh), and what a commit rests on is there as long as its result.     *)
(***************************************************************************)
EXTENDS MCRunCache, FiniteSetTheorems, TLAPS

Process ==
  [step : Steps, call : Calls, run : 0 .. MaxRuns, rejected : 0 .. MaxRuns,
   ino : Inodes \cup {Free}, moved : Inodes \cup {Free}, aged : BOOLEAN,
   tried : BOOLEAN, value : 0 .. MaxRuns]
Directory == [by : Commands \cup {Free}, owner : Commands \cup {Free}]

(* From making the lock until it is removed *)
Having == {"own", "sign", "leave", "remove"} \cup Holding

Patient(c) == ~proc[c].aged /\ proc[c].step \notin {"again", "move", "scrap"}
Owned(c) ==
  proc[c].step \in Having =>
    /\ lock # Free /\ dirs[lock].by = c
    /\ proc[c].step # "own" => proc[c].ino = lock
    /\ proc[c].step \in {"own", "sign"} => dirs[lock].owner = Free
(* What is about to be saved is no older than what is there. *)
Current(c) == proc[c].step = "save" => entry <= proc[c].value

(* What the runs hold *)
Known ==
  /\ Len(runs) <= MaxRuns /\ entry <= Len(runs)
  /\ \A c \in Commands : proc[c].run <= Len(runs) /\ proc[c].value <= Len(runs)
                         /\ (proc[c].step = "scrap" => proc[c].moved # Free)

Inv ==
  /\ TypeOK /\ Known
  /\ Calm => \A c \in Commands : Patient(c) /\ Owned(c) /\ Current(c)

-----------------------------------------------------------------------------
(* One command                                                             *)

LEMMA Constants ==
  /\ MaxRuns \in Nat /\ MaxCrashes \in Nat /\ Reuse \in BOOLEAN
  /\ Free \notin Inodes /\ Free \notin Commands
BY CacheAssumption

LEMMA Typed ==
  ASSUME Inv
  PROVE  /\ lock \in Inodes \cup {Free} /\ dirs \in [Inodes -> Directory]
         /\ entry \in 0 .. MaxRuns /\ runs \in Seq(0 .. MaxRuns) /\ crashes \in 0 .. MaxCrashes
         /\ Len(runs) \in 0 .. MaxRuns /\ entry \in 0 .. Len(runs)
         /\ proc \in [Commands -> Process]
         /\ \A c \in Commands :
              /\ proc[c] \in Process /\ proc[c].run \in 0 .. Len(runs) /\ proc[c].value \in 0 .. Len(runs)
              /\ proc[c].step \in Steps /\ proc[c].call \in Calls /\ proc[c].rejected \in 0 .. MaxRuns
              /\ proc[c].ino \in Inodes \cup {Free} /\ proc[c].aged \in BOOLEAN
              /\ proc[c].step = "scrap" => proc[c].moved \in Inodes
<1>1. /\ lock \in Inodes \cup {Free} /\ dirs \in [Inodes -> Directory]
      /\ entry \in 0 .. MaxRuns /\ runs \in Seq(0 .. MaxRuns) /\ crashes \in 0 .. MaxCrashes
      /\ proc \in [Commands -> Process]
  BY DEF Inv, TypeOK, Directory, Process
<1>2. Len(runs) \in Nat /\ Len(runs) <= MaxRuns /\ entry <= Len(runs)
  BY <1>1 DEF Inv, Known
<1>3. ASSUME NEW c \in Commands
      PROVE  /\ proc[c] \in Process /\ proc[c].run \in 0 .. Len(runs) /\ proc[c].value \in 0 .. Len(runs)
             /\ proc[c].step \in Steps /\ proc[c].call \in Calls /\ proc[c].rejected \in 0 .. MaxRuns
             /\ proc[c].ino \in Inodes \cup {Free} /\ proc[c].aged \in BOOLEAN
             /\ proc[c].step = "scrap" => proc[c].moved \in Inodes
  <2>1. proc[c] \in Process
    BY <1>1
  <2>2. /\ proc[c].step \in Steps /\ proc[c].call \in Calls /\ proc[c].rejected \in 0 .. MaxRuns
        /\ proc[c].ino \in Inodes \cup {Free} /\ proc[c].aged \in BOOLEAN
        /\ proc[c].moved \in Inodes \cup {Free}
        /\ proc[c].run \in 0 .. MaxRuns /\ proc[c].value \in 0 .. MaxRuns
    BY <2>1 DEF Process
  <2>3. proc[c].run <= Len(runs) /\ proc[c].value <= Len(runs)
        /\ (proc[c].step = "scrap" => proc[c].moved # Free)
    BY DEF Inv, Known
  <2> QED BY <1>2, <2>1, <2>2, <2>3, Constants
<1> QED BY <1>1, <1>2, <1>3, Constants

(* A process that goes on, rests or tries again is a process. *)
LEMMA Gone ==
  ASSUME NEW p \in Process, NEW step \in Steps
  PROVE  LET q == [p EXCEPT !.step = step] IN
         /\ q \in Process /\ q.step = step /\ q.run = p.run /\ q.value = p.value /\ q.aged = p.aged
         /\ q.ino = p.ino /\ q.moved = p.moved /\ q.call = p.call
BY DEF Process

LEMMA RestingIs ==
  /\ Resting \in Process /\ Resting.step = "idle" /\ Resting.run = 0 /\ Resting.value = 0
  /\ Resting.aged = FALSE
<1>1. 0 \in 0 .. MaxRuns /\ "idle" \in Steps /\ "select" \in Calls
  BY Constants DEF Steps, Calls
<1> QED BY <1>1 DEF Process, Resting

LEMMA Rested ==
  ASSUME NEW p \in Process
  PROVE  LET q == [Resting EXCEPT !.run = p.run] IN
         /\ q \in Process /\ q.step = "idle" /\ q.run = p.run /\ q.value = 0 /\ q.aged = FALSE
<1>1. p.run \in 0 .. MaxRuns
  BY DEF Process
<1> QED BY <1>1, RestingIs DEF Process

LEMMA Retried ==
  ASSUME NEW p \in Process
  PROVE  LET q == [Resting EXCEPT !.step = "try", !.tried = TRUE, !.call = p.call,
                                  !.run = p.run, !.rejected = p.rejected] IN
         /\ q \in Process /\ q.step = "try" /\ q.run = p.run /\ q.value = 0 /\ q.aged = FALSE
<1>1. p.run \in 0 .. MaxRuns /\ p.call \in Calls /\ p.rejected \in 0 .. MaxRuns /\ "try" \in Steps
  BY DEF Process, Steps
<1> QED BY <1>1, RestingIs DEF Process

(* Only one command has the lock. *)
LEMMA Alone ==
  ASSUME Inv, Calm, NEW c \in Commands, NEW d \in Commands,
         proc[c].step \in Having, proc[d].step \in Having
  PROVE  c = d
BY DEF Inv, Owned

(* What is left to show of a step of a command: it keeps its own word, and *)
(* touches the lock and the entry only when it has the lock or nobody has. *)
LEMMA Changing ==
  ASSUME Inv, NEW c \in Commands, NEW p \in Process, Put(c, p), proc[c].step # "dead",
         lock' \in Inodes \cup {Free}, dirs' \in [Inodes -> Directory],
         runs' \in Seq(0 .. MaxRuns), crashes' \in 0 .. MaxCrashes,
         Len(runs) <= Len(runs'), Len(runs') <= MaxRuns, entry' \in 0 .. Len(runs'),
         p.run <= Len(runs'), p.value <= Len(runs'), p.step = "scrap" => p.moved # Free,
         Calm /\ p.step # "dead" =>
            /\ ~p.aged /\ p.step \notin {"again", "move", "scrap"}
            /\ p.step \in Having =>
                 /\ lock' # Free /\ dirs'[lock'].by = c
                 /\ p.step # "own" => p.ino = lock'
                 /\ p.step \in {"own", "sign"} => dirs'[lock'].owner = Free
            /\ p.step = "save" => entry' <= p.value
            /\ proc[c].step \in Having \/ lock = Free \/ UNCHANGED <<lock, dirs, entry>>
  PROVE  Inv'
<1>1. /\ proc' \in [Commands -> Process] /\ proc'[c] = p
      /\ \A d \in Commands \ {c} : proc'[d] = proc[d]
  BY Typed DEF Put
<1>2. Len(runs') \in 0 .. MaxRuns /\ Len(runs) \in Nat
  BY Typed, Constants
<1>3. TypeOK'
  BY <1>1, <1>2, Constants DEF TypeOK, Directory, Process
<1>4. Known'
  <2>1. ASSUME NEW d \in Commands
        PROVE  proc'[d].run <= Len(runs') /\ proc'[d].value <= Len(runs')
               /\ (proc'[d].step = "scrap" => proc'[d].moved # Free)
    <3>1. CASE d = c
      BY <1>1, <3>1
    <3>2. CASE d # c
      <4>1. proc'[d] = proc[d]
        BY <1>1, <3>2
      <4>2. proc[d].run <= Len(runs) /\ proc[d].value <= Len(runs) /\ proc[d].run \in Nat /\ proc[d].value \in Nat
            /\ (proc[d].step = "scrap" => proc[d].moved # Free)
        BY Typed DEF Inv, Known
      <4> QED BY <1>2, <4>1, <4>2
    <3> QED BY <3>1, <3>2
  <2> QED BY <1>2, <2>1 DEF Known
<1>5. ASSUME Calm' PROVE Calm /\ p.step # "dead"
  <2>1. \A d \in Commands : proc'[d].step # "dead"
    BY <1>5 DEF Calm, At
  <2>2. \A d \in Commands : proc[d].step # "dead"
    BY <1>1, <2>1
  <2> QED BY <1>1, <2>1, <2>2 DEF Calm, At
<1>6. ASSUME Calm', NEW d \in Commands PROVE Patient(d)' /\ Owned(d)' /\ Current(d)'
  <2>1. Calm /\ p.step # "dead"
    BY <1>5, <1>6
  <2>2. CASE d = c
    BY <1>1, <2>1, <2>2 DEF Patient, Owned, Current
  <2>3. CASE d # c
    <3>1. proc'[d] = proc[d] /\ Patient(d) /\ Owned(d) /\ Current(d)
      BY <1>1, <2>1, <2>3 DEF Inv
    <3>2. CASE proc[d].step \notin Having
      BY <3>1, <3>2 DEF Patient, Owned, Current, Having, Holding
    <3>3. CASE proc[d].step \in Having
      <4>1. lock # Free /\ proc[c].step \notin Having
        BY <2>1, <2>3, <3>1, <3>3, Alone DEF Owned
      <4>2. UNCHANGED <<lock, dirs, entry>>
        BY <2>1, <4>1
      <4> QED BY <3>1, <4>2 DEF Patient, Owned, Current
    <3> QED BY <3>2, <3>3
  <2> QED BY <2>2, <2>3
<1> QED BY <1>3, <1>4, <1>6 DEF Inv

LEMMA Staying ==
  ASSUME Inv, NEW c \in Commands, NEW p \in Process, Put(c, p), proc[c].step # "dead",
         UNCHANGED files, p.run <= Len(runs), p.value <= Len(runs),
         p.step = "scrap" => p.moved # Free,
         Calm /\ p.step # "dead" =>
            /\ ~p.aged /\ p.step \notin {"again", "move", "scrap"}
            /\ p.step \in Having =>
                 /\ lock # Free /\ dirs[lock].by = c
                 /\ p.step # "own" => p.ino = lock
                 /\ p.step \in {"own", "sign"} => dirs[lock].owner = Free
            /\ p.step = "save" => entry <= p.value
  PROVE  Inv'
<1>1. /\ lock' = lock /\ dirs' = dirs /\ entry' = entry /\ runs' = runs /\ crashes' = crashes
  BY DEF files
<1>2. /\ lock \in Inodes \cup {Free} /\ dirs \in [Inodes -> Directory] /\ runs \in Seq(0 .. MaxRuns)
      /\ crashes \in 0 .. MaxCrashes /\ Len(runs) <= MaxRuns /\ entry \in 0 .. Len(runs) /\ Len(runs) <= Len(runs)
  BY Typed, Constants
<1> QED BY <1>1, <1>2, Changing

LEMMA StepsAre ==
  /\ Having = {"own", "sign", "leave", "remove", "inside", "create", "save"}
  /\ {"idle", "try", "look", "read", "again", "move", "scrap", "dead"} \subseteq Steps /\ Having \subseteq Steps
BY DEF Having, Holding, Steps

(* To rest or to try again is always right. *)
LEMMA Leaving ==
  ASSUME Inv, NEW c \in Commands, proc[c].step # "dead", Rest(c) \/ Retry(c), UNCHANGED files
  PROVE  Inv'
<1>1. proc[c] \in Process /\ proc[c].run \in 0 .. Len(runs) /\ Len(runs) \in Nat
  BY Typed
<1>2. PICK p \in Process : /\ Put(c, p) /\ p.step \in {"idle", "try"} /\ p.run = proc[c].run
                           /\ p.value = 0 /\ p.aged = FALSE
  BY <1>1, Rested, Retried DEF Rest, Retry
<1>3. p.run <= Len(runs) /\ p.value <= Len(runs) /\ p.step \notin Having
  BY <1>1, <1>2, StepsAre
<1> QED BY <1>2, <1>3, Staying

LEMMA Going ==
  ASSUME Inv, NEW c \in Commands, NEW step \in Steps, Goes(c, step)
  PROVE  \E p \in Process :
           /\ Put(c, p) /\ p.step = step /\ p.run = proc[c].run /\ p.value = proc[c].value
           /\ p.aged = proc[c].aged /\ p.ino = proc[c].ino /\ p.moved = proc[c].moved
           /\ p.run <= Len(runs) /\ p.value <= Len(runs)
<1>1. proc[c] \in Process /\ proc[c].run \in 0 .. Len(runs) /\ proc[c].value \in 0 .. Len(runs) /\ Len(runs) \in Nat
  BY Typed
<1> DEFINE p == [proc[c] EXCEPT !.step = step]
<1>2. /\ p \in Process /\ p.step = step /\ p.run = proc[c].run /\ p.value = proc[c].value
      /\ p.aged = proc[c].aged /\ p.ino = proc[c].ino /\ p.moved = proc[c].moved
  BY <1>1, Gone
<1>3. Put(c, p)
  BY DEF Goes
<1> HIDE DEF p
<1>4. p.run <= Len(runs) /\ p.value <= Len(runs)
  BY <1>1, <1>2
<1> QED BY <1>2, <1>3, <1>4

(* While nobody died, no lock is found stale. *)
LEMMA NotDead == ASSUME Inv, Calm, NEW d PROVE (d = Free \/ d \in Commands) => ~Dead(d)
BY Constants DEF Calm, Dead, At

LEMMA OwnerIs == ASSUME Inv, lock # Free
                 PROVE  dirs[lock].by \in Commands \cup {Free} /\ dirs[lock].owner \in Commands \cup {Free}
<1>1. dirs[lock] \in Directory
  BY Typed
<1> QED BY <1>1 DEF Directory

-----------------------------------------------------------------------------
(* To have the lock                                                        *)

LEMMA Beginning == ASSUME Inv, NEW c \in Commands, Begin(c) PROVE Inv'
<1>1. PICK call \in Calls, rejected \in {0, proc[c].run} : Start(c, call, rejected)
  BY DEF Begin
<1>2. proc[c].run \in 0 .. Len(runs) /\ proc[c].run \in 0 .. MaxRuns /\ Len(runs) \in Nat
  BY Typed, Constants
<1> DEFINE p == [Resting EXCEPT !.step = "try", !.call = call, !.run = proc[c].run, !.rejected = rejected]
<1>3. /\ p \in Process /\ p.step = "try" /\ p.run = proc[c].run /\ p.value = 0 /\ p.aged = FALSE
  BY <1>2, RestingIs, StepsAre, Constants DEF Process
<1>4. Put(c, p) /\ UNCHANGED files /\ proc[c].step # "dead"
  BY <1>1 DEF Start, At
<1> HIDE DEF p
<1>5. p.run <= Len(runs) /\ p.value <= Len(runs) /\ p.step \notin Having
  BY <1>2, <1>3, StepsAre
<1> QED BY <1>3, <1>4, <1>5, Staying

LEMMA Making == ASSUME Inv, NEW c \in Commands, Make(c) PROVE Inv'
<1>1. PICK i \in Inodes : dirs[i] = Unused /\ lock' = i /\ dirs' = [dirs EXCEPT ![i].by = c]
  BY DEF Make
<1>2. /\ lock = Free /\ Goes(c, "own") /\ UNCHANGED <<entry, runs, crashes>> /\ proc[c].step = "try"
  BY DEF Make, At
<1>3. PICK p \in Process : /\ Put(c, p) /\ p.step = "own" /\ p.aged = proc[c].aged
                           /\ p.run <= Len(runs) /\ p.value <= Len(runs)
  BY <1>2, Going, StepsAre
<1>4. dirs \in [Inodes -> Directory]
  BY Typed
<1> DEFINE mine == [by |-> c, owner |-> Free]
<1>5. mine \in Directory /\ [dirs[i] EXCEPT !.by = c] = mine /\ mine.by = c /\ mine.owner = Free
  BY <1>1 DEF Directory, Unused
<1> HIDE DEF mine
<1>6. dirs' \in [Inodes -> Directory] /\ dirs'[lock'].by = c /\ dirs'[lock'].owner = Free /\ lock' # Free
  <2>1. dirs' = [dirs EXCEPT ![i] = mine]
    BY <1>1, <1>5
  <2> QED BY <1>1, <1>4, <1>5, <2>1, Constants
<1>7. Calm => ~proc[c].aged
  BY DEF Inv, Patient
<1>8. lock' \in Inodes \cup {Free} /\ runs' \in Seq(0 .. MaxRuns) /\ crashes' \in 0 .. MaxCrashes
      /\ Len(runs) <= Len(runs') /\ Len(runs') <= MaxRuns /\ entry' \in 0 .. Len(runs')
  BY <1>1, <1>2, Typed, Constants
<1>9. Calm /\ p.step # "dead" =>
        /\ ~p.aged /\ p.step \notin {"again", "move", "scrap"}
        /\ p.step \in Having =>
             /\ lock' # Free /\ dirs'[lock'].by = c
             /\ p.step # "own" => p.ino = lock'
             /\ p.step \in {"own", "sign"} => dirs'[lock'].owner = Free
        /\ p.step = "save" => entry' <= p.value
        /\ proc[c].step \in Having \/ lock = Free \/ UNCHANGED <<lock, dirs, entry>>
  BY <1>2, <1>3, <1>6, <1>7
<1>10. p.run <= Len(runs') /\ p.value <= Len(runs') /\ (p.step = "scrap" => p.moved # Free)
       /\ proc[c].step # "dead"
  BY <1>2, <1>3
<1> QED BY <1>3, <1>6, <1>8, <1>9, <1>10, Changing

LEMMA Waiting ==
  ASSUME Inv, NEW c \in Commands, Exists(c) \/ GiveUp(c) \/ (\E aged \in BOOLEAN : Look(c, aged)) \/ Judge(c) \/ Again(c)
  PROVE  Inv'
<1>1. /\ proc[c] \in Process /\ proc[c].run \in 0 .. Len(runs) /\ proc[c].value \in 0 .. Len(runs) /\ Len(runs) \in Nat
      /\ (Calm => Patient(c))
  BY Typed DEF Inv
<1>2. UNCHANGED files /\ proc[c].step \in {"try", "look", "read", "again"}
  BY DEF Exists, GiveUp, Look, Judge, Again, At
<1>3. ASSUME NEW step \in {"look", "again", "move"}, Goes(c, step),
             step # "look" => ~Calm
      PROVE  Inv'
  <2>1. PICK p \in Process : /\ Put(c, p) /\ p.step = step /\ p.aged = proc[c].aged
                             /\ p.run <= Len(runs) /\ p.value <= Len(runs)
    BY <1>3, Going, StepsAre
  <2> QED BY <1>1, <1>2, <1>3, <2>1, Staying, StepsAre DEF Patient
<1>4. CASE Rest(c) \/ Retry(c)
  BY <1>2, <1>4, Leaving
<1>5. ASSUME NEW aged \in BOOLEAN, lock # Free, aged => Dead(dirs[lock].by),
             Put(c, [proc[c] EXCEPT !.step = "read", !.ino = lock, !.aged = aged])
      PROVE  Inv'
  <2> DEFINE p == [proc[c] EXCEPT !.step = "read", !.ino = lock, !.aged = aged]
  <2>1. lock \in Inodes \cup {Free}
    BY Typed
  <2>2. /\ p \in Process /\ p.step = "read" /\ p.run = proc[c].run /\ p.value = proc[c].value /\ p.aged = aged
    BY <1>1, <2>1, StepsAre DEF Process
  <2> HIDE DEF p
  <2>3. Calm => aged = FALSE
    BY <1>5, NotDead, OwnerIs
  <2>4. p.run <= Len(runs) /\ p.value <= Len(runs) /\ p.step \notin Having
    BY <1>1, <2>2, StepsAre
  <2> QED BY <1>2, <1>5, <2>2, <2>3, <2>4, Staying DEF p
<1>6. CASE Judge(c)
  <2>1. Calm => ~Stale(c)
    BY <1>1, NotDead, OwnerIs DEF Stale, Patient
  <2> QED BY <1>3, <1>4, <1>6, <2>1 DEF Judge
<1>7. CASE Again(c)
  <2>1. ~Calm
    BY <1>1, <1>7 DEF Again, At, Patient
  <2> QED BY <1>3, <1>4, <1>7, <2>1 DEF Again
<1>8. CASE \E aged \in BOOLEAN : Look(c, aged)
  BY <1>4, <1>5, <1>8 DEF Look
<1>9. CASE Exists(c)
  BY <1>3, <1>9 DEF Exists
<1>10. CASE GiveUp(c)
  BY <1>4, <1>10 DEF GiveUp
<1> QED BY <1>6, <1>7, <1>8, <1>9, <1>10

(* Only a lock that was found stale is moved. *)
LEMMA Moving == ASSUME Inv, NEW c \in Commands, Move(c) \/ Scrap(c) PROVE Inv'
<1>1. /\ proc[c] \in Process /\ proc[c].run \in 0 .. Len(runs) /\ proc[c].value \in 0 .. Len(runs) /\ Len(runs) \in Nat
      /\ Len(runs) <= MaxRuns /\ entry \in 0 .. Len(runs)
      /\ runs \in Seq(0 .. MaxRuns) /\ crashes \in 0 .. MaxCrashes /\ lock \in Inodes \cup {Free}
      /\ dirs \in [Inodes -> Directory]
  BY Typed, Constants
<1>2. ~Calm /\ proc[c].step # "dead"
  BY DEF Move, Scrap, At, Inv, Patient
<1>3. PICK p \in Process : /\ Put(c, p) /\ p.run = proc[c].run /\ (p.step = "scrap" => p.moved # Free)
                           /\ p.value \in {0, proc[c].value}
  <2>1. CASE Retry(c)
    BY <1>1, <2>1, Retried DEF Retry
  <2>2. CASE lock # Free /\ Put(c, [proc[c] EXCEPT !.step = "scrap", !.moved = lock])
    <3> DEFINE p == [proc[c] EXCEPT !.step = "scrap", !.moved = lock]
    <3>1. /\ p \in Process /\ p.run = proc[c].run /\ p.step = "scrap" /\ p.moved = lock
          /\ p.value = proc[c].value
      BY <1>1, StepsAre DEF Process
    <3>2. Put(c, p)
      BY <2>2
    <3> HIDE DEF p
    <3> QED BY <2>2, <3>1, <3>2
  <2> QED BY <2>1, <2>2 DEF Move, Scrap
<1>4. dirs' \in [Inodes -> Directory] /\ lock' \in Inodes \cup {Free} /\ UNCHANGED <<entry, runs, crashes>>
  <2>1. Unused \in Directory
    BY DEF Unused, Directory
  <2>2. CASE Move(c)
    BY <1>1, <2>2 DEF Move
  <2>3. CASE Scrap(c)
    BY <1>1, <2>1, <2>3 DEF Scrap
  <2> QED BY <2>2, <2>3
<1>5. p.run <= Len(runs') /\ p.value <= Len(runs') /\ Len(runs) <= Len(runs') /\ Len(runs') <= MaxRuns
      /\ entry' \in 0 .. Len(runs') /\ runs' \in Seq(0 .. MaxRuns) /\ crashes' \in 0 .. MaxCrashes
  BY <1>1, <1>3, <1>4
<1> QED BY <1>2, <1>3, <1>4, <1>5, Changing

-----------------------------------------------------------------------------
(* With the lock                                                           *)

(* What holds of the files before every step, and what the lock's own      *)
(* command knows of it. *)
LEMMA Files ==
  ASSUME Inv
  PROVE  /\ lock \in Inodes \cup {Free} /\ dirs \in [Inodes -> Directory]
         /\ runs \in Seq(0 .. MaxRuns) /\ crashes \in 0 .. MaxCrashes
         /\ Len(runs) \in Nat /\ Len(runs) <= Len(runs) /\ Len(runs) <= MaxRuns
         /\ entry \in 0 .. Len(runs)
BY Typed, Constants

LEMMA Has ==
  ASSUME Inv, Calm, NEW c \in Commands, proc[c].step \in Having
  PROVE  /\ lock # Free /\ dirs[lock].by = c /\ ~proc[c].aged
         /\ proc[c].step # "own" => proc[c].ino = lock
         /\ proc[c].step \in {"own", "sign"} => dirs[lock].owner = Free
         /\ proc[c].step = "save" => entry <= proc[c].value
BY DEF Inv, Patient, Owned, Current

LEMMA Owning == ASSUME Inv, NEW c \in Commands, Own(c) PROVE Inv'
<1>1. /\ proc[c] \in Process /\ proc[c].run \in 0 .. Len(runs) /\ proc[c].value \in 0 .. Len(runs)
      /\ Len(runs) \in Nat /\ lock \in Inodes \cup {Free}
  BY Typed, Constants
<1>2. UNCHANGED files /\ proc[c].step = "own"
  BY DEF Own, At
<1>3. CASE Rest(c)
  BY <1>2, <1>3, Leaving
<1>4. CASE Put(c, [proc[c] EXCEPT !.step = "sign", !.ino = lock])
  <2> DEFINE p == [proc[c] EXCEPT !.step = "sign", !.ino = lock]
  <2>1. /\ p \in Process /\ p.step = "sign" /\ p.run = proc[c].run /\ p.value = proc[c].value
        /\ p.aged = proc[c].aged /\ p.ino = lock
    BY <1>1, StepsAre DEF Process
  <2>2. Put(c, p)
    BY <1>4
  <2> HIDE DEF p
  <2>3. p.run <= Len(runs) /\ p.value <= Len(runs)
    BY <1>1, <2>1
  <2>4. Calm => lock # Free /\ dirs[lock].by = c /\ dirs[lock].owner = Free /\ ~proc[c].aged
    BY <1>2, Has, StepsAre
  <2> QED BY <1>2, <2>1, <2>2, <2>3, <2>4, Staying
<1> QED BY <1>3, <1>4 DEF Own

LEMMA Signing == ASSUME Inv, NEW c \in Commands, Sign(c) PROVE Inv'
<1>1. proc[c].step = "sign" /\ UNCHANGED <<lock, entry, runs, crashes>>
  BY DEF Sign, At
<1>2. Calm => lock # Free /\ dirs[lock].by = c /\ proc[c].ino = lock /\ ~proc[c].aged
  BY <1>1, Has, StepsAre
<1>3. CASE UNCHANGED dirs /\ Goes(c, "leave")
  <2>1. PICK p \in Process : /\ Put(c, p) /\ p.step = "leave" /\ p.aged = proc[c].aged /\ p.ino = proc[c].ino
                             /\ p.run <= Len(runs) /\ p.value <= Len(runs)
    BY <1>3, Going, StepsAre
  <2>2. UNCHANGED files
    BY <1>1, <1>3 DEF files
  <2> QED BY <1>1, <1>2, <2>1, <2>2, Staying
<1>4. CASE lock # Free /\ dirs[lock].owner = Free /\ dirs' = [dirs EXCEPT ![lock].owner = c] /\ Goes(c, "inside")
  <2>1. PICK p \in Process : /\ Put(c, p) /\ p.step = "inside" /\ p.aged = proc[c].aged /\ p.ino = proc[c].ino
                             /\ p.run <= Len(runs) /\ p.value <= Len(runs)
    BY <1>4, Going, StepsAre
  <2>2. dirs \in [Inodes -> Directory] /\ dirs[lock] \in Directory /\ lock \in Inodes
    BY <1>4, Files
  <2> DEFINE signed == [dirs[lock] EXCEPT !.owner = c]
  <2>3. signed \in Directory /\ signed.by = dirs[lock].by
    BY <2>2 DEF Directory
  <2>4. dirs' = [dirs EXCEPT ![lock] = signed]
    BY <1>4
  <2> HIDE DEF signed
  <2>5. dirs' \in [Inodes -> Directory] /\ dirs'[lock] = signed
    BY <2>2, <2>3, <2>4
  <2>6. Calm => lock' # Free /\ dirs'[lock'].by = c /\ p.ino = lock' /\ ~p.aged
    BY <1>1, <1>2, <2>1, <2>3, <2>5
  <2>7. /\ lock' \in Inodes \cup {Free} /\ runs' \in Seq(0 .. MaxRuns) /\ crashes' \in 0 .. MaxCrashes
        /\ Len(runs) <= Len(runs') /\ Len(runs') <= MaxRuns /\ entry' \in 0 .. Len(runs')
        /\ p.run <= Len(runs') /\ p.value <= Len(runs')
    BY <1>1, <2>1, Files
  <2> QED BY <1>1, <2>1, <2>5, <2>6, <2>7, StepsAre, Changing
<1> QED BY <1>1, <1>3, <1>4 DEF Sign

(* A touch writes the Run that is in the entry. *)
LEMMA Reading == ASSUME Inv, NEW c \in Commands, ReadEntry(c) PROVE Inv'
<1>1. /\ proc[c] \in Process /\ proc[c].run \in 0 .. Len(runs) /\ proc[c].run \in 0 .. MaxRuns
      /\ proc[c].value \in 0 .. Len(runs) /\ Len(runs) \in Nat
      /\ entry \in 0 .. Len(runs) /\ entry \in 0 .. MaxRuns
  BY Typed, Constants
<1>2. UNCHANGED files /\ proc[c].step = "inside"
  BY DEF ReadEntry, At
<1>3. Calm => lock # Free /\ dirs[lock].by = c /\ proc[c].ino = lock /\ ~proc[c].aged
  BY <1>2, Has, StepsAre
<1>4. ASSUME NEW step \in {"save", "leave"}, step = "save" => entry = proc[c].run,
             Put(c, [proc[c] EXCEPT !.step = step, !.value = proc[c].run])
      PROVE  Inv'
  <2> DEFINE p == [proc[c] EXCEPT !.step = step, !.value = proc[c].run]
  <2>1. /\ p \in Process /\ p.step = step /\ p.run = proc[c].run /\ p.value = proc[c].run
        /\ p.aged = proc[c].aged /\ p.ino = proc[c].ino
    BY <1>1, StepsAre DEF Process
  <2>2. Put(c, p)
    BY <1>4
  <2> HIDE DEF p
  <2>3. p.run <= Len(runs) /\ p.value <= Len(runs) /\ (p.step = "save" => entry <= p.value)
    BY <1>1, <1>4, <2>1
  <2> QED BY <1>2, <1>3, <2>1, <2>2, <2>3, Staying
<1>5. ASSUME Put(c, [proc[c] EXCEPT !.step = "leave", !.run = entry])
      PROVE  Inv'
  <2> DEFINE p == [proc[c] EXCEPT !.step = "leave", !.run = entry]
  <2>1. /\ p \in Process /\ p.step = "leave" /\ p.run = entry /\ p.value = proc[c].value
        /\ p.aged = proc[c].aged /\ p.ino = proc[c].ino
    BY <1>1, StepsAre DEF Process
  <2>2. Put(c, p)
    BY <1>5
  <2> HIDE DEF p
  <2>3. p.run <= Len(runs) /\ p.value <= Len(runs)
    BY <1>1, <2>1
  <2> QED BY <1>2, <1>3, <2>1, <2>2, <2>3, Staying
<1>6. ASSUME Put(c, [proc[c] EXCEPT !.step = "create", !.value = entry])
      PROVE  Inv'
  <2> DEFINE p == [proc[c] EXCEPT !.step = "create", !.value = entry]
  <2>1. /\ p \in Process /\ p.step = "create" /\ p.run = proc[c].run /\ p.value = entry
        /\ p.aged = proc[c].aged /\ p.ino = proc[c].ino
    BY <1>1, StepsAre DEF Process
  <2>2. Put(c, p)
    BY <1>6
  <2> HIDE DEF p
  <2>3. p.run <= Len(runs) /\ p.value <= Len(runs)
    BY <1>1, <2>1
  <2> QED BY <1>2, <1>3, <2>1, <2>2, <2>3, Staying
<1>7. CASE proc[c].call = "touch"
  <2>1. CASE entry = proc[c].run
    <3>1. Put(c, [proc[c] EXCEPT !.step = "save", !.value = proc[c].run])
      BY <1>7, <2>1 DEF ReadEntry, Touches
    <3> QED BY <1>4, <2>1, <3>1
  <2>2. CASE entry # proc[c].run
    <3>1. Put(c, [proc[c] EXCEPT !.step = "leave", !.value = proc[c].run])
      BY <1>7, <2>2 DEF ReadEntry, Touches
    <3> QED BY <1>4, <3>1
  <2> QED BY <2>1, <2>2
<1>8. CASE proc[c].call # "touch" /\ proc[c].call = "select" /\ Serves(c)
  <2>1. Put(c, [proc[c] EXCEPT !.step = "leave", !.run = entry])
    BY <1>8 DEF ReadEntry
  <2> QED BY <1>5, <2>1
<1>9. CASE proc[c].call # "touch" /\ ~(proc[c].call = "select" /\ Serves(c))
  <2>1. Put(c, [proc[c] EXCEPT !.step = "create", !.value = entry])
    BY <1>9 DEF ReadEntry
  <2> QED BY <1>6, <2>1
<1> QED BY <1>7, <1>8, <1>9

(* The Run that was created is newer than every entry. *)
LEMMA Creating == ASSUME Inv, NEW c \in Commands, NEW answered \in BOOLEAN, Create(c, answered) PROVE Inv'
<1>1. /\ proc[c] \in Process /\ proc[c].run \in 0 .. Len(runs) /\ proc[c].value \in 0 .. Len(runs)
      /\ proc[c].value \in 0 .. MaxRuns
  BY Typed, Constants
<1>2. proc[c].step = "create" /\ UNCHANGED <<lock, dirs, entry, crashes>>
  BY DEF Create, At
<1>3. Calm => lock # Free /\ dirs[lock].by = c /\ proc[c].ino = lock /\ ~proc[c].aged
  BY <1>2, Has, StepsAre
<1>4. CASE ~answered
  <2>1. Goes(c, "leave") /\ UNCHANGED files
    BY <1>2, <1>4 DEF Create, files
  <2>2. PICK p \in Process : /\ Put(c, p) /\ p.step = "leave" /\ p.aged = proc[c].aged /\ p.ino = proc[c].ino
                             /\ p.run <= Len(runs) /\ p.value <= Len(runs)
    BY <2>1, Going, StepsAre
  <2> QED BY <1>2, <1>3, <2>1, <2>2, Staying
<1>5. CASE answered
  <2>1. /\ Len(runs) < MaxRuns /\ runs' = Append(runs, proc[c].value)
        /\ Put(c, [proc[c] EXCEPT !.step = "save", !.value = Len(runs) + 1])
    BY <1>5 DEF Create
  <2> DEFINE p == [proc[c] EXCEPT !.step = "save", !.value = Len(runs) + 1]
  <2>2. Len(runs) + 1 \in 0 .. MaxRuns
    BY <2>1, Files, Constants
  <2>3. /\ p \in Process /\ p.step = "save" /\ p.run = proc[c].run /\ p.value = Len(runs) + 1
        /\ p.aged = proc[c].aged /\ p.ino = proc[c].ino
    BY <1>1, <2>2, StepsAre DEF Process
  <2>4. Put(c, p)
    BY <2>1
  <2> HIDE DEF p
  <2>5. runs' \in Seq(0 .. MaxRuns) /\ Len(runs') = Len(runs) + 1
    BY <1>1, <2>1, Files
  <2>6. /\ Len(runs) <= Len(runs') /\ Len(runs') <= MaxRuns /\ entry' \in 0 .. Len(runs')
        /\ p.run <= Len(runs') /\ p.value <= Len(runs') /\ entry' <= p.value
    BY <1>1, <1>2, <2>1, <2>3, <2>5, Files, Constants
  <2>7. lock' \in Inodes \cup {Free} /\ dirs' \in [Inodes -> Directory] /\ crashes' \in 0 .. MaxCrashes
    BY <1>2, Files
  <2> QED BY <1>2, <1>3, <2>3, <2>4, <2>5, <2>6, <2>7, StepsAre, Changing
<1> QED BY <1>4, <1>5

LEMMA Saving == ASSUME Inv, NEW c \in Commands, Save(c) PROVE Inv'
<1>1. /\ proc[c] \in Process /\ proc[c].value \in 0 .. Len(runs) /\ proc[c].value \in 0 .. MaxRuns
  BY Typed, Constants
<1>2. proc[c].step = "save" /\ UNCHANGED <<lock, dirs, runs, crashes>> /\ entry' = proc[c].value
  BY DEF Save, At
<1>3. Calm => lock # Free /\ dirs[lock].by = c /\ proc[c].ino = lock /\ ~proc[c].aged
  BY <1>2, Has, StepsAre
<1> DEFINE p == [proc[c] EXCEPT !.step = "leave", !.run = proc[c].value]
<1>4. /\ p \in Process /\ p.step = "leave" /\ p.run = proc[c].value /\ p.value = proc[c].value
      /\ p.aged = proc[c].aged /\ p.ino = proc[c].ino
  BY <1>1, StepsAre DEF Process
<1>5. Put(c, p)
  BY DEF Save
<1> HIDE DEF p
<1>6. /\ lock' \in Inodes \cup {Free} /\ dirs' \in [Inodes -> Directory] /\ runs' \in Seq(0 .. MaxRuns)
      /\ crashes' \in 0 .. MaxCrashes /\ Len(runs) <= Len(runs') /\ Len(runs') <= MaxRuns
      /\ entry' \in 0 .. Len(runs') /\ p.run <= Len(runs') /\ p.value <= Len(runs')
  BY <1>1, <1>2, <1>4, Files
<1> QED BY <1>2, <1>3, <1>4, <1>5, <1>6, StepsAre, Changing

LEMMA Letting == ASSUME Inv, NEW c \in Commands, Leave(c) PROVE Inv'
<1>1. proc[c].step = "leave" /\ UNCHANGED files
  BY DEF Leave, At
<1>2. Calm => lock # Free /\ dirs[lock].by = c /\ proc[c].ino = lock /\ ~proc[c].aged
  BY <1>1, Has, StepsAre
<1>3. CASE Rest(c)
  BY <1>1, <1>3, Leaving
<1>4. CASE Goes(c, "remove")
  <2>1. PICK p \in Process : /\ Put(c, p) /\ p.step = "remove" /\ p.aged = proc[c].aged /\ p.ino = proc[c].ino
                             /\ p.run <= Len(runs) /\ p.value <= Len(runs)
    BY <1>4, Going, StepsAre
  <2> QED BY <1>1, <1>2, <2>1, Staying
<1> QED BY <1>3, <1>4 DEF Leave

LEMMA Removing == ASSUME Inv, NEW c \in Commands, Remove(c) PROVE Inv'
<1>1. /\ proc[c].step = "remove" /\ Rest(c) /\ lock' = Free
      /\ UNCHANGED <<entry, runs, crashes>>
  BY DEF Remove, At
<1>2. proc[c] \in Process /\ proc[c].run \in 0 .. Len(runs)
  BY Typed
<1>3. PICK p \in Process : Put(c, p) /\ p.step = "idle" /\ p.run = proc[c].run /\ p.value = 0 /\ p.aged = FALSE
  BY <1>1, <1>2, Rested DEF Rest
<1>4. dirs' \in [Inodes -> Directory]
  <2>1. Unused \in Directory
    BY DEF Unused, Directory
  <2> QED BY <2>1, Files DEF Remove
<1>5. /\ runs' \in Seq(0 .. MaxRuns) /\ crashes' \in 0 .. MaxCrashes
      /\ Len(runs) <= Len(runs') /\ Len(runs') <= MaxRuns /\ entry' \in 0 .. Len(runs')
      /\ p.run <= Len(runs') /\ p.value <= Len(runs')
  BY <1>1, <1>2, <1>3, Files
<1> QED BY <1>1, <1>3, <1>4, <1>5, StepsAre, Changing

LEMMA Dying == ASSUME Inv, NEW c \in Commands, Die(c) PROVE Inv'
<1>1. /\ crashes < MaxCrashes /\ crashes' = crashes + 1 /\ Goes(c, "dead") /\ proc[c].step # "dead"
      /\ UNCHANGED <<lock, dirs, entry, runs>>
  BY DEF Die, At
<1>2. PICK p \in Process : Put(c, p) /\ p.step = "dead" /\ p.run <= Len(runs) /\ p.value <= Len(runs)
  BY <1>1, Going, StepsAre
<1>3. crashes' \in 0 .. MaxCrashes
  BY <1>1, Files, Constants
<1>4. /\ lock' \in Inodes \cup {Free} /\ dirs' \in [Inodes -> Directory] /\ runs' \in Seq(0 .. MaxRuns)
      /\ Len(runs) <= Len(runs') /\ Len(runs') <= MaxRuns /\ entry' \in 0 .. Len(runs')
      /\ p.run <= Len(runs') /\ p.value <= Len(runs')
  BY <1>1, <1>2, Files
<1> QED BY <1>1, <1>2, <1>3, <1>4, Changing

-----------------------------------------------------------------------------
(* All of it                                                               *)

LEMMA Initially == ASSUME Init PROVE Inv
<1>1. /\ lock = Free /\ dirs = [i \in Inodes |-> Unused] /\ entry = 0 /\ runs = <<>> /\ crashes = 0
      /\ proc = [c \in Commands |-> Resting]
  BY DEF Init
<1>2. Unused \in Directory
  BY DEF Unused, Directory
<1>3. TypeOK
  BY <1>1, <1>2, Constants, RestingIs DEF TypeOK, Directory, Process
<1>4. Known
  BY <1>1, Constants, RestingIs DEF Known
<1>5. \A c \in Commands : Patient(c) /\ Owned(c) /\ Current(c)
  BY <1>1, RestingIs, StepsAre DEF Patient, Owned, Current
<1> QED BY <1>3, <1>4, <1>5 DEF Inv

LEMMA Stepping == Inv /\ [Next]_vars => Inv'
<1> SUFFICES ASSUME Inv, [Next]_vars PROVE Inv'
  OBVIOUS
<1>1. ASSUME NEW c \in Commands, Walk(c) PROVE Inv'
  BY <1>1, Making, Waiting, Moving, Owning, Signing, Reading, Creating, Saving, Letting, Removing DEF Walk
<1>2. ASSUME NEW c \in Commands, GiveUp(c) PROVE Inv'
  BY <1>2, Waiting
<1>3. CASE UNCHANGED vars
  BY <1>3 DEF vars, Inv, TypeOK, Known, Calm, At, Patient, Owned, Current
<1> QED BY <1>1, <1>2, <1>3, Beginning, Dying DEF Next

LEMMA Always == Spec => []Inv
BY Initially, Stepping, PTL DEF Spec

(* Every variable has its type. *)
THEOREM TypeCorrect == Spec => []TypeOK
<1>1. Inv => TypeOK
  BY DEF Inv
<1> QED BY <1>1, Always, PTL

(* While no command died, one at a time reads and replaces the entry       *)
(* (run-cache.ts:1).                                                       *)
THEOREM OneAtATime == Spec => []OneInside
<1>1. ASSUME Inv PROVE OneInside
  <2>1. SUFFICES ASSUME Calm PROVE Cardinality({c \in Commands : proc[c].step \in Holding}) <= 1
    BY DEF OneInside
  <2> DEFINE holders == {c \in Commands : proc[c].step \in Holding}
  <2>2. ASSUME NEW c \in holders, NEW d \in holders PROVE c = d
    BY <1>1, <2>1, <2>2, Alone DEF Having
  <2>3. CASE holders = {}
    BY <2>3, FS_EmptySet
  <2>4. CASE holders # {}
    <3>1. PICK c : holders = {c}
      BY <2>2, <2>4
    <3> QED BY <3>1, FS_Singleton
  <2> QED BY <2>3, <2>4
<1> QED BY <1>1, Always, PTL

(* While no command died, the entry never goes back to a Run that was      *)
(* replaced: neither a touch of a command that still uses it nor an answer *)
(* that comes late writes it again.                                        *)
THEOREM NeverComesBack == Spec => NeverBack
<1>1. ASSUME Inv, [Next]_vars PROVE [Calm => entry' >= entry]_vars
  <2>1. SUFFICES ASSUME Calm PROVE entry' >= entry
    OBVIOUS
  <2>2. entry \in Nat
    BY <1>1, Files
  <2>3. CASE entry' = entry
    BY <2>2, <2>3
  <2>4. ASSUME NEW c \in Commands, Save(c) PROVE entry' >= entry
    <3>1. entry' = proc[c].value /\ proc[c].step = "save" /\ proc[c].value \in Nat
      BY <1>1, <2>4, Typed DEF Save, At
    <3> QED BY <1>1, <2>1, <2>2, <3>1, Has, StepsAre
  <2>5. ASSUME NEW c \in Commands, Begin(c) \/ Walk(c) \/ GiveUp(c) \/ Die(c), ~Save(c) PROVE entry' = entry
    BY <2>5 DEF Begin, Walk, Start, Make, Exists, Judge, Again, Move, Scrap, Own, Sign, ReadEntry, Leave, Remove,
                Look, Create, GiveUp, Die, files
  <2>6. CASE UNCHANGED vars
    BY <2>3, <2>6 DEF vars
  <2> QED BY <1>1, <2>3, <2>4, <2>5, <2>6 DEF Next
<1> QED BY <1>1, Always, PTL DEF Spec, NeverBack
-----------------------------------------------------------------------------
(* TalkDigest, as MCRunCache has it (Digest)                               *)

Contents == Digest!Content \cup {Digest!NoContent}
ClaimFile == [receipt : Nat, evidence : BOOLEAN]
Proof == [of : Contents, file : Contents, function : Nat, invocation : Nat]
Names == {"claim", "proof"}

ClaimSteps == {"claim", "keep", "renew", "write"}
BothSteps == {"complete", "pending", "rewrite", "trial", "save", "evidence", "commit", "check",
              "page", "prove"}
ProofSteps == {"deploy", "publish", "record", "upload"}
Work == [step : ClaimSteps \cup BothSteps \cup ProofSteps, c : Claims, s : Summaries,
         state : ClaimFile, proof : Proof, completed : BOOLEAN, got : Nat]

DigestTypes ==
  /\ source \in [state : {"absent", "pending", "complete"}, digest : Contents]
  /\ delivery \in [state : {"absent", "ready", "leased", "succeeded"}, granted : Nat]
  /\ receipt \in [receipt : Nat, content : Contents]
  /\ files_ \in [Digest!Keys -> Contents]
  /\ active \in Nat /\ invoked \in Nat
  /\ claims \in [Claims -> ClaimFile] /\ proofs \in [Claims -> Proof]
  /\ locks \in [Claims -> [Names -> Processes \cup {Nobody}]]
  /\ procs \in [Processes -> {Digest!Idle, Digest!Ended} \cup Work]

(* What a command at a step holds *)
HoldsClaim(step_) == step_ \in ClaimSteps \cup BothSteps
HoldsProof(step_) == step_ \in ProofSteps \cup BothSteps
Locked(p) ==
  /\ HoldsClaim(procs[p].step) => locks[procs[p].c]["claim"] = p
  /\ HoldsProof(procs[p].step) => locks[procs[p].c]["proof"] = p

(* What it has read is so. *)
Fresh(p) ==
  LET w == procs[p] IN
  /\ HoldsClaim(w.step) => /\ w.state.receipt = claims[w.c].receipt
                           /\ IF w.step = "save" THEN w.state.evidence ELSE w.state = claims[w.c]
  /\ w.step = "commit" => w.state.evidence
  /\ w.step \in {"page", "prove"} => Digest!Matches(p)
  /\ w.step = "prove" => files_["page"] = Digest!Mine(p)
  /\ w.step \in {"deploy", "publish"} => w.proof = proofs[w.c]
  /\ w.step = "record" => /\ proofs[w.c] # Digest!NoProof
                          /\ w.proof.of = proofs[w.c].of /\ w.proof.file = proofs[w.c].file

Committed ==
  /\ source.state = "complete" => source.digest \in Digest!Content
  /\ source.state = "complete" <=> delivery.state = "succeeded"
  /\ source.state # "complete" => files_["page"] = Digest!NoContent

DigestInv ==
  /\ DigestTypes /\ Committed /\ Digest!Finishable /\ Digest!ProofTrue
  /\ \A p \in Processes : Locked(p) /\ Fresh(p)

LEMMA DigestConstants == Nobody \notin Processes /\ Digest!None \notin Claims /\ Digest!None \notin Summaries
BY DigestGiven DEF Digest!DigestAssumption

LEMMA NoneIsNone ==
  /\ Digest!NoContent \notin Digest!Content /\ Digest!NoContent \in Contents
  /\ Digest!NoClaim \in ClaimFile /\ Digest!NoClaim.evidence = FALSE
  /\ Digest!NoProof \in Proof
  /\ Digest!Idle.step = "idle" /\ Digest!Ended.step = "dead"
  /\ Digest!Keys = {"page", "proof"}
BY DigestConstants DEF Digest!NoContent, Digest!Content, Contents, Digest!NoClaim, ClaimFile,
   Digest!NoProof, Proof, Digest!Idle, Digest!Ended, Digest!Keys

LEMMA Working ==
  ASSUME DigestTypes, NEW p \in Processes, procs[p].step \notin {"idle", "dead"}
  PROVE  /\ procs[p] \in Work
         /\ procs[p].c \in Claims /\ procs[p].s \in Summaries
         /\ procs[p].state \in ClaimFile /\ procs[p].proof \in Proof
         /\ Digest!Mine(p) \in Digest!Content /\ Digest!Mine(p).claim = procs[p].c
         /\ Digest!Mine(p) # Digest!NoContent
<1>1. procs[p] \in Work
  BY NoneIsNone DEF DigestTypes
<1> QED BY <1>1, NoneIsNone DEF Work, Digest!Mine, Digest!My, Digest!Content

LEMMA StepsOfWork ==
  ASSUME DigestTypes, NEW p \in Processes, HoldsClaim(procs[p].step) \/ HoldsProof(procs[p].step)
  PROVE  procs[p].step \notin {"idle", "dead"}
BY DEF HoldsClaim, HoldsProof, ClaimSteps, BothSteps, ProofSteps

(* What a step of p leaves to the others *)
Apart(p) ==
  /\ \A q \in Processes \ {p} : procs'[q] = procs[q]
  /\ \A q \in Processes \ {p}, c \in Claims, n \in Names : locks[c][n] = q => locks'[c][n] = q
  /\ \A c \in Claims : locks[c]["claim"] # p => claims'[c] = claims[c]
  /\ \A c \in Claims : locks[c]["proof"] # p => proofs'[c] = proofs[c]
  /\ source.state = "complete" => source' = source
  /\ files_["page"] # Digest!NoContent => files_'["page"] = files_["page"]

LEMMA OthersFresh ==
  ASSUME DigestInv, NEW p, Apart(p), NEW q \in Processes, q # p
  PROVE  Locked(q)' /\ Fresh(q)'
<1>1. procs'[q] = procs[q] /\ Locked(q) /\ Fresh(q) /\ DigestTypes
  BY DEF Apart, DigestInv
<1>2. CASE procs[q].step \in {"idle", "dead"}
  BY <1>1, <1>2 DEF Locked, Fresh, HoldsClaim, HoldsProof, ClaimSteps, BothSteps, ProofSteps
<1>3. CASE procs[q].step \notin {"idle", "dead"}
  <2>1. /\ procs[q].c \in Claims /\ Digest!Mine(q) # Digest!NoContent /\ Digest!Mine(q)' = Digest!Mine(q)
        /\ "claim" \in Names /\ "proof" \in Names
    BY <1>1, <1>3, Working DEF Digest!Mine, Digest!My, Names
  <2>2. Locked(q)'
    BY <1>1, <2>1 DEF Locked, Apart
  <2>3. HoldsClaim(procs[q].step) => claims'[procs[q].c] = claims[procs[q].c]
    BY <1>1, <2>1 DEF Locked, Apart
  <2>4. HoldsProof(procs[q].step) => proofs'[procs[q].c] = proofs[procs[q].c]
    BY <1>1, <2>1 DEF Locked, Apart
  <2>5. HoldsClaim(procs[q].step) =>
          /\ procs'[q].state.receipt = claims'[procs'[q].c].receipt
          /\ IF procs'[q].step = "save" THEN procs'[q].state.evidence ELSE procs'[q].state = claims'[procs'[q].c]
    BY <1>1, <2>3 DEF Fresh
  <2>6. procs[q].step \in {"page", "prove"} => Digest!Matches(q)'
    BY <1>1, <2>1 DEF Fresh, Digest!Matches, Apart
  <2>7. procs[q].step = "prove" => files_'["page"] = Digest!Mine(q)'
    BY <1>1, <2>1 DEF Fresh, Apart
  <2>8. /\ procs[q].step \in {"deploy", "publish"} => procs'[q].proof = proofs'[procs'[q].c]
        /\ procs[q].step = "record" =>
             /\ proofs'[procs'[q].c] # Digest!NoProof
             /\ procs'[q].proof.of = proofs'[procs'[q].c].of /\ procs'[q].proof.file = proofs'[procs'[q].c].file
    BY <1>1, <2>4 DEF Fresh, HoldsProof, ProofSteps
  <2> QED BY <1>1, <2>2, <2>5, <2>6, <2>7, <2>8 DEF Fresh
<1> QED BY <1>2, <1>3

(* What was committed stays, and so does what finishes it. *)
Result == Committed /\ Digest!Finishable /\ Digest!ProofTrue

LEMMA SameResult ==
  ASSUME DigestInv, UNCHANGED <<source, receipt, files_, claims, proofs>>,
         delivery'.state = "succeeded" <=> delivery.state = "succeeded"
  PROVE  Result'
BY DEF DigestInv, Result, Committed, Digest!Finishable, Digest!ProofTrue

LEMMA ResultOf ==
  ASSUME DigestInv, NEW p \in Processes, Apart(p), DigestTypes', Result', Locked(p)', Fresh(p)'
  PROVE  DigestInv'
BY OthersFresh DEF DigestInv, Result

(* The locks that a command lets go are its own. *)
LEMMA FreedApart ==
  ASSUME DigestInv, NEW p \in Processes, Digest!Freed(p)
  PROVE  /\ locks' \in [Claims -> [Names -> Processes \cup {Nobody}]]
         /\ \A q \in Processes \ {p}, c \in Claims, n \in Names : locks[c][n] = q => locks'[c][n] = q
<1>1. locks \in [Claims -> [Names -> Processes \cup {Nobody}]]
  BY DEF DigestInv, DigestTypes
<1>2. locks' = [c \in Claims |-> [n \in Names |-> IF locks[c][n] = p THEN Nobody ELSE locks[c][n]]]
  BY <1>1 DEF Digest!Freed
<1> QED BY <1>1, <1>2

LEMMA NotAtWork ==
  ASSUME NEW p \in Processes, procs[p].step \in {"idle", "dead"}
  PROVE  Locked(p) /\ Fresh(p)
BY DEF Locked, Fresh, HoldsClaim, HoldsProof, ClaimSteps, BothSteps, ProofSteps

LEMMA NotAtWorkNext ==
  ASSUME NEW p \in Processes, procs'[p].step \in {"idle", "dead"}
  PROVE  Locked(p)' /\ Fresh(p)'
BY DEF Locked, Fresh, HoldsClaim, HoldsProof, ClaimSteps, BothSteps, ProofSteps

LEMMA DoneIs ==
  ASSUME DigestInv, NEW p \in Processes, Digest!Done(p)
  PROVE  /\ procs' = [procs EXCEPT ![p] = Digest!Idle]
         /\ procs' \in [Processes -> {Digest!Idle, Digest!Ended} \cup Work]
         /\ \A q \in Processes \ {p} : procs'[q] = procs[q]
         /\ Locked(p)' /\ Fresh(p)'
         /\ locks' \in [Claims -> [Names -> Processes \cup {Nobody}]]
         /\ \A q \in Processes \ {p}, c \in Claims, n \in Names : locks[c][n] = q => locks'[c][n] = q
<1>1. procs' = [procs EXCEPT ![p] = Digest!Idle] /\ Digest!Freed(p)
  BY DEF Digest!Done
<1>2. /\ procs' \in [Processes -> {Digest!Idle, Digest!Ended} \cup Work] /\ procs'[p] = Digest!Idle
      /\ \A q \in Processes \ {p} : procs'[q] = procs[q]
  BY <1>1 DEF DigestInv, DigestTypes
<1>3. Locked(p)' /\ Fresh(p)'
  BY <1>2, NoneIsNone, NotAtWorkNext
<1> QED BY <1>1, <1>2, <1>3, FreedApart

(* A step of a command that only moves on *)
LEMMA GoIs ==
  ASSUME DigestInv, NEW p \in Processes, procs[p].step \notin {"idle", "dead"},
         NEW to \in ClaimSteps \cup BothSteps \cup ProofSteps, Digest!Go(p, to)
  PROVE  /\ procs' \in [Processes -> {Digest!Idle, Digest!Ended} \cup Work]
         /\ \A q \in Processes \ {p} : procs'[q] = procs[q]
         /\ procs'[p].step = to
         /\ procs'[p].c = procs[p].c /\ procs'[p].s = procs[p].s /\ procs'[p].state = procs[p].state
         /\ procs'[p].proof = procs[p].proof
         /\ Digest!Mine(p)' = Digest!Mine(p)
<1>1. procs[p] \in Work /\ procs' = [procs EXCEPT ![p].step = to]
  BY Working DEF Digest!Go, DigestInv
<1>2. [procs[p] EXCEPT !.step = to] \in Work
  BY <1>1 DEF Work
<1>3. procs' = [procs EXCEPT ![p] = [procs[p] EXCEPT !.step = to]]
  BY <1>1
<1>4. /\ procs' \in [Processes -> {Digest!Idle, Digest!Ended} \cup Work]
      /\ \A q \in Processes \ {p} : procs'[q] = procs[q]
      /\ procs'[p] = [procs[p] EXCEPT !.step = to]
  BY <1>2, <1>3 DEF DigestInv, DigestTypes
<1> QED BY <1>1, <1>4 DEF Work, Digest!Mine, Digest!My
-----------------------------------------------------------------------------
LEMMA DigestStart == Digest!Init => DigestInv
<1> SUFFICES ASSUME Digest!Init PROVE DigestInv
  OBVIOUS
<1>1. /\ source = [state |-> "absent", digest |-> Digest!NoContent]
      /\ delivery = [state |-> "absent", granted |-> 0] /\ receipt = Digest!NoBody
      /\ files_ = [k \in Digest!Keys |-> Digest!NoContent] /\ active = 0 /\ invoked = 0
      /\ claims = [c \in Claims |-> Digest!NoClaim] /\ proofs = [c \in Claims |-> Digest!NoProof]
      /\ locks = [c \in Claims |-> [claim |-> Nobody, proof |-> Nobody]]
      /\ procs = [p \in Processes |-> Digest!Idle]
  BY DEF Digest!Init
<1>2. [claim |-> Nobody, proof |-> Nobody] \in [Names -> Processes \cup {Nobody}]
  BY DEF Names
<1>3. Digest!NoBody \in [receipt : Nat, content : Contents]
  BY NoneIsNone DEF Digest!NoBody
<1>4. DigestTypes
  BY <1>1, <1>2, <1>3, NoneIsNone DEF DigestTypes
<1>5. Committed /\ Digest!Finishable /\ Digest!ProofTrue
  BY <1>1, NoneIsNone DEF Committed, Digest!Finishable, Digest!ProofTrue
<1>6. \A p \in Processes : procs[p].step = "idle"
  BY <1>1, NoneIsNone
<1>7. \A p \in Processes : Locked(p) /\ Fresh(p)
  BY <1>6, NotAtWork
<1> QED BY <1>4, <1>5, <1>7 DEF DigestInv

(* What nobody's command does: the collector, time, the service *)
LEMMA OutsideKeeps ==
  ASSUME DigestInv, Digest!Prepare \/ Digest!Discard \/ Digest!Handoff \/ Digest!Expire \/ Digest!Invoke
  PROVE  DigestInv'
<1>1. UNCHANGED <<receipt, files_, active, claims, proofs, locks, procs>>
  BY DEF Digest!Prepare, Digest!Discard, Digest!Handoff, Digest!Expire, Digest!Invoke, Digest!disk
<1>2. DigestTypes'
  BY <1>1, NoneIsNone DEF DigestInv, DigestTypes, Digest!Prepare, Digest!Discard, Digest!Handoff, Digest!Expire,
     Digest!Invoke
<1>3. /\ source.state = "complete" => source' = source
      /\ source'.state = "complete" <=> source.state = "complete"
      /\ delivery'.state = "succeeded" <=> delivery.state = "succeeded"
  BY DEF DigestInv, DigestTypes, Committed, Digest!Prepare, Digest!Discard, Digest!Handoff, Digest!Expire,
     Digest!Invoke
<1>4. Result'
  BY <1>1, <1>3 DEF DigestInv, Result, Committed, Digest!Finishable, Digest!ProofTrue
<1>5. \A q \in Processes : Nobody # q
  BY DigestConstants
<1>6. Apart(Nobody)
  BY <1>1, <1>3 DEF Apart
<1>7. \A q \in Processes : Locked(q)' /\ Fresh(q)'
  BY <1>5, <1>6, OthersFresh
<1> QED BY <1>2, <1>4, <1>7 DEF DigestInv, Result

LEMMA LocksAre ==
  /\ Digest!Locks("complete") = Names
  /\ \A cmd \in {"claim", "renew"} : Digest!Locks(cmd) = {"claim"}
  /\ \A cmd \in {"deploy", "publish"} : Digest!Locks(cmd) = {"proof"}
  /\ \A cmd \in Digest!Verbs : Digest!Locks(cmd) \subseteq Names
BY DEF Digest!Locks, Names, Digest!Verbs

LEMMA BeginKeeps ==
  ASSUME DigestInv, NEW p \in Processes, NEW cmd \in Digest!Verbs, NEW c \in Claims, NEW s \in Summaries,
         Digest!Begin(p, cmd, c, s)
  PROVE  DigestInv'
<1>1. PICK held \in {Digest!Locks(cmd), Digest!Locks(cmd) \cap {"claim"}} :
        /\ Digest!Taken(p, c, held)
        /\ procs' = [procs EXCEPT ![p] = IF held # Digest!Locks(cmd) THEN Digest!Ended ELSE
             [step |-> cmd, c |-> c, s |-> s, state |-> claims[c], proof |-> proofs[c],
              completed |-> FALSE, got |-> 0]]
  BY DEF Digest!Begin
<1>2. /\ procs[p] = Digest!Idle /\ \A n \in Digest!Locks(cmd) : locks[c][n] = Nobody
      /\ UNCHANGED <<prepared, source, delivery, receipt, files_, active, invoked, claims, proofs>>
      /\ held \subseteq Names /\ held \subseteq Digest!Locks(cmd)
  BY <1>1, LocksAre DEF Digest!Begin, Digest!server, Digest!disk
<1>3. locks \in [Claims -> [Names -> Processes \cup {Nobody}]]
  BY DEF DigestInv, DigestTypes
<1>4. locks' = [locks EXCEPT ![c] = [n \in Names |-> IF n \in held THEN p ELSE locks[c][n]]]
  BY <1>1, <1>3 DEF Digest!Taken
<1>5. /\ locks' \in [Claims -> [Names -> Processes \cup {Nobody}]]
      /\ \A n \in held : locks'[c][n] = p
      /\ \A q \in Processes \ {p}, d \in Claims, n \in Names : locks[d][n] = q => locks'[d][n] = q
  BY <1>2, <1>3, <1>4, DigestConstants
<1> DEFINE work == [step |-> cmd, c |-> c, s |-> s, state |-> claims[c], proof |-> proofs[c],
                    completed |-> FALSE, got |-> 0]
<1>6. work \in Work
  BY DEF Work, DigestInv, DigestTypes, Digest!Verbs, ClaimSteps, BothSteps, ProofSteps
<1>7. /\ procs' \in [Processes -> {Digest!Idle, Digest!Ended} \cup Work]
      /\ \A q \in Processes \ {p} : procs'[q] = procs[q]
      /\ procs'[p] = IF held # Digest!Locks(cmd) THEN Digest!Ended ELSE work
  BY <1>1, <1>6 DEF DigestInv, DigestTypes
<1>8. DigestTypes'
  BY <1>2, <1>5, <1>7 DEF DigestInv, DigestTypes
<1>9. Locked(p)' /\ Fresh(p)'
  <2>1. CASE held # Digest!Locks(cmd)
    BY <1>7, <2>1, NoneIsNone, NotAtWorkNext
  <2>2. CASE held = Digest!Locks(cmd)
    <3>1. /\ procs'[p].step = cmd /\ procs'[p].c = c /\ procs'[p].state = claims[c]
          /\ procs'[p].proof = proofs[c]
      BY <1>7, <2>2
    <3>2. Locked(p)'
      BY <1>5, <2>2, <3>1, LocksAre
      DEF Locked, HoldsClaim, HoldsProof, ClaimSteps, BothSteps, ProofSteps, Names, Digest!Verbs
    <3>3. Fresh(p)'
      BY <1>2, <3>1 DEF Fresh, Digest!Verbs
    <3> QED BY <3>2, <3>3
  <2> QED BY <2>1, <2>2
<1>10. Result'
  BY <1>2, SameResult
<1>11. Apart(p)
  BY <1>2, <1>5, <1>7 DEF Apart
<1> QED BY <1>8, <1>9, <1>10, <1>11, ResultOf

(* A failure, a death, and what the user does after one *)
LEMMA EndsKeep ==
  ASSUME DigestInv, NEW p \in Processes, Digest!Fail(p) \/ Digest!Unlock(p) \/ Digest!Die(p)
  PROVE  DigestInv'
<1>1. UNCHANGED <<prepared, source, delivery, receipt, files_, active, invoked, claims, proofs>>
  BY DEF Digest!Fail, Digest!Unlock, Digest!Die, Digest!server, Digest!disk
<1>2. /\ procs' \in [Processes -> {Digest!Idle, Digest!Ended} \cup Work]
      /\ \A q \in Processes \ {p} : procs'[q] = procs[q]
      /\ Locked(p)' /\ Fresh(p)'
      /\ locks' \in [Claims -> [Names -> Processes \cup {Nobody}]]
      /\ \A q \in Processes \ {p}, c \in Claims, n \in Names : locks[c][n] = q => locks'[c][n] = q
  <2>1. CASE Digest!Done(p)
    BY <2>1, DoneIs
  <2>2. CASE Digest!Die(p)
    <3>1. procs' = [procs EXCEPT ![p] = Digest!Ended] /\ UNCHANGED locks
      BY <2>2 DEF Digest!Die
    <3>2. /\ procs' \in [Processes -> {Digest!Idle, Digest!Ended} \cup Work] /\ procs'[p] = Digest!Ended
          /\ \A q \in Processes \ {p} : procs'[q] = procs[q]
      BY <3>1 DEF DigestInv, DigestTypes
    <3>3. Locked(p)' /\ Fresh(p)'
      BY <3>2, NoneIsNone, NotAtWorkNext
    <3> QED BY <3>1, <3>2, <3>3 DEF DigestInv, DigestTypes
  <2> QED BY <2>1, <2>2 DEF Digest!Fail, Digest!Unlock
<1>3. DigestTypes'
  BY <1>1, <1>2 DEF DigestInv, DigestTypes
<1>4. Result'
  BY <1>1, SameResult
<1>5. Apart(p)
  BY <1>1, <1>2 DEF Apart
<1> QED BY <1>2, <1>3, <1>4, <1>5, ResultOf
-----------------------------------------------------------------------------
(* The steps of a command                                                  *)

(* One that only reads: it goes on, knowing more, or ends *)
LEMMA QuietStep ==
  ASSUME DigestInv, NEW p \in Processes,
         UNCHANGED <<source, delivery, receipt, files_, claims, proofs, invoked>>, active' \in Nat,
         locks' \in [Claims -> [Names -> Processes \cup {Nobody}]],
         \A q \in Processes \ {p}, c \in Claims, n \in Names : locks[c][n] = q => locks'[c][n] = q,
         procs' \in [Processes -> {Digest!Idle, Digest!Ended} \cup Work],
         \A q \in Processes \ {p} : procs'[q] = procs[q],
         Locked(p)', Fresh(p)'
  PROVE  DigestInv'
<1>1. DigestTypes'
  BY DEF DigestInv, DigestTypes
<1>2. Result'
  BY SameResult
<1>3. Apart(p)
  BY DEF Apart
<1> QED BY <1>1, <1>2, <1>3, ResultOf

(* The locks a command had serve its next step. *)
LEMMA LockedStays ==
  ASSUME NEW p \in Processes, Locked(p), locks' = locks, procs'[p].c = procs[p].c,
         HoldsClaim(procs'[p].step) => HoldsClaim(procs[p].step),
         HoldsProof(procs'[p].step) => HoldsProof(procs[p].step)
  PROVE  Locked(p)'
BY DEF Locked

LEMMA LockTypes ==
  ASSUME DigestInv, locks' = locks
  PROVE  /\ locks' \in [Claims -> [Names -> Processes \cup {Nobody}]]
         /\ \A q, c, n : locks[c][n] = q => locks'[c][n] = q
BY DEF DigestInv, DigestTypes

LEMMA ClaimKeeps ==
  ASSUME DigestInv, NEW p \in Processes, Digest!Claim(p)
  PROVE  DigestInv'
<1>1. /\ procs[p].step = "claim" /\ delivery.state = "ready"
      /\ delivery' = [state |-> "leased", granted |-> delivery.granted + 1]
      /\ procs' = [procs EXCEPT ![p].step = "keep", ![p].got = delivery.granted + 1]
      /\ UNCHANGED <<prepared, source, receipt, files_, active, invoked, claims, proofs, locks>>
  BY DEF Digest!Claim, Digest!At, Digest!disk
<1>2. DigestTypes /\ Locked(p) /\ Fresh(p) /\ delivery.granted \in Nat
  BY DEF DigestInv, DigestTypes
<1>3. procs[p] \in Work
  BY <1>1, <1>2, Working
<1>4. [procs[p] EXCEPT !.step = "keep", !.got = delivery.granted + 1] \in Work
  <2>1. "keep" \in ClaimSteps \cup BothSteps \cup ProofSteps /\ delivery.granted + 1 \in Nat
    BY <1>2 DEF ClaimSteps
  <2> QED BY <1>3, <2>1 DEF Work
<1>5. /\ procs' \in [Processes -> {Digest!Idle, Digest!Ended} \cup Work]
      /\ \A q \in Processes \ {p} : procs'[q] = procs[q]
      /\ procs'[p] = [procs[p] EXCEPT !.step = "keep", !.got = delivery.granted + 1]
  BY <1>1, <1>2, <1>4 DEF DigestTypes
<1>6. procs'[p].step = "keep" /\ procs'[p].c = procs[p].c /\ procs'[p].state = procs[p].state
  BY <1>3, <1>5 DEF Work
<1>7. Locked(p)'
  BY <1>1, <1>2, <1>6, LockedStays DEF HoldsClaim, HoldsProof, ClaimSteps, BothSteps, ProofSteps
<1>8. Fresh(p)'
  BY <1>1, <1>2, <1>6 DEF Fresh, HoldsClaim, ClaimSteps
<1>9. DigestTypes'
  <2>1. delivery' \in [state : {"absent", "ready", "leased", "succeeded"}, granted : Nat]
    BY <1>1, <1>2
  <2> QED BY <1>1, <1>2, <1>5, <2>1 DEF DigestTypes
<1>10. Result'
  BY <1>1, SameResult
<1>11. Apart(p)
  BY <1>1, <1>5 DEF Apart
<1> QED BY <1>7, <1>8, <1>9, <1>10, <1>11, ResultOf

(* A file that is written is the one of the claim whose lock is held. *)
LEMMA ClaimWritten ==
  ASSUME DigestInv, NEW p \in Processes, HoldsClaim(procs[p].step), NEW f \in ClaimFile,
         claims' = [claims EXCEPT ![procs[p].c] = f]
  PROVE  /\ claims' \in [Claims -> ClaimFile] /\ procs[p].c \in Claims /\ claims'[procs[p].c] = f
         /\ \A c \in Claims : locks[c]["claim"] # p => claims'[c] = claims[c]
<1>1. procs[p].c \in Claims /\ locks[procs[p].c]["claim"] = p /\ claims \in [Claims -> ClaimFile]
  BY StepsOfWork, Working DEF DigestInv, DigestTypes, Locked
<1> QED BY <1>1

LEMMA ProofWritten ==
  ASSUME DigestInv, NEW p \in Processes, HoldsProof(procs[p].step), NEW f \in Proof,
         proofs' = [proofs EXCEPT ![procs[p].c] = f]
  PROVE  /\ proofs' \in [Claims -> Proof] /\ procs[p].c \in Claims /\ proofs'[procs[p].c] = f
         /\ \A c \in Claims : locks[c]["proof"] # p => proofs'[c] = proofs[c]
<1>1. procs[p].c \in Claims /\ locks[procs[p].c]["proof"] = p /\ proofs \in [Claims -> Proof]
  BY StepsOfWork, Working DEF DigestInv, DigestTypes, Locked
<1> QED BY <1>1

LEMMA KeepKeeps ==
  ASSUME DigestInv, NEW p \in Processes, Digest!Keep(p)
  PROVE  DigestInv'
<1>1. /\ procs[p].step = "keep" /\ claims[procs[p].c] = Digest!NoClaim /\ Digest!Done(p)
      /\ claims' = [claims EXCEPT ![procs[p].c] = [Digest!NoClaim EXCEPT !.receipt = procs[p].got]]
      /\ UNCHANGED <<prepared, source, delivery, receipt, files_, active, invoked, proofs>>
  BY DEF Digest!Keep, Digest!At, Digest!My, Digest!server
<1>2. DigestTypes /\ procs[p] \in Work /\ HoldsClaim(procs[p].step)
  BY <1>1, Working DEF DigestInv, HoldsClaim, ClaimSteps
<1>3. [Digest!NoClaim EXCEPT !.receipt = procs[p].got] \in ClaimFile
  BY <1>2, NoneIsNone DEF Work, ClaimFile
<1>4. /\ claims' \in [Claims -> ClaimFile] /\ procs[p].c \in Claims
      /\ \A c \in Claims : locks[c]["claim"] # p => claims'[c] = claims[c]
  BY <1>1, <1>2, <1>3, ClaimWritten
<1>5. /\ procs' \in [Processes -> {Digest!Idle, Digest!Ended} \cup Work]
      /\ \A q \in Processes \ {p} : procs'[q] = procs[q]
      /\ Locked(p)' /\ Fresh(p)'
      /\ locks' \in [Claims -> [Names -> Processes \cup {Nobody}]]
      /\ \A q \in Processes \ {p}, c \in Claims, n \in Names : locks[c][n] = q => locks'[c][n] = q
  BY <1>1, DoneIs
<1>6. DigestTypes'
  BY <1>1, <1>2, <1>4, <1>5 DEF DigestTypes
<1>7. Apart(p)
  BY <1>1, <1>4, <1>5 DEF Apart
<1>8. source.state = "complete" => procs[p].c # source.digest.claim
  BY <1>1, NoneIsNone DEF DigestInv, Digest!Finishable
<1>9. source.state = "complete" => claims'[source.digest.claim] = claims[source.digest.claim]
  BY <1>1, <1>2, <1>4, <1>8 DEF DigestTypes
<1>10. Result'
  BY <1>1, <1>9 DEF DigestInv, Result, Committed, Digest!Finishable, Digest!ProofTrue
<1> QED BY <1>5, <1>6, <1>7, <1>10, ResultOf

LEMMA LiveReceiptKeeps ==
  ASSUME DigestInv, NEW p \in Processes, Digest!LiveReceipt(p)
  PROVE  DigestInv'
<1>1. PICK to \in {"write", "rewrite", "trial"} :
        /\ Digest!Go(p, to)
        /\ IF to = "write" THEN procs[p].step = "renew" ELSE procs[p].step = "pending"
  BY DEF Digest!LiveReceipt, Digest!At
<1>2. UNCHANGED <<prepared, source, delivery, receipt, files_, active, invoked, claims, proofs, locks>>
  BY DEF Digest!LiveReceipt, Digest!server, Digest!disk
<1>3. Locked(p) /\ Fresh(p) /\ active \in Nat /\ to \in ClaimSteps \cup BothSteps \cup ProofSteps
  BY DEF DigestInv, DigestTypes, ClaimSteps, BothSteps
<1>4. /\ procs' \in [Processes -> {Digest!Idle, Digest!Ended} \cup Work]
      /\ \A q \in Processes \ {p} : procs'[q] = procs[q]
      /\ procs'[p].step = to /\ procs'[p].c = procs[p].c /\ procs'[p].state = procs[p].state
  BY <1>1, <1>3, GoIs
<1>5. Locked(p)'
  BY <1>1, <1>2, <1>3, <1>4, LockedStays DEF HoldsClaim, HoldsProof, ClaimSteps, BothSteps, ProofSteps
<1>6. Fresh(p)'
  BY <1>1, <1>2, <1>3, <1>4 DEF Fresh, HoldsClaim, ClaimSteps, BothSteps
<1> QED BY <1>2, <1>3, <1>4, <1>5, <1>6, LockTypes, QuietStep

(* What is written back is what is there. *)
LEMMA WriteBackKeeps ==
  ASSUME DigestInv, NEW p \in Processes, Digest!WriteBack(p)
  PROVE  DigestInv'
<1>1. /\ procs[p].step \in {"write", "rewrite"}
      /\ \/ procs[p].step = "write" /\ Digest!Done(p)
         \/ procs[p].step = "rewrite" /\ Digest!Go(p, "trial") /\ UNCHANGED locks
      /\ claims' = [claims EXCEPT ![procs[p].c] = procs[p].state]
      /\ UNCHANGED <<prepared, source, delivery, receipt, files_, active, invoked, proofs>>
  BY DEF Digest!WriteBack, Digest!At, Digest!My, Digest!server
<1>2. DigestTypes /\ Locked(p) /\ Fresh(p) /\ HoldsClaim(procs[p].step) /\ active \in Nat
  BY <1>1 DEF DigestInv, DigestTypes, HoldsClaim, ClaimSteps, BothSteps
<1>3. procs[p].state = claims[procs[p].c] /\ claims \in [Claims -> ClaimFile]
  BY <1>1, <1>2 DEF Fresh, DigestTypes
<1>4. claims' = claims
  BY <1>1, <1>3
<1>5. CASE procs[p].step = "write" /\ Digest!Done(p)
  BY <1>1, <1>2, <1>4, <1>5, DoneIs, QuietStep
<1>6. CASE procs[p].step = "rewrite" /\ Digest!Go(p, "trial") /\ UNCHANGED locks
  <2>1. "trial" \in ClaimSteps \cup BothSteps \cup ProofSteps
    BY DEF BothSteps
  <2>2. /\ procs' \in [Processes -> {Digest!Idle, Digest!Ended} \cup Work]
        /\ \A q \in Processes \ {p} : procs'[q] = procs[q]
        /\ procs'[p].step = "trial" /\ procs'[p].c = procs[p].c /\ procs'[p].state = procs[p].state
    BY <1>6, <2>1, GoIs
  <2>3. Locked(p)'
    BY <1>2, <1>6, <2>2, LockedStays DEF HoldsClaim, HoldsProof, ClaimSteps, BothSteps, ProofSteps
  <2>4. Fresh(p)'
    BY <1>2, <1>3, <1>4, <1>6, <2>2 DEF Fresh, HoldsClaim, ClaimSteps, BothSteps
  <2> QED BY <1>1, <1>2, <1>4, <1>6, <2>2, <2>3, <2>4, LockTypes, QuietStep
<1> QED BY <1>1, <1>5, <1>6

(* A step of a claim's locks that reads and goes on to another of them *)
LEMMA GoesOn ==
  ASSUME DigestInv, NEW p \in Processes, NEW to \in BothSteps, procs[p].step \in BothSteps, Digest!Go(p, to),
         UNCHANGED <<source, delivery, receipt, files_, active, invoked, claims, proofs, locks>>,
         to # "save", procs[p].step # "save", to # "prove",
         to = "commit" => procs[p].state.evidence,
         to = "page" => Digest!Matches(p)
  PROVE  DigestInv'
<1>1. /\ Locked(p) /\ Fresh(p) /\ active' \in Nat /\ to \in ClaimSteps \cup BothSteps \cup ProofSteps
      /\ procs[p].step \notin {"idle", "dead"}
  BY DEF DigestInv, DigestTypes, BothSteps
<1>2. /\ procs' \in [Processes -> {Digest!Idle, Digest!Ended} \cup Work]
      /\ \A q \in Processes \ {p} : procs'[q] = procs[q]
      /\ procs'[p].step = to /\ procs'[p].c = procs[p].c /\ procs'[p].state = procs[p].state
      /\ Digest!Mine(p)' = Digest!Mine(p)
  BY <1>1, GoIs
<1>3. Locked(p)'
  BY <1>1, <1>2, LockedStays DEF HoldsClaim, HoldsProof
<1>4. Digest!Matches(p) => Digest!Matches(p)'
  BY <1>2 DEF Digest!Matches
<1>5. /\ procs'[p].state = claims'[procs'[p].c]
      /\ to \notin {"deploy", "publish", "record"}
  BY <1>1, <1>2 DEF Fresh, HoldsClaim, BothSteps
<1>6. Fresh(p)'
  BY <1>2, <1>4, <1>5 DEF Fresh
<1> QED BY <1>1, <1>2, <1>3, <1>6, LockTypes, QuietStep

LEMMA DecideKeeps ==
  ASSUME DigestInv, NEW p \in Processes, Digest!Decide(p)
  PROVE  DigestInv'
<1>1. /\ procs[p].step = "complete"
      /\ UNCHANGED <<prepared, source, delivery, receipt, files_, active, invoked, claims, proofs>>
      /\ \/ Digest!Go(p, "pending") /\ UNCHANGED locks
         \/ procs' = [procs EXCEPT ![p].step = "evidence", ![p].completed = TRUE] /\ UNCHANGED locks
         \/ Digest!Done(p)
  BY DEF Digest!Decide, Digest!At, Digest!server, Digest!disk
<1>2. DigestTypes /\ Locked(p) /\ Fresh(p) /\ procs[p] \in Work /\ active' \in Nat
  BY <1>1, Working DEF DigestInv, DigestTypes
<1>3. CASE Digest!Go(p, "pending") /\ UNCHANGED locks
  BY <1>1, <1>3, GoesOn DEF BothSteps
<1>4. CASE procs' = [procs EXCEPT ![p].step = "evidence", ![p].completed = TRUE] /\ UNCHANGED locks
  <2>1. "evidence" \in ClaimSteps \cup BothSteps \cup ProofSteps
    BY DEF BothSteps
  <2>2. [procs[p] EXCEPT !.step = "evidence", !.completed = TRUE] \in Work
    BY <1>2, <2>1 DEF Work
  <2>3. /\ procs' \in [Processes -> {Digest!Idle, Digest!Ended} \cup Work]
        /\ \A q \in Processes \ {p} : procs'[q] = procs[q]
        /\ procs'[p] = [procs[p] EXCEPT !.step = "evidence", !.completed = TRUE]
    BY <1>2, <1>4, <2>2 DEF DigestTypes
  <2>4. procs'[p].step = "evidence" /\ procs'[p].c = procs[p].c /\ procs'[p].state = procs[p].state
    BY <1>2, <2>3 DEF Work
  <2>5. Locked(p)'
    BY <1>1, <1>2, <1>4, <2>4, LockedStays DEF HoldsClaim, HoldsProof, ClaimSteps, BothSteps, ProofSteps
  <2>6. Fresh(p)'
    BY <1>1, <1>2, <2>4 DEF Fresh, HoldsClaim, BothSteps
  <2> QED BY <1>1, <1>2, <1>4, <2>3, <2>5, <2>6, LockTypes, QuietStep
<1>5. CASE Digest!Done(p)
  BY <1>1, <1>2, <1>5, DoneIs, QuietStep
<1> QED BY <1>1, <1>3, <1>4, <1>5

LEMMA TrialKeeps ==
  ASSUME DigestInv, NEW p \in Processes, Digest!Trial(p)
  PROVE  DigestInv'
<1>1. /\ procs[p].step = "trial"
      /\ procs' = [procs EXCEPT ![p].step = "save", ![p].state.evidence = TRUE]
      /\ UNCHANGED <<prepared, source, delivery, receipt, files_, active, invoked, claims, proofs, locks>>
  BY DEF Digest!Trial, Digest!At, Digest!server, Digest!disk
<1>2. DigestTypes /\ Locked(p) /\ Fresh(p) /\ procs[p] \in Work /\ active' \in Nat
  BY <1>1, Working DEF DigestInv, DigestTypes
<1> DEFINE seen == [procs[p].state EXCEPT !.evidence = TRUE]
           work == [[procs[p] EXCEPT !.step = "save"] EXCEPT !.state = seen]
<1>3. "save" \in ClaimSteps \cup BothSteps \cup ProofSteps /\ procs[p].state \in ClaimFile
  BY <1>2 DEF BothSteps, Work
<1>4. seen \in ClaimFile /\ seen.receipt = procs[p].state.receipt /\ seen.evidence
  BY <1>3 DEF ClaimFile
<1>5. work \in Work /\ work.step = "save" /\ work.c = procs[p].c /\ work.state = seen
  BY <1>2, <1>3, <1>4 DEF Work
<1>6. procs' = [procs EXCEPT ![p] = work]
  BY <1>1, <1>2 DEF DigestTypes, Work
<1>7. /\ procs' \in [Processes -> {Digest!Idle, Digest!Ended} \cup Work]
      /\ \A q \in Processes \ {p} : procs'[q] = procs[q]
      /\ procs'[p] = work
  BY <1>2, <1>5, <1>6 DEF DigestTypes
<1>8. procs'[p].step = "save" /\ procs'[p].c = procs[p].c /\ procs'[p].state = seen
  BY <1>5, <1>7
<1>9. Locked(p)'
  BY <1>1, <1>2, <1>8, LockedStays DEF HoldsClaim, HoldsProof, ClaimSteps, BothSteps, ProofSteps
<1>10. Fresh(p)'
  BY <1>1, <1>2, <1>4, <1>8 DEF Fresh, HoldsClaim, BothSteps
<1> QED BY <1>1, <1>2, <1>7, <1>9, <1>10, LockTypes, QuietStep

(* Saving only adds the evidence: the receipt in the file stays. *)
LEMMA SaveKeeps ==
  ASSUME DigestInv, NEW p \in Processes, Digest!Save(p)
  PROVE  DigestInv'
<1>1. /\ procs[p].step = "save" /\ Digest!Go(p, "evidence")
      /\ claims' = [claims EXCEPT ![procs[p].c] = procs[p].state]
      /\ UNCHANGED <<prepared, source, delivery, receipt, files_, active, invoked, proofs, locks>>
  BY DEF Digest!Save, Digest!SaveEvidence, Digest!At, Digest!My, Digest!server
<1>2. /\ DigestTypes /\ Locked(p) /\ Fresh(p) /\ HoldsClaim(procs[p].step)
      /\ "evidence" \in ClaimSteps \cup BothSteps \cup ProofSteps
  BY <1>1 DEF DigestInv, HoldsClaim, BothSteps
<1>3. /\ procs[p].c \in Claims /\ procs[p].state \in ClaimFile /\ procs[p].state.evidence
      /\ procs[p].state.receipt = claims[procs[p].c].receipt
  BY <1>1, <1>2, Working DEF Fresh
<1>4. /\ claims' \in [Claims -> ClaimFile] /\ claims'[procs[p].c] = procs[p].state
      /\ \A c \in Claims : locks[c]["claim"] # p => claims'[c] = claims[c]
  BY <1>1, <1>2, <1>3, ClaimWritten
<1>5. /\ procs' \in [Processes -> {Digest!Idle, Digest!Ended} \cup Work]
      /\ \A q \in Processes \ {p} : procs'[q] = procs[q]
      /\ procs'[p].step = "evidence" /\ procs'[p].c = procs[p].c /\ procs'[p].state = procs[p].state
  BY <1>1, <1>2, GoIs
<1>6. DigestTypes'
  BY <1>1, <1>2, <1>4, <1>5 DEF DigestTypes
<1>7. Apart(p)
  BY <1>1, <1>4, <1>5 DEF Apart
<1>8. \A c \in Claims : claims'[c].receipt = claims[c].receipt /\ (claims[c].evidence => claims'[c].evidence)
  BY <1>1, <1>2, <1>3 DEF DigestTypes
<1>9. source.state = "complete" => source.digest.claim \in Claims
  BY DEF DigestInv, Committed, Digest!Content
<1>10. Result'
  BY <1>1, <1>8, <1>9 DEF DigestInv, Result, Committed, Digest!Finishable, Digest!ProofTrue
<1>11. Locked(p)'
  BY <1>1, <1>2, <1>5, LockedStays DEF HoldsClaim, HoldsProof, ClaimSteps, BothSteps, ProofSteps
<1>12. Fresh(p)'
  BY <1>4, <1>5 DEF Fresh
<1> QED BY <1>6, <1>7, <1>10, <1>11, <1>12, ResultOf

LEMMA EvidenceKeeps ==
  ASSUME DigestInv, NEW p \in Processes, Digest!Evidence(p)
  PROVE  DigestInv'
<1>1. /\ procs[p].step = "evidence" /\ procs[p].state.evidence /\ Digest!Go(p, "commit")
      /\ UNCHANGED <<prepared, source, delivery, receipt, files_, active, invoked, claims, proofs, locks>>
  BY DEF Digest!Evidence, Digest!At, Digest!My, Digest!server, Digest!disk
<1>2. "commit" \in BothSteps /\ procs[p].step \in BothSteps
  BY <1>1 DEF BothSteps
<1> QED BY <1>1, <1>2, GoesOn

LEMMA CheckKeeps ==
  ASSUME DigestInv, NEW p \in Processes, Digest!Check(p)
  PROVE  DigestInv'
<1>1. /\ procs[p].step = "check" /\ Digest!Matches(p) /\ Digest!Go(p, "page")
      /\ UNCHANGED <<prepared, source, delivery, receipt, files_, active, invoked, claims, proofs, locks>>
  BY DEF Digest!Check, Digest!At, Digest!AfterCheck, Digest!server, Digest!disk
<1>2. "page" \in BothSteps /\ procs[p].step \in BothSteps
  BY <1>1 DEF BothSteps
<1> QED BY <1>1, <1>2, GoesOn

(* The result is committed with the receipt that the claim file has, and   *)
(* with the evidence there.                                                *)
LEMMA CommitKeeps ==
  ASSUME DigestInv, NEW p \in Processes, Digest!Commit(p)
  PROVE  DigestInv'
<1>1. /\ procs[p].step = "commit" /\ Digest!Go(p, "check")
      /\ UNCHANGED <<prepared, files_, active, invoked, claims, proofs, locks>>
      /\ \/ UNCHANGED <<source, delivery, receipt>>
         \/ /\ source.state = "pending"
            /\ source' = [state |-> "complete", digest |-> Digest!Mine(p)]
            /\ delivery' = [delivery EXCEPT !.state = "succeeded"]
            /\ receipt' = [receipt |-> procs[p].state.receipt, content |-> Digest!Mine(p)]
  BY DEF Digest!Commit, Digest!Body, Digest!At, Digest!My, Digest!disk
<1>2. "check" \in BothSteps /\ procs[p].step \in BothSteps
  BY <1>1 DEF BothSteps
<1>3. CASE UNCHANGED <<source, delivery, receipt>>
  BY <1>1, <1>2, <1>3, GoesOn
<1>4. CASE /\ source.state = "pending"
           /\ source' = [state |-> "complete", digest |-> Digest!Mine(p)]
           /\ delivery' = [delivery EXCEPT !.state = "succeeded"]
           /\ receipt' = [receipt |-> procs[p].state.receipt, content |-> Digest!Mine(p)]
  <2>1. /\ DigestTypes /\ Locked(p) /\ Fresh(p) /\ procs[p].c \in Claims
        /\ procs[p].state \in ClaimFile /\ Digest!Mine(p) \in Digest!Content
        /\ Digest!Mine(p).claim = procs[p].c
        /\ "check" \in ClaimSteps \cup BothSteps \cup ProofSteps
        /\ delivery \in [state : {"absent", "ready", "leased", "succeeded"}, granted : Nat]
    BY <1>1, <1>2, Working DEF DigestInv, DigestTypes
  <2>2. procs[p].state = claims[procs[p].c] /\ procs[p].state.evidence
    BY <1>1, <2>1 DEF Fresh, HoldsClaim, BothSteps
  <2>3. /\ procs' \in [Processes -> {Digest!Idle, Digest!Ended} \cup Work]
        /\ \A q \in Processes \ {p} : procs'[q] = procs[q]
        /\ procs'[p].step = "check" /\ procs'[p].c = procs[p].c /\ procs'[p].state = procs[p].state
    BY <1>1, <2>1, GoIs
  <2>4. /\ source' \in [state : {"absent", "pending", "complete"}, digest : Contents]
        /\ delivery' \in [state : {"absent", "ready", "leased", "succeeded"}, granted : Nat]
        /\ receipt' \in [receipt : Nat, content : Contents]
        /\ delivery'.state = "succeeded" /\ source'.state = "complete"
        /\ source'.digest = Digest!Mine(p)
        /\ receipt'.receipt = procs[p].state.receipt /\ receipt'.content = Digest!Mine(p)
    BY <1>4, <2>1 DEF Contents, ClaimFile
  <2>5. DigestTypes'
    BY <1>1, <2>1, <2>3, <2>4 DEF DigestTypes
  <2>6. Apart(p)
    BY <1>1, <1>4, <2>3 DEF Apart
  <2>7. \A c \in Claims : proofs'[c] = Digest!NoProof
    BY <1>1, <1>4 DEF DigestInv, Committed, Digest!ProofTrue
  <2>8. files_'["page"] = Digest!NoContent
    BY <1>1, <1>4 DEF DigestInv, Committed
  <2>9. Committed'
    BY <2>1, <2>4 DEF Committed
  <2>10. Digest!Finishable'
    BY <1>1, <1>4, <2>1, <2>2, <2>4, <2>8 DEF Digest!Finishable
  <2>11. Digest!ProofTrue'
    BY <2>7 DEF Digest!ProofTrue
  <2>12. Locked(p)'
    BY <1>1, <2>1, <2>3, LockedStays DEF HoldsClaim, HoldsProof, ClaimSteps, BothSteps, ProofSteps
  <2>13. Fresh(p)'
    BY <1>1, <2>2, <2>3 DEF Fresh
  <2> QED BY <2>5, <2>6, <2>9, <2>10, <2>11, <2>12, <2>13, ResultOf DEF Result
<1> QED BY <1>1, <1>3, <1>4

(* A page is of the committed result, and is stored once. *)
LEMMA PageKeeps ==
  ASSUME DigestInv, NEW p \in Processes, Digest!Page(p)
  PROVE  DigestInv'
<1>1. /\ procs[p].step = "page" /\ Digest!Go(p, "prove")
      /\ UNCHANGED <<prepared, source, delivery, receipt, active, invoked, claims, proofs, locks>>
      /\ \/ files_["page"] = Digest!Mine(p) /\ UNCHANGED files_
         \/ /\ files_["page"] = Digest!NoContent
            /\ files_' = [files_ EXCEPT !["page"] = Digest!Mine(p)]
  BY DEF Digest!Page, Digest!Recovered, Digest!At, Digest!disk
<1>2. /\ DigestTypes /\ Locked(p) /\ Fresh(p) /\ Digest!Mine(p) \in Contents
      /\ files_ \in [{"page", "proof"} -> Contents]
      /\ "prove" \in ClaimSteps \cup BothSteps \cup ProofSteps
  BY <1>1, Working, NoneIsNone DEF DigestInv, DigestTypes, Contents, BothSteps
<1>3. source.state = "complete" /\ source.digest = Digest!Mine(p)
  BY <1>1, <1>2 DEF Fresh, Digest!Matches
<1>4. /\ procs' \in [Processes -> {Digest!Idle, Digest!Ended} \cup Work]
      /\ \A q \in Processes \ {p} : procs'[q] = procs[q]
      /\ procs'[p].step = "prove" /\ procs'[p].c = procs[p].c /\ procs'[p].state = procs[p].state
      /\ Digest!Mine(p)' = Digest!Mine(p)
  BY <1>1, <1>2, GoIs
<1>5. files_' \in [{"page", "proof"} -> Contents] /\ files_'["page"] = Digest!Mine(p)
  BY <1>1, <1>2
<1>6. DigestTypes'
  BY <1>1, <1>2, <1>4, <1>5, NoneIsNone DEF DigestTypes
<1>7. Apart(p)
  BY <1>1, <1>4, <1>5 DEF Apart
<1>8. Committed'
  BY <1>1, <1>3 DEF Committed, DigestInv
<1>9. Digest!Finishable'
  BY <1>1, <1>3, <1>5 DEF Digest!Finishable, DigestInv
<1>10. Digest!ProofTrue'
  BY <1>1, <1>3, <1>5 DEF Digest!ProofTrue, DigestInv
<1>11. Locked(p)'
  BY <1>1, <1>2, <1>4, LockedStays DEF HoldsClaim, HoldsProof, ClaimSteps, BothSteps, ProofSteps
<1>12. Fresh(p)'
  BY <1>1, <1>2, <1>4, <1>5 DEF Fresh, HoldsClaim, BothSteps, Digest!Matches
<1> QED BY <1>6, <1>7, <1>8, <1>9, <1>10, <1>11, <1>12, ResultOf DEF Result

LEMMA ProveKeeps ==
  ASSUME DigestInv, NEW p \in Processes, Digest!Prove(p)
  PROVE  DigestInv'
<1> DEFINE made == [Digest!NoProof EXCEPT !.of = Digest!Mine(p), !.file = files_["page"]]
<1>1. /\ procs[p].step = "prove" /\ Digest!Done(p)
      /\ proofs' = [proofs EXCEPT ![procs[p].c] = made]
      /\ UNCHANGED <<prepared, source, delivery, receipt, files_, active, invoked, claims>>
  BY DEF Digest!Prove, Digest!At, Digest!My, Digest!server
<1>2. /\ DigestTypes /\ Fresh(p) /\ HoldsProof(procs[p].step) /\ procs[p].c \in Claims
      /\ Digest!Mine(p) \in Contents /\ Digest!Mine(p).claim = procs[p].c
      /\ proofs \in [Claims -> Proof]
  BY <1>1, Working DEF DigestInv, DigestTypes, HoldsProof, BothSteps, Contents
<1>3. /\ source.state = "complete" /\ source.digest = Digest!Mine(p) /\ files_["page"] = Digest!Mine(p)
      /\ delivery.state = "succeeded"
  BY <1>1, <1>2 DEF Fresh, Digest!Matches, DigestInv, Committed
<1>4. made \in Proof /\ made.of = Digest!Mine(p) /\ made.file = Digest!Mine(p)
  BY <1>2, <1>3, NoneIsNone DEF Proof, Digest!NoProof
<1>5. /\ proofs' \in [Claims -> Proof] /\ proofs'[procs[p].c] = made
      /\ \A c \in Claims : locks[c]["proof"] # p => proofs'[c] = proofs[c]
  BY <1>1, <1>2, <1>4, ProofWritten
<1>6. /\ procs' \in [Processes -> {Digest!Idle, Digest!Ended} \cup Work]
      /\ \A q \in Processes \ {p} : procs'[q] = procs[q]
      /\ Locked(p)' /\ Fresh(p)'
      /\ locks' \in [Claims -> [Names -> Processes \cup {Nobody}]]
      /\ \A q \in Processes \ {p}, c \in Claims, n \in Names : locks[c][n] = q => locks'[c][n] = q
  BY <1>1, DoneIs
<1>7. DigestTypes'
  BY <1>1, <1>2, <1>5, <1>6 DEF DigestTypes
<1>8. Apart(p)
  BY <1>1, <1>5, <1>6 DEF Apart
<1>9. \A c \in Claims \ {procs[p].c} : proofs'[c] = proofs[c]
  BY <1>1, <1>2
<1>10. Digest!ProofTrue'
  BY <1>1, <1>2, <1>3, <1>4, <1>5, <1>9 DEF Digest!ProofTrue, DigestInv
<1>11. Committed' /\ Digest!Finishable'
  BY <1>1 DEF Committed, Digest!Finishable, DigestInv
<1> QED BY <1>6, <1>7, <1>8, <1>10, <1>11, ResultOf DEF Result

(* deploy and publish change what they read of the proof only where it is  *)
(* not about the result.                                                   *)
LEMMA RecordedNext ==
  ASSUME DigestInv, NEW p \in Processes, procs[p].step \in {"deploy", "publish"},
         procs[p].proof # Digest!NoProof,
         NEW f \in Proof, f.of = procs[p].proof.of, f.file = procs[p].proof.file,
         procs' = [procs EXCEPT ![p] = [[procs[p] EXCEPT !.step = "record"] EXCEPT !.proof = f]],
         UNCHANGED <<source, delivery, receipt, files_, claims, proofs, invoked, locks>>, active' \in Nat
  PROVE  DigestInv'
<1> DEFINE work == [[procs[p] EXCEPT !.step = "record"] EXCEPT !.proof = f]
<1>1. /\ DigestTypes /\ Locked(p) /\ Fresh(p) /\ procs[p] \in Work
      /\ "record" \in ClaimSteps \cup BothSteps \cup ProofSteps
  BY Working DEF DigestInv, ProofSteps
<1>2. work \in Work /\ work.step = "record" /\ work.c = procs[p].c /\ work.proof = f
  BY <1>1 DEF Work
<1>3. /\ procs' \in [Processes -> {Digest!Idle, Digest!Ended} \cup Work]
      /\ \A q \in Processes \ {p} : procs'[q] = procs[q]
      /\ procs'[p] = work
  BY <1>1, <1>2 DEF DigestTypes
<1>4. procs'[p].step = "record" /\ procs'[p].c = procs[p].c /\ procs'[p].proof = f
  BY <1>2, <1>3
<1>5. Locked(p)'
  BY <1>1, <1>4, LockedStays DEF HoldsClaim, HoldsProof, ClaimSteps, BothSteps, ProofSteps
<1>6. procs[p].proof = proofs[procs[p].c]
  BY <1>1 DEF Fresh
<1>7. Fresh(p)'
  BY <1>4, <1>6 DEF Fresh, HoldsClaim, ClaimSteps, BothSteps
<1> QED BY <1>3, <1>5, <1>7, LockTypes, QuietStep

LEMMA DeployKeeps ==
  ASSUME DigestInv, NEW p \in Processes, Digest!Deploy(p) \/ Digest!Publish(p)
  PROVE  DigestInv'
<1>1. /\ procs[p].step \in {"deploy", "publish"} /\ procs[p].proof # Digest!NoProof
      /\ UNCHANGED <<source, delivery, receipt, files_, claims, proofs, invoked, locks>>
  BY DEF Digest!Deploy, Digest!Publish, Digest!At, Digest!My, Digest!server, Digest!disk
<1>2. /\ DigestTypes /\ procs[p] \in Work /\ procs[p].proof \in Proof
      /\ active \in Nat /\ active + 1 \in Nat /\ invoked \in Nat
  BY <1>1, Working DEF DigestInv, DigestTypes
<1>3. CASE Digest!Deploy(p)
  <2> DEFINE f == [procs[p].proof EXCEPT !.function = active + 1]
  <2>1. /\ active' = active + 1
        /\ procs' = [procs EXCEPT ![p].step = "record", ![p].proof.function = active + 1]
    BY <1>3 DEF Digest!Deploy
  <2>2. f \in Proof /\ f.of = procs[p].proof.of /\ f.file = procs[p].proof.file
    BY <1>2 DEF Proof
  <2>3. procs' = [procs EXCEPT ![p] = [[procs[p] EXCEPT !.step = "record"] EXCEPT !.proof = f]]
    BY <1>2, <2>1 DEF DigestTypes, Work
  <2> HIDE DEF f
  <2> QED BY <1>1, <1>2, <2>1, <2>2, <2>3, RecordedNext
<1>4. CASE Digest!Publish(p)
  <2> DEFINE f == [procs[p].proof EXCEPT !.invocation = invoked]
  <2>1. /\ active' = active
        /\ procs' = [procs EXCEPT ![p].step = "record", ![p].proof.invocation = invoked]
    BY <1>4 DEF Digest!Publish, Digest!server
  <2>2. f \in Proof /\ f.of = procs[p].proof.of /\ f.file = procs[p].proof.file
    BY <1>2 DEF Proof
  <2>3. procs' = [procs EXCEPT ![p] = [[procs[p] EXCEPT !.step = "record"] EXCEPT !.proof = f]]
    BY <1>2, <2>1 DEF DigestTypes, Work
  <2> HIDE DEF f
  <2> QED BY <1>1, <1>2, <2>1, <2>2, <2>3, RecordedNext
<1> QED BY <1>3, <1>4

LEMMA RecordKeeps ==
  ASSUME DigestInv, NEW p \in Processes, Digest!Record(p)
  PROVE  DigestInv'
<1>1. /\ procs[p].step = "record"
      /\ proofs' = [proofs EXCEPT ![procs[p].c] = procs[p].proof]
      /\ Digest!Done(p) \/ (Digest!Go(p, "upload") /\ UNCHANGED locks)
      /\ UNCHANGED <<prepared, source, delivery, receipt, files_, active, invoked, claims>>
  BY DEF Digest!Record, Digest!At, Digest!My, Digest!server
<1>2. /\ DigestTypes /\ Locked(p) /\ Fresh(p) /\ HoldsProof(procs[p].step)
      /\ procs[p].c \in Claims /\ procs[p].proof \in Proof
      /\ proofs \in [Claims -> Proof]
      /\ "upload" \in ClaimSteps \cup BothSteps \cup ProofSteps
  BY <1>1, Working DEF DigestInv, DigestTypes, HoldsProof, ProofSteps
<1>3. /\ proofs' \in [Claims -> Proof] /\ proofs'[procs[p].c] = procs[p].proof
      /\ \A c \in Claims : locks[c]["proof"] # p => proofs'[c] = proofs[c]
  BY <1>1, <1>2, ProofWritten
<1>4. /\ procs' \in [Processes -> {Digest!Idle, Digest!Ended} \cup Work]
      /\ \A q \in Processes \ {p} : procs'[q] = procs[q]
      /\ Locked(p)' /\ Fresh(p)'
      /\ locks' \in [Claims -> [Names -> Processes \cup {Nobody}]]
      /\ \A q \in Processes \ {p}, c \in Claims, n \in Names : locks[c][n] = q => locks'[c][n] = q
  <2>1. CASE Digest!Done(p)
    BY <2>1, DoneIs
  <2>2. CASE Digest!Go(p, "upload") /\ UNCHANGED locks
    <3>1. /\ procs' \in [Processes -> {Digest!Idle, Digest!Ended} \cup Work]
          /\ \A q \in Processes \ {p} : procs'[q] = procs[q]
          /\ procs'[p].step = "upload" /\ procs'[p].c = procs[p].c
      BY <1>1, <1>2, <2>2, GoIs
    <3>2. Locked(p)'
      BY <1>1, <1>2, <2>2, <3>1, LockedStays DEF HoldsClaim, HoldsProof, ClaimSteps, BothSteps, ProofSteps
    <3>3. Fresh(p)'
      BY <3>1 DEF Fresh, HoldsClaim, ClaimSteps, BothSteps
    <3> QED BY <2>2, <3>1, <3>2, <3>3, LockTypes
  <2> QED BY <1>1, <2>1, <2>2
<1>5. DigestTypes'
  BY <1>1, <1>2, <1>3, <1>4 DEF DigestTypes
<1>6. Apart(p)
  BY <1>1, <1>3, <1>4 DEF Apart
<1>7. /\ proofs[procs[p].c] # Digest!NoProof
      /\ procs[p].proof.of = proofs[procs[p].c].of /\ procs[p].proof.file = proofs[procs[p].c].file
  BY <1>1, <1>2 DEF Fresh
<1>8. \A c \in Claims : proofs'[c] # Digest!NoProof =>
        proofs[c] # Digest!NoProof /\ proofs'[c].of = proofs[c].of /\ proofs'[c].file = proofs[c].file
  BY <1>1, <1>2, <1>7
<1>9. Digest!ProofTrue'
  BY <1>1, <1>8 DEF Digest!ProofTrue, DigestInv
<1>10. Committed' /\ Digest!Finishable'
  BY <1>1 DEF Committed, Digest!Finishable, DigestInv
<1> QED BY <1>4, <1>5, <1>6, <1>9, <1>10, ResultOf DEF Result

LEMMA UploadKeeps ==
  ASSUME DigestInv, NEW p \in Processes, Digest!Upload(p)
  PROVE  DigestInv'
<1>1. /\ procs[p].step = "upload" /\ Digest!Done(p)
      /\ files_' = [files_ EXCEPT !["proof"] = procs[p].proof.of]
      /\ UNCHANGED <<prepared, source, delivery, receipt, active, invoked, claims, proofs>>
  BY DEF Digest!Upload, Digest!At, Digest!My, Digest!disk
<1>2. DigestTypes /\ procs[p].proof.of \in Contents /\ files_ \in [{"page", "proof"} -> Contents]
  BY <1>1, Working, NoneIsNone DEF DigestInv, DigestTypes, Proof
<1>3. files_' \in [{"page", "proof"} -> Contents] /\ files_'["page"] = files_["page"]
  BY <1>1, <1>2
<1>4. /\ procs' \in [Processes -> {Digest!Idle, Digest!Ended} \cup Work]
      /\ \A q \in Processes \ {p} : procs'[q] = procs[q]
      /\ Locked(p)' /\ Fresh(p)'
      /\ locks' \in [Claims -> [Names -> Processes \cup {Nobody}]]
      /\ \A q \in Processes \ {p}, c \in Claims, n \in Names : locks[c][n] = q => locks'[c][n] = q
  BY <1>1, DoneIs
<1>5. DigestTypes'
  BY <1>1, <1>2, <1>3, <1>4, NoneIsNone DEF DigestTypes
<1>6. Apart(p)
  BY <1>1, <1>3, <1>4 DEF Apart
<1>7. Result'
  BY <1>1, <1>3 DEF DigestInv, Result, Committed, Digest!Finishable, Digest!ProofTrue
<1> QED BY <1>4, <1>5, <1>6, <1>7, ResultOf

LEMMA DigestNext == DigestInv /\ [Digest!Next]_(Digest!vars) => DigestInv'
<1> SUFFICES ASSUME DigestInv, [Digest!Next]_(Digest!vars) PROVE DigestInv'
  OBVIOUS
<1>1. CASE UNCHANGED Digest!vars
  <2>1. UNCHANGED <<source, delivery, receipt, files_, active, invoked, claims, proofs, locks, procs>>
    BY <1>1 DEF Digest!vars
  <2>2. DigestTypes' /\ Committed' /\ Digest!Finishable' /\ Digest!ProofTrue'
    BY <2>1 DEF DigestInv, DigestTypes, Committed, Digest!Finishable, Digest!ProofTrue
  <2>3. \A p \in Processes : Locked(p)' /\ Fresh(p)'
    BY <2>1 DEF DigestInv, Locked, Fresh, Digest!Matches, Digest!Mine, Digest!My
  <2> QED BY <2>2, <2>3 DEF DigestInv
<1>2. CASE Digest!Prepare \/ Digest!Discard \/ Digest!Handoff \/ Digest!Expire \/ Digest!Invoke
  BY <1>2, OutsideKeeps
<1>3. ASSUME NEW p \in Processes, NEW cmd \in Digest!Verbs, NEW c \in Claims, NEW s \in Summaries,
             Digest!Begin(p, cmd, c, s)
      PROVE  DigestInv'
  BY <1>3, BeginKeeps
<1>4. ASSUME NEW p \in Processes,
             \/ Digest!Fail(p) \/ Digest!Die(p) \/ Digest!Unlock(p)
             \/ Digest!Claim(p) \/ Digest!Keep(p) \/ Digest!LiveReceipt(p) \/ Digest!WriteBack(p)
      PROVE  DigestInv'
  BY <1>4, EndsKeep, ClaimKeeps, KeepKeeps, LiveReceiptKeeps, WriteBackKeeps
<1>5. ASSUME NEW p \in Processes,
             \/ Digest!Decide(p) \/ Digest!Trial(p) \/ Digest!Save(p) \/ Digest!Evidence(p)
             \/ Digest!Commit(p) \/ Digest!Check(p) \/ Digest!Page(p) \/ Digest!Prove(p)
      PROVE  DigestInv'
  BY <1>5, DecideKeeps, TrialKeeps, SaveKeeps, EvidenceKeeps, CommitKeeps, CheckKeeps, PageKeeps, ProveKeeps
<1>6. ASSUME NEW p \in Processes,
             Digest!Deploy(p) \/ Digest!Publish(p) \/ Digest!Record(p) \/ Digest!Upload(p)
      PROVE  DigestInv'
  BY <1>6, DeployKeeps, RecordKeeps, UploadKeeps
<1> QED BY <1>1, <1>2, <1>3, <1>4, <1>5, <1>6 DEF Digest!Next

(* A completion that stopped after its commit can be finished by the same  *)
(* command: the evidence, the body submitted and the page's key are as it  *)
(* left them; and a proof is of the result that was committed and of the   *)
(* page stored for it.  Whatever number of analysts work on the claim, die *)
(* and are repeated (analyst.ts complete, withPrivateLock).                *)
THEOREM CompletionsFinish == Digest!Spec => []Completed
<1>1. DigestInv => Completed
  BY DEF DigestInv, Completed, Digest!Completed
<1> QED BY <1>1, DigestStart, DigestNext, PTL DEF Digest!Spec
=============================================================================
