----------------------------- MODULE Projection -----------------------------
(***************************************************************************)
(* The projection of one Workspace's migration ledger into a directory and *)
(* a git repository (createMigrationProjection).  Requests that arrive     *)
(* while a snapshot is being written share the next one; a snapshot is     *)
(* staged in a directory of its own and renamed into place, the repository *)
(* of the previous one moving along.  Any file operation may fail, git may *)
(* be killed, and the server may stop at any step.                         *)
(***************************************************************************)
EXTENDS Integers, Sequences, FiniteSets

CONSTANTS
    Requests,       \* calls of project()
    UseGit,         \* whether a git executable was found
    Purges,         \* whether retention may null the SQL of old migrations
    None,           \* no directory, no repository
    MaxRevision, MaxFaults, MaxCrashes  \* bounds

ASSUME ProjectionAssumption ==
    /\ UseGit \in BOOLEAN /\ Purges \in BOOLEAN
    /\ MaxRevision \in Nat /\ MaxFaults \in Nat /\ MaxCrashes \in Nat

VARIABLES
    ledger,         \* control.workspace_migrations: the latest revision
    purged,         \* revisions whose SQL retention nulled
    asked,          \* the ledger's revision when each request came, or None
    answers,        \* each request's answer, or None
    dirty,          \* state.dirty
    waiting,        \* state.pending
    serving,        \* the requests the running snapshot will answer
    pc,             \* where the snapshot is, "off" while the Workspace is not active
    rev,            \* the revision it projects
    root,           \* the projection directory
    staging,        \* the directory being written
    previous,       \* the one it replaces, renamed aside
    faults, crashes,\* ghosts: how many so far
    commits         \* ghost: every commit ever made, in order

files == <<root, staging, previous>>
requests == <<asked, answers, dirty, waiting, serving>>
vars == <<ledger, purged, asked, answers, dirty, waiting, serving, pc, rev,
          root, staging, previous, faults, crashes, commits>>

Revisions == 1..MaxRevision
Repository == [log : Seq(0..MaxRevision), locked : BOOLEAN]
Answer == [ok : BOOLEAN, rev : 0..MaxRevision]
Directories == [manifest : 0..MaxRevision \cup {None}, files : SUBSET Revisions,
                git : Repository \cup {None}]
ASSUME NoneAssumption == None \notin Nat \cup Repository \cup Directories
Idle == {"off"}
Working == {"list", "stage", "files", "aside", "git", "place", "undo", "clean", "add",
            "commit", "done", "failed"}

Directory(d) == d \in Directories \cup {None}

TypeOK ==
    /\ ledger \in 0..MaxRevision
    /\ purged \subseteq 1..ledger
    /\ \A q \in Requests : /\ asked[q] = None \/ asked[q] \in 0..ledger
                           /\ answers[q] = None \/ answers[q] \in Answer
    /\ dirty \in BOOLEAN
    /\ waiting \subseteq Requests /\ serving \subseteq Requests
    /\ pc \in Idle \cup Working
    /\ rev \in 0..ledger
    /\ Directory(root) /\ Directory(staging) /\ Directory(previous)
    /\ faults \in 0..MaxFaults /\ crashes \in 0..MaxCrashes
    /\ pc = "off" => staging = None /\ waiting = {} /\ serving = {}

Init ==
    /\ ledger = 0 /\ purged = {}
    /\ asked = [q \in Requests |-> None]
    /\ answers = [q \in Requests |-> None]
    /\ dirty = FALSE /\ waiting = {} /\ serving = {}
    /\ pc = "off" /\ rev = 0
    /\ root = None /\ staging = None /\ previous = None
    /\ faults = 0 /\ crashes = 0
    /\ commits = << >>

-----------------------------------------------------------------------------
(* The Workspace: migrations are applied, and their SQL expires.           *)

Apply ==
    /\ ledger < MaxRevision
    /\ ledger' = ledger + 1
    /\ UNCHANGED <<purged, requests, pc, rev, files, faults, crashes, commits>>

Purge(r) ==
    /\ Purges
    /\ r \in 1..ledger \ purged
    /\ purged' = purged \cup {r}
    /\ UNCHANGED <<ledger, requests, pc, rev, files, faults, crashes, commits>>

-----------------------------------------------------------------------------
(* project() and the loop that answers it.                                 *)

\* A request joins the active Workspace's next snapshot ...
\* (Mutant JoinsQuietly: without marking the state dirty.)
JoinsQuietly(q) ==
    /\ waiting' = waiting \cup {q}
    /\ UNCHANGED <<dirty, serving, pc>>
Joins(q) ==
    /\ dirty' = TRUE
    /\ waiting' = waiting \cup {q}
    /\ UNCHANGED <<serving, pc>>

\* ... or makes it active and starts one at once.
Starts(q) ==
    /\ serving' = {q}
    /\ pc' = "list"
    /\ UNCHANGED <<dirty, waiting>>

Project(q) ==
    /\ asked[q] = None
    /\ asked' = [asked EXCEPT ![q] = ledger]
    /\ IF pc = "off" THEN Starts(q) ELSE Joins(q)
    /\ UNCHANGED <<ledger, purged, answers, rev, files, faults, crashes, commits>>

\* The snapshot ended: staging goes, those it served are answered, and the loop
\* runs again for those who came meanwhile.
\* (Mutant: latecomers are answered with the running snapshot.)
AnswersLatecomers == serving \cup waiting
Answered == serving
Ends ==
    /\ pc \in {"done", "failed"}
    /\ staging' = None
    /\ answers' = [q \in Requests |->
         IF q \in Answered THEN [ok |-> pc = "done", rev |-> rev] ELSE answers[q]]
    /\ serving' = waiting \ Answered
    /\ waiting' = {}
    /\ dirty' = FALSE
    /\ pc' = IF dirty THEN "list" ELSE "off"
    /\ previous' = None
    /\ UNCHANGED <<ledger, purged, asked, rev, root, faults, crashes, commits>>

-----------------------------------------------------------------------------
(* One snapshot.                                                           *)

Goes(from, to) == pc = from /\ pc' = to
Rest == UNCHANGED <<ledger, purged, requests, faults, crashes>>

\* listMigrations reads the head; every later page stops there.
List ==
    /\ Goes("list", "stage")
    /\ rev' = ledger
    /\ Rest /\ UNCHANGED <<files, commits>>

\* mkdtemp
Stage ==
    /\ Goes("stage", "files")
    /\ staging' = [manifest |-> None, files |-> {}, git |-> None]
    /\ Rest /\ UNCHANGED <<rev, root, previous, commits>>

\* One file per migration; there is none for SQL that retention nulled.
\* (Mutant NoBound: later pages read past the head.)
NoBound == ledger
Through == rev
Unwritten == 1..Through \ staging.files
WriteFile ==
    /\ pc = "files"
    /\ \E r \in Unwritten :
         /\ \A s \in Unwritten : r <= s
         /\ IF r \in purged THEN pc' = "failed" /\ UNCHANGED staging
            ELSE staging' = [staging EXCEPT !.files = @ \cup {r}] /\ UNCHANGED pc
    /\ Rest /\ UNCHANGED <<rev, root, previous, commits>>

WriteManifest ==
    /\ Goes("files", "aside") /\ Unwritten = {}
    /\ staging' = [staging EXCEPT !.manifest = rev]
    /\ Rest /\ UNCHANGED <<rev, root, previous, commits>>

\* rename(root, previous)
Aside ==
    /\ Goes("aside", "git")
    /\ root' = None /\ previous' = root
    /\ Rest /\ UNCHANGED <<rev, staging, commits>>

HasGit(d) == d # None /\ d.git # None

\* rename(previous/.git, staging/.git)
MoveGit ==
    /\ Goes("git", "place")
    /\ IF HasGit(previous)
       THEN /\ staging' = [staging EXCEPT !.git = previous.git]
            /\ previous' = [previous EXCEPT !.git = None]
       ELSE UNCHANGED <<staging, previous>>
    /\ Rest /\ UNCHANGED <<rev, root, commits>>

\* rename(staging, root)
Place ==
    /\ Goes("place", "clean")
    /\ root' = staging /\ staging' = None
    /\ Rest /\ UNCHANGED <<rev, previous, commits>>

\* After a rename failed: the repository and the previous directory go back.
\* (Mutant UndoForgetsGit: the repository stays in staging.)
UndoForgetsGit ==
    /\ Goes("undo", "failed")
    /\ root' = previous /\ previous' = None
    /\ Rest /\ UNCHANGED <<rev, staging, commits>>
Undo ==
    /\ Goes("undo", "failed")
    /\ root' = IF HasGit(staging) THEN [previous EXCEPT !.git = staging.git] ELSE previous
    /\ previous' = None
    /\ staging' = [staging EXCEPT !.git = None]
    /\ Rest /\ UNCHANGED <<rev, commits>>

\* rm(previous)
Clean ==
    /\ Goes("clean", IF UseGit THEN "add" ELSE "done")
    /\ previous' = None
    /\ Rest /\ UNCHANGED <<rev, root, staging, commits>>

\* git init and git add; git refuses while its index.lock exists.
Repo == IF HasGit(root) THEN root.git ELSE [log |-> << >>, locked |-> FALSE]
Add ==
    /\ pc = "add"
    /\ root' = [root EXCEPT !.git = Repo]
    /\ pc' = IF Repo.locked THEN "failed" ELSE "commit"
    /\ Rest /\ UNCHANGED <<rev, staging, previous, commits>>

\* git commit, when the index differs from the last commit.
Differs == LET log == root.git.log
           IN  log = << >> \/ (log # << >> /\ log[Len(log)] # rev)
Commit ==
    /\ Goes("commit", "done")
    /\ IF Differs
       THEN /\ root' = [root EXCEPT !.git.log = Append(@, rev)]
            /\ commits' = Append(commits, rev)
       ELSE UNCHANGED <<root, commits>>
    /\ Rest /\ UNCHANGED <<rev, staging, previous>>

Step == List \/ Stage \/ WriteFile \/ WriteManifest \/ Aside \/ MoveGit \/ Place
        \/ Undo \/ Clean \/ Add \/ Commit \/ Ends

-----------------------------------------------------------------------------
(* Faults.                                                                 *)

Fault == faults < MaxFaults /\ faults' = faults + 1

\* A query or a file operation fails; the renames are undone.
OperationFails ==
    /\ Fault
    /\ \/ pc \in {"list", "stage", "files", "aside", "clean"} /\ pc' = "failed"
       \/ pc \in {"git", "place"} /\ pc' = "undo"
    /\ UNCHANGED <<ledger, purged, requests, rev, files, crashes, commits>>

\* The rename back fails as well: the directories stay where they are, and
\* staging is removed with what it holds.
UndoFails ==
    /\ Fault
    /\ pc = "undo" /\ pc' = "failed"
    /\ UNCHANGED <<ledger, purged, requests, rev, files, crashes, commits>>

\* git runs for 10 seconds and is killed, perhaps holding index.lock, perhaps
\* after it made the commit.
GitKilled ==
    /\ Fault
    /\ pc \in {"add", "commit"} /\ pc' = "failed"
    /\ \E locked, made \in BOOLEAN :
        LET log == IF made /\ pc = "commit" /\ Differs THEN Append(Repo.log, rev) ELSE Repo.log
        IN  /\ root' = [root EXCEPT !.git = [log |-> log, locked |-> Repo.locked \/ locked]]
            /\ commits' = IF log = Repo.log THEN commits ELSE Append(commits, rev)
    /\ UNCHANGED <<ledger, purged, requests, rev, staging, previous, crashes>>

\* The server stops: nobody is answered, and the next server knows only root.
Crash ==
    /\ crashes < MaxCrashes /\ pc # "off"
    /\ crashes' = crashes + 1
    /\ pc' = "off" /\ dirty' = FALSE /\ waiting' = {} /\ serving' = {}
    /\ answers' = [q \in Requests |-> IF q \in waiting \cup serving
                     THEN [ok |-> FALSE, rev |-> 0] ELSE answers[q]]
    /\ staging' = None /\ previous' = None
    /\ \E locked \in BOOLEAN :
         root' = IF pc \in {"add", "commit"} /\ locked
                 THEN [root EXCEPT !.git = [Repo EXCEPT !.locked = TRUE]] ELSE root
    /\ UNCHANGED <<ledger, purged, asked, rev, faults, commits>>

-----------------------------------------------------------------------------
Next == \/ Apply \/ Step \/ OperationFails \/ UndoFails \/ GitKilled \/ Crash
        \/ \E r \in Revisions : Purge(r)
        \/ \E q \in Requests : Project(q)

Spec == Init /\ [][Next]_vars
FairSpec == Spec /\ WF_vars(Step)

-----------------------------------------------------------------------------
\* Whoever is told that the projection succeeded finds everything in it that
\* was applied before the request, although requests share snapshots
\* (project() splices the pending list before it reads the ledger).
AnswerCovers ==
    \A q \in Requests : answers[q] # None /\ answers[q].ok => answers[q].rev >= asked[q]

\* A reader of the projection directory sees it absent or whole: a manifest and
\* exactly the files it lists, at every step of every snapshot, failure and
\* crash (staging, then rename).
RootWhole == root # None => root.manifest \in 0..ledger /\ root.files = 1..root.manifest

\* While no more than one operation of the server failed and it did not stop,
\* no commit is lost: between snapshots the repository holds them all.
HistoryKept ==
    pc = "off" /\ faults <= 1 /\ crashes = 0 /\ UseGit =>
        IF HasGit(root) THEN root.git.log = commits ELSE commits = << >>

\* Every request is answered, or the server it was sent to stopped.
EveryoneAnswered == \A q \in Requests : asked[q] # None ~> answers[q] # None

\* What a reader finds in the directory is whole and covers what he was told.
Readable == AnswerCovers /\ RootWhole
=============================================================================
