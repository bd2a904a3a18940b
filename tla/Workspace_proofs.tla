-------------------------- MODULE Workspace_proofs --------------------------
(***************************************************************************)
(* Theorems about the parts of MCWorkspace: the projection of migrations,  *)
(* files, and the invocations of functions.  Each has an inductive         *)
(* invariant (ProjectionInv, BlobInv, InvocationInv), a lemma for each     *)
(* action, and its theorems at the end.                                    *)
(***************************************************************************)
EXTENDS MCWorkspace, SequenceTheorems, FiniteSetTheorems, TLAPS

-----------------------------------------------------------------------------
(* Projection *)

ShownTypes ==
  /\ ledger \in 0 .. MaxRevision /\ rev \in 0 .. ledger
  /\ asked \in [Requests -> 0 .. ledger \cup {None}]
  /\ Shown!Directory(root) /\ Shown!Directory(staging) /\ Shown!Directory(previous)
  /\ commits \in Seq(0 .. MaxRevision)
  /\ failures \in Nat /\ crashes \in Nat /\ dirty \in BOOLEAN
  /\ pc \in Shown!Idle \cup Shown!Working

(* Whoever waits is served by the next snapshot, and whoever is served by  *)
(* this one asked before it read the ledger.                               *)
Asks ==
  /\ waiting # {} => dirty
  /\ \A q \in Requests :
       /\ asked[q] = None => q \notin serving \cup waiting /\ answers[q] = None
       /\ q \in serving /\ pc \notin {"off", "list", "failed"} => asked[q] <= rev

(* What the directories hold at each step of a snapshot *)
WholeAt(d, max) == d # None => d.manifest \in 0 .. max /\ d.files = 1 .. d.manifest
Staged == staging # None /\ staging.manifest = rev /\ staging.files = 1 .. rev
Built ==
  /\ WholeAt(root, ledger) /\ WholeAt(previous, ledger)
  /\ pc \in {"off", "list", "stage", "files", "aside", "add", "commit", "done"} => previous = None
  /\ pc = "files" => staging # None /\ staging.git = None /\ staging.files \subseteq 1 .. rev
  /\ pc \in {"aside", "git", "place", "undo"} => Staged
  /\ pc \in {"aside", "git"} => staging.git = None
  /\ pc \in {"git", "place", "undo"} => root = None
  /\ pc \in {"place", "undo"} /\ Shown!HasGit(staging) => previous # None /\ ~Shown!HasGit(previous)
  /\ pc \in {"clean", "add", "commit"} => root # None
  /\ pc = "commit" => Shown!HasGit(root)

(* Where the repository is at each step, as long as one operation failed   *)
(* at most                                                                 *)
Held(d) == IF Shown!HasGit(d) THEN d.git.log = commits ELSE commits = <<>>
Quiet == failures <= 1 /\ crashes = 0 /\ UseGit
Traced ==
  Quiet =>
    /\ pc = "git" => Held(previous)
    /\ pc = "place" => Held(staging) /\ ~Shown!HasGit(previous)
    /\ pc = "undo" => failures = 1 /\ (IF Shown!HasGit(staging) THEN Held(staging) ELSE Held(previous))
    /\ pc \notin {"git", "place", "undo"} => Held(root)

ProjectionInv == ShownTypes /\ Asks /\ Shown!AnswerCovers /\ Built /\ Traced

LEMMA ShownConstants ==
  /\ MaxRevision \in Nat /\ UseGit \in BOOLEAN
  /\ None \notin Nat /\ None \notin Shown!Repository /\ None \notin Shown!Directories
BY WorkspaceGiven DEF Shown!ProjectionAssumption, Shown!NoneAssumption

LEMMA ShownStart == Shown!Init => ProjectionInv
<1> SUFFICES ASSUME Shown!Init PROVE ProjectionInv
  OBVIOUS
<1>1. ShownTypes
  <2>1. commits \in Seq(0 .. MaxRevision)
    BY EmptySeq DEF Shown!Init
  <2>2. asked \in [Requests -> 0 .. ledger \cup {None}]
    <3> DEFINE Times == 0 .. ledger \cup {None}
    <3>1. None \in Times
      OBVIOUS
    <3>2. asked = [q \in Requests |-> None]
      BY DEF Shown!Init
    <3> HIDE DEF Times
    <3> QED BY <3>1, <3>2 DEF Times
  <2>3. ledger \in 0 .. MaxRevision /\ rev \in 0 .. ledger /\ failures \in Nat /\ crashes \in Nat
    BY ShownConstants DEF Shown!Init
  <2>4. /\ Shown!Directory(root) /\ Shown!Directory(staging) /\ Shown!Directory(previous)
        /\ dirty \in BOOLEAN /\ pc \in Shown!Idle \cup Shown!Working
    BY DEF Shown!Init, Shown!Directory, Shown!Idle, Shown!Working
  <2> QED BY <2>1, <2>2, <2>3, <2>4 DEF ShownTypes
<1>2. Asks /\ Shown!AnswerCovers
  BY DEF Shown!Init, Asks, Shown!AnswerCovers
<1>3. Built
  BY DEF Shown!Init, Built, WholeAt
<1>4. Traced
  BY DEF Shown!Init, Traced, Held, Shown!HasGit
<1> QED BY <1>1, <1>2, <1>3, <1>4 DEF ProjectionInv

(* A step that leaves the requests alone, and where the snapshot is with   *)
(* respect to the ledger                                                   *)
LEMMA AsksStay ==
  ASSUME ProjectionInv, UNCHANGED <<asked, answers, dirty, waiting, serving>>,
         rev' = rev, pc' \in {"off", "list", "failed"} \/ pc \notin {"off", "list", "failed"}
  PROVE  (Asks /\ Shown!AnswerCovers)'
BY DEF ProjectionInv, Asks, Shown!AnswerCovers

-----------------------------------------------------------------------------
LEMMA ShownLedger ==
  ASSUME ProjectionInv, Shown!Apply \/ \E r \in Shown!Revisions : Shown!Purge(r)
  PROVE  ProjectionInv'
<1>1. /\ ledger' \in 0 .. MaxRevision /\ ledger <= ledger' /\ ledger \in 0 .. MaxRevision
      /\ UNCHANGED <<asked, answers, dirty, waiting, serving, pc, rev, root, staging, previous,
                     failures, crashes, commits>>
  BY ShownConstants DEF ProjectionInv, ShownTypes, Shown!Apply, Shown!Purge, Shown!requests, Shown!files
<1>2. rev \in 0 .. ledger /\ \A n \in 0 .. ledger : n \in 0 .. ledger'
  BY <1>1 DEF ProjectionInv, ShownTypes
<1>3. ShownTypes'
  <2>1. asked \in [Requests -> 0 .. ledger' \cup {None}]
    BY <1>2 DEF ProjectionInv, ShownTypes
  <2> QED BY <1>1, <1>2, <2>1 DEF ProjectionInv, ShownTypes, Shown!Directory
<1>4. Built'
  BY <1>1, <1>2 DEF ProjectionInv, Built, WholeAt, Staged, Shown!HasGit
<1>5. Asks' /\ Shown!AnswerCovers'
  BY <1>1 DEF ProjectionInv, Asks, Shown!AnswerCovers
<1>6. Traced'
  BY <1>1 DEF ProjectionInv, Traced, Held, Quiet, Shown!HasGit
<1> QED BY <1>3, <1>4, <1>5, <1>6 DEF ProjectionInv

LEMMA ShownRequest ==
  ASSUME ProjectionInv, NEW q \in Requests, Shown!Project(q)
  PROVE  ProjectionInv'
<1>1. /\ asked[q] = None /\ asked' = [asked EXCEPT ![q] = ledger]
      /\ UNCHANGED <<ledger, purged, answers, rev, root, staging, previous, failures, crashes, commits>>
  BY DEF Shown!Project, Shown!files
<1>2. CASE pc = "off"
  <2>1. serving' = {q} /\ pc' = "list" /\ UNCHANGED <<dirty, waiting>>
    BY <1>2 DEF Shown!Project, Shown!Starts
  <2>2. ShownTypes'
    BY <1>1, <2>1, ShownConstants DEF ProjectionInv, ShownTypes, Shown!Directory, Shown!Idle, Shown!Working
  <2>3. Asks' /\ Shown!AnswerCovers'
    BY <1>1, <2>1, ShownConstants DEF ProjectionInv, ShownTypes, Asks, Shown!AnswerCovers
  <2>4. Built' /\ Traced'
    BY <1>1, <1>2, <2>1 DEF ProjectionInv, Built, WholeAt, Staged, Traced, Held, Quiet, Shown!HasGit
  <2> QED BY <2>2, <2>3, <2>4 DEF ProjectionInv
<1>3. CASE pc # "off"
  <2>1. dirty' = TRUE /\ waiting' = waiting \cup {q} /\ UNCHANGED <<serving, pc>>
    BY <1>3 DEF Shown!Project, Shown!Joins
  <2>2. ShownTypes'
    BY <1>1, <2>1, ShownConstants DEF ProjectionInv, ShownTypes, Shown!Directory, Shown!Idle, Shown!Working
  <2>3. Asks' /\ Shown!AnswerCovers'
    BY <1>1, <2>1, ShownConstants DEF ProjectionInv, ShownTypes, Asks, Shown!AnswerCovers
  <2>4. Built' /\ Traced'
    BY <1>1, <2>1 DEF ProjectionInv, Built, WholeAt, Staged, Traced, Held, Quiet, Shown!HasGit
  <2> QED BY <2>2, <2>3, <2>4 DEF ProjectionInv
<1> QED BY <1>2, <1>3

-----------------------------------------------------------------------------
(* The steps of a snapshot *)

(* What a step of the snapshot leaves alone *)
Apart ==
  /\ UNCHANGED <<ledger, purged, asked, answers, dirty, waiting, serving, crashes>>

LEMMA ShownEnds ==
  ASSUME ProjectionInv, Shown!Ends
  PROVE  ProjectionInv'
<1>1. /\ pc \in {"done", "failed"} /\ staging' = None /\ previous' = None /\ waiting' = {} /\ dirty' = FALSE
      /\ serving' = waiting \ serving /\ pc' = IF dirty THEN "list" ELSE "off"
      /\ answers' = [q \in Requests |-> IF q \in serving THEN [ok |-> pc = "done", rev |-> rev] ELSE answers[q]]
      /\ UNCHANGED <<ledger, asked, rev, root, failures, crashes, commits>>
  BY DEF Shown!Ends, Shown!Answered
<1>2. ShownTypes'
  BY <1>1 DEF ProjectionInv, ShownTypes, Shown!Directory, Shown!Idle, Shown!Working
<1>3. Asks'
  BY <1>1 DEF ProjectionInv, Asks
<1>4. Shown!AnswerCovers'
  <2> SUFFICES ASSUME NEW q \in Requests, answers'[q] # None, answers'[q].ok
               PROVE  answers'[q].rev >= asked[q]
    BY <1>1 DEF Shown!AnswerCovers
  <2>1. CASE q \in serving
    <3>1. answers'[q] = [ok |-> pc = "done", rev |-> rev]
      BY <1>1, <2>1
    <3>2. pc = "done"
      <4> SUFFICES ASSUME pc # "done" PROVE FALSE
        OBVIOUS
      <4>1. (pc = "done") = FALSE
        OBVIOUS
      <4>2. answers'[q] = [ok |-> FALSE, rev |-> rev]
        BY <3>1, <4>1
      <4> QED BY <4>2
    <3>3. asked[q] <= rev /\ asked[q] # None
      BY <2>1, <3>2 DEF ProjectionInv, Asks
    <3> QED BY <3>1, <3>3 DEF ProjectionInv, ShownTypes
  <2>2. CASE q \notin serving
    BY <1>1, <2>2 DEF ProjectionInv, Shown!AnswerCovers
  <2> QED BY <2>1, <2>2
<1>5. Built'
  BY <1>1 DEF ProjectionInv, Built, WholeAt
<1>6. Traced'
  BY <1>1 DEF ProjectionInv, Traced, Held, Quiet, Shown!HasGit
<1> QED BY <1>2, <1>3, <1>4, <1>5, <1>6 DEF ProjectionInv

LEMMA ShownList ==
  ASSUME ProjectionInv, Shown!List
  PROVE  ProjectionInv'
<1>1. /\ pc = "list" /\ pc' = "stage" /\ rev' = ledger /\ Apart
      /\ UNCHANGED <<root, staging, previous, failures, commits>>
  BY DEF Shown!List, Shown!Goes, Shown!Rest, Shown!requests, Shown!files, Apart
<1>2. ShownTypes'
  BY <1>1 DEF ProjectionInv, ShownTypes, Shown!Directory, Shown!Idle, Shown!Working, Apart
<1>3. Asks' /\ Shown!AnswerCovers'
  BY <1>1 DEF ProjectionInv, ShownTypes, Asks, Shown!AnswerCovers, Apart
<1>4. Built'
  BY <1>1 DEF ProjectionInv, Built, WholeAt, Apart
<1>5. Traced'
  BY <1>1 DEF ProjectionInv, Traced, Held, Quiet, Shown!HasGit, Apart
<1> QED BY <1>2, <1>3, <1>4, <1>5 DEF ProjectionInv

LEMMA ShownStage ==
  ASSUME ProjectionInv, Shown!Stage
  PROVE  ProjectionInv'
<1>1. /\ pc = "stage" /\ pc' = "files" /\ Apart
      /\ staging' = [manifest |-> None, files |-> {}, git |-> None]
      /\ UNCHANGED <<rev, root, previous, failures, commits>>
  BY DEF Shown!Stage, Shown!Goes, Shown!Rest, Shown!requests, Apart
<1>2. staging' \in Shown!Directories /\ staging' # None
  BY <1>1, ShownConstants DEF Shown!Directories
<1>3. ShownTypes'
  BY <1>1, <1>2 DEF ProjectionInv, ShownTypes, Shown!Directory, Shown!Idle, Shown!Working, Apart
<1>4. Asks' /\ Shown!AnswerCovers'
  BY <1>1, AsksStay DEF Apart
<1>5. Built'
  BY <1>1, <1>2 DEF ProjectionInv, Built, WholeAt, Apart
<1>6. Traced'
  BY <1>1 DEF ProjectionInv, Traced, Held, Quiet, Shown!HasGit, Apart
<1> QED BY <1>3, <1>4, <1>5, <1>6 DEF ProjectionInv

LEMMA ShownWriteFile ==
  ASSUME ProjectionInv, Shown!WriteFile
  PROVE  ProjectionInv'
<1>1. /\ pc = "files" /\ Apart
      /\ UNCHANGED <<rev, root, previous, failures, commits>>
  BY DEF Shown!WriteFile, Shown!Rest, Shown!requests, Apart
<1>2. PICK r \in Shown!Unwritten :
        \/ pc' = "failed" /\ UNCHANGED staging
        \/ staging' = [staging EXCEPT !.files = @ \cup {r}] /\ UNCHANGED pc
  BY DEF Shown!WriteFile
<1>3. r \in 1 .. rev /\ r \in Shown!Revisions
  BY <1>2, ShownConstants DEF Shown!Unwritten, Shown!Through, Shown!Revisions, ProjectionInv, ShownTypes
<1>4. /\ staging \in Shown!Directories /\ staging # None /\ staging.git = None
      /\ staging.files \subseteq 1 .. rev
  BY <1>1 DEF ProjectionInv, ShownTypes, Built, Shown!Directory
<1>5. CASE pc' = "failed" /\ UNCHANGED staging
  <2>1. ShownTypes'
    BY <1>1, <1>5 DEF ProjectionInv, ShownTypes, Shown!Directory, Shown!Idle, Shown!Working, Apart
  <2>2. Asks' /\ Shown!AnswerCovers'
    BY <1>1, <1>5, AsksStay DEF Apart
  <2>3. Built' /\ Traced'
    BY <1>1, <1>5 DEF ProjectionInv, Built, WholeAt, Traced, Held, Quiet, Shown!HasGit, Apart
  <2> QED BY <2>1, <2>2, <2>3 DEF ProjectionInv
<1>6. CASE staging' = [staging EXCEPT !.files = @ \cup {r}] /\ UNCHANGED pc
  <2>1. /\ staging' \in Shown!Directories /\ staging'.git = None
        /\ staging'.files \subseteq 1 .. rev
    BY <1>3, <1>4, <1>6 DEF Shown!Directories
  <2>2. ShownTypes'
    BY <1>1, <1>6, <2>1 DEF ProjectionInv, ShownTypes, Shown!Directory, Apart
  <2>3. Asks' /\ Shown!AnswerCovers'
    BY <1>1, <1>6, AsksStay DEF Apart
  <2>4. Built'
    BY <1>1, <1>6, <2>1, ShownConstants DEF ProjectionInv, Built, WholeAt, Apart
  <2>5. Traced'
    BY <1>1, <1>6 DEF ProjectionInv, Traced, Held, Quiet, Shown!HasGit, Apart
  <2> QED BY <2>2, <2>3, <2>4, <2>5 DEF ProjectionInv
<1> QED BY <1>2, <1>5, <1>6

LEMMA ShownWriteManifest ==
  ASSUME ProjectionInv, Shown!WriteManifest
  PROVE  ProjectionInv'
<1>1. /\ pc = "files" /\ pc' = "aside" /\ Apart /\ Shown!Unwritten = {}
      /\ staging' = [staging EXCEPT !.manifest = rev]
      /\ UNCHANGED <<rev, root, previous, failures, commits>>
  BY DEF Shown!WriteManifest, Shown!Goes, Shown!Rest, Shown!requests, Apart
<1>2. /\ staging \in Shown!Directories /\ staging # None /\ staging.git = None
      /\ staging.files = 1 .. rev /\ rev \in 0 .. MaxRevision
  <2>1. /\ staging \in Shown!Directories /\ staging # None /\ staging.git = None
        /\ staging.files \subseteq 1 .. rev
    BY <1>1 DEF ProjectionInv, ShownTypes, Built, Shown!Directory
  <2>2. 1 .. rev \subseteq staging.files
    BY <1>1 DEF Shown!Unwritten, Shown!Through
  <2>3. rev \in 0 .. MaxRevision
    BY ShownConstants DEF ProjectionInv, ShownTypes
  <2> QED BY <2>1, <2>2, <2>3
<1>3. /\ staging' \in Shown!Directories /\ staging' # None /\ staging'.git = None
      /\ staging'.files = 1 .. rev /\ staging'.manifest = rev
  BY <1>1, <1>2, ShownConstants DEF Shown!Directories
<1>4. ShownTypes'
  BY <1>1, <1>3 DEF ProjectionInv, ShownTypes, Shown!Directory, Shown!Idle, Shown!Working, Apart
<1>5. Asks' /\ Shown!AnswerCovers'
  BY <1>1, AsksStay DEF Apart
<1>6. Built'
  BY <1>1, <1>3 DEF ProjectionInv, Built, Staged, WholeAt, Apart
<1>7. Traced'
  BY <1>1 DEF ProjectionInv, Traced, Held, Quiet, Shown!HasGit, Apart
<1> QED BY <1>4, <1>5, <1>6, <1>7 DEF ProjectionInv

LEMMA ShownAside ==
  ASSUME ProjectionInv, Shown!Aside
  PROVE  ProjectionInv'
<1>1. /\ pc = "aside" /\ pc' = "git" /\ Apart /\ root' = None /\ previous' = root
      /\ UNCHANGED <<rev, staging, failures, commits>>
  BY DEF Shown!Aside, Shown!Goes, Shown!Rest, Shown!requests, Apart
<1>2. ShownTypes'
  BY <1>1 DEF ProjectionInv, ShownTypes, Shown!Directory, Shown!Idle, Shown!Working, Apart
<1>3. Asks' /\ Shown!AnswerCovers'
  BY <1>1, AsksStay DEF Apart
<1>4. Built'
  BY <1>1 DEF ProjectionInv, Built, Staged, WholeAt, Apart
<1>5. Traced'
  BY <1>1 DEF ProjectionInv, Traced, Held, Quiet, Shown!HasGit, Apart
<1> QED BY <1>2, <1>3, <1>4, <1>5 DEF ProjectionInv

LEMMA ShownMoveGit ==
  ASSUME ProjectionInv, Shown!MoveGit
  PROVE  ProjectionInv'
<1>1. /\ pc = "git" /\ pc' = "place" /\ Apart
      /\ UNCHANGED <<rev, root, failures, commits>>
  BY DEF Shown!MoveGit, Shown!Goes, Shown!Rest, Shown!requests, Apart
<1>2. Asks' /\ Shown!AnswerCovers'
  BY <1>1, AsksStay DEF Apart
<1>3. /\ staging \in Shown!Directories /\ staging # None /\ staging.git = None /\ root = None
      /\ staging.manifest = rev /\ staging.files = 1 .. rev
      /\ previous \in Shown!Directories \cup {None}
  BY <1>1 DEF ProjectionInv, ShownTypes, Built, Staged, Shown!Directory
<1>4. CASE Shown!HasGit(previous)
  <2>1. /\ staging' = [staging EXCEPT !.git = previous.git]
        /\ previous' = [previous EXCEPT !.git = None]
    BY <1>4 DEF Shown!MoveGit
  <2>2. previous \in Shown!Directories /\ previous.git \in Shown!Repository /\ previous.git # None
    BY <1>3, <1>4 DEF Shown!HasGit, Shown!Directories
  <2>3. /\ staging' \in Shown!Directories /\ staging' # None /\ staging'.git = previous.git
        /\ staging'.manifest = rev /\ staging'.files = 1 .. rev
    BY <1>3, <2>1, <2>2, ShownConstants DEF Shown!Directories
  <2>4. /\ previous' \in Shown!Directories /\ previous' # None /\ previous'.git = None
        /\ previous'.manifest = previous.manifest /\ previous'.files = previous.files
    BY <2>1, <2>2, ShownConstants DEF Shown!Directories
  <2>5. ShownTypes'
    BY <1>1, <2>3, <2>4 DEF ProjectionInv, ShownTypes, Shown!Directory, Shown!Idle, Shown!Working, Apart
  <2>6. Built'
    BY <1>1, <1>3, <2>2, <2>3, <2>4, ShownConstants
       DEF ProjectionInv, Built, Staged, WholeAt, Shown!HasGit, Apart
  <2>7. Traced'
    BY <1>1, <1>4, <2>2, <2>3, <2>4 DEF ProjectionInv, Traced, Held, Quiet, Shown!HasGit, Apart
  <2> QED BY <1>2, <2>5, <2>6, <2>7 DEF ProjectionInv
<1>5. CASE ~Shown!HasGit(previous)
  <2>1. UNCHANGED <<staging, previous>>
    BY <1>5 DEF Shown!MoveGit
  <2>2. ShownTypes'
    BY <1>1, <2>1 DEF ProjectionInv, ShownTypes, Shown!Directory, Shown!Idle, Shown!Working, Apart
  <2>3. Built'
    BY <1>1, <1>3, <2>1 DEF ProjectionInv, Built, Staged, WholeAt, Shown!HasGit, Apart
  <2>4. Traced'
    BY <1>1, <1>3, <1>5, <2>1 DEF ProjectionInv, Traced, Held, Quiet, Shown!HasGit, Apart
  <2> QED BY <1>2, <2>2, <2>3, <2>4 DEF ProjectionInv
<1> QED BY <1>4, <1>5

LEMMA ShownPlace ==
  ASSUME ProjectionInv, Shown!Place
  PROVE  ProjectionInv'
<1>1. /\ pc = "place" /\ pc' = "clean" /\ Apart /\ root' = staging /\ staging' = None
      /\ UNCHANGED <<rev, previous, failures, commits>>
  BY DEF Shown!Place, Shown!Goes, Shown!Rest, Shown!requests, Apart
<1>2. ShownTypes'
  BY <1>1 DEF ProjectionInv, ShownTypes, Shown!Directory, Shown!Idle, Shown!Working, Apart
<1>3. Asks' /\ Shown!AnswerCovers'
  BY <1>1, AsksStay DEF Apart
<1>4. Built'
  BY <1>1 DEF ProjectionInv, ShownTypes, Built, Staged, WholeAt, Apart
<1>5. Traced'
  BY <1>1 DEF ProjectionInv, Traced, Held, Quiet, Shown!HasGit, Apart
<1> QED BY <1>2, <1>3, <1>4, <1>5 DEF ProjectionInv

LEMMA ShownUndo ==
  ASSUME ProjectionInv, Shown!Undo
  PROVE  ProjectionInv'
<1>1. /\ pc = "undo" /\ pc' = "failed" /\ Apart /\ previous' = None
      /\ root' = IF Shown!HasGit(staging) THEN [previous EXCEPT !.git = staging.git] ELSE previous
      /\ staging' = [staging EXCEPT !.git = None]
      /\ UNCHANGED <<rev, failures, commits>>
  BY DEF Shown!Undo, Shown!Goes, Shown!Rest, Shown!requests, Apart
<1>2. Asks' /\ Shown!AnswerCovers'
  BY <1>1, AsksStay DEF Apart
<1>3. /\ staging \in Shown!Directories /\ staging # None
      /\ previous \in Shown!Directories \cup {None} /\ WholeAt(previous, ledger)
      /\ Shown!HasGit(staging) => previous # None
  BY <1>1 DEF ProjectionInv, ShownTypes, Built, Staged, Shown!Directory
<1>4. staging' \in Shown!Directories
  BY <1>1, <1>3 DEF Shown!Directories
<1>5. CASE Shown!HasGit(staging)
  <2>1. /\ staging.git \in Shown!Repository /\ staging.git # None
        /\ previous \in Shown!Directories /\ previous # None
    BY <1>3, <1>5 DEF Shown!HasGit, Shown!Directories
  <2>2. /\ root' \in Shown!Directories /\ root' # None /\ root'.git = staging.git
        /\ root'.manifest = previous.manifest /\ root'.files = previous.files
    BY <1>1, <1>5, <2>1, ShownConstants DEF Shown!Directories
  <2>3. ShownTypes'
    BY <1>1, <1>4, <2>2 DEF ProjectionInv, ShownTypes, Shown!Directory, Shown!Idle, Shown!Working, Apart
  <2>4. Built'
    BY <1>1, <1>3, <2>1, <2>2 DEF ProjectionInv, Built, WholeAt, Apart
  <2>5. Traced'
    BY <1>1, <1>5, <2>1, <2>2 DEF ProjectionInv, Traced, Held, Quiet, Shown!HasGit, Apart
  <2> QED BY <1>2, <2>3, <2>4, <2>5 DEF ProjectionInv
<1>6. CASE ~Shown!HasGit(staging)
  <2>1. root' = previous
    BY <1>1, <1>6
  <2>2. ShownTypes'
    BY <1>1, <1>4, <2>1 DEF ProjectionInv, ShownTypes, Shown!Directory, Shown!Idle, Shown!Working, Apart
  <2>3. Built'
    BY <1>1, <1>3, <2>1 DEF ProjectionInv, Built, WholeAt, Apart
  <2>4. Traced'
    BY <1>1, <1>6, <2>1 DEF ProjectionInv, Traced, Held, Quiet, Shown!HasGit, Apart
  <2> QED BY <1>2, <2>2, <2>3, <2>4 DEF ProjectionInv
<1> QED BY <1>5, <1>6

LEMMA ShownClean ==
  ASSUME ProjectionInv, Shown!Clean
  PROVE  ProjectionInv'
<1>1. /\ pc = "clean" /\ pc' = (IF UseGit THEN "add" ELSE "done") /\ Apart /\ previous' = None
      /\ UNCHANGED <<rev, root, staging, failures, commits>>
  BY DEF Shown!Clean, Shown!Goes, Shown!Rest, Shown!requests, Apart
<1>2. ShownTypes'
  BY <1>1 DEF ProjectionInv, ShownTypes, Shown!Directory, Shown!Idle, Shown!Working, Apart
<1>3. Asks' /\ Shown!AnswerCovers'
  BY <1>1, AsksStay DEF Apart
<1>4. Built'
  BY <1>1 DEF ProjectionInv, Built, WholeAt, Apart
<1>5. Traced'
  BY <1>1 DEF ProjectionInv, Traced, Held, Quiet, Shown!HasGit, Apart
<1> QED BY <1>2, <1>3, <1>4, <1>5 DEF ProjectionInv

-----------------------------------------------------------------------------
(* The repository, and the faults *)

LEMMA RepoIs ==
  ASSUME ShownTypes, root # None
  PROVE  /\ root \in Shown!Directories
         /\ Shown!Repo \in Shown!Repository /\ Shown!Repo # None
         /\ Shown!HasGit(root) => Shown!Repo = root.git
         /\ (Held(root) <=> Shown!Repo.log = commits)
<1>1. root \in Shown!Directories
  BY DEF ShownTypes, Shown!Directory
<1>2. CASE Shown!HasGit(root)
  BY <1>1, <1>2 DEF Shown!HasGit, Shown!Repo, Shown!Directories, Held
<1>3. CASE ~Shown!HasGit(root)
  <2>1. <<>> \in Seq(0 .. MaxRevision)
    BY EmptySeq
  <2>2. Shown!Repo = [log |-> <<>>, locked |-> FALSE]
    BY <1>3 DEF Shown!Repo
  <2>3. Shown!Repo \in Shown!Repository
    BY <2>1, <2>2 DEF Shown!Repository
  <2>4. Shown!Repo.log = <<>>
    BY <2>2
  <2> QED BY <1>1, <1>3, <2>3, <2>4, ShownConstants DEF Held
<1> QED BY <1>2, <1>3

(* Another repository in the same directory *)
LEMMA NewRepo ==
  ASSUME ShownTypes, root # None, NEW g \in Shown!Repository, root' = [root EXCEPT !.git = g]
  PROVE  /\ root' \in Shown!Directories /\ root' # None /\ root'.git = g /\ g # None
         /\ root'.manifest = root.manifest /\ root'.files = root.files
         /\ Shown!HasGit(root)'
         /\ (Held(root)' <=> g.log = commits')
<1>1. root \in Shown!Directories
  BY RepoIs
<1>2. /\ root' \in Shown!Directories /\ root'.git = g
      /\ root'.manifest = root.manifest /\ root'.files = root.files
  BY <1>1 DEF Shown!Directories
<1> QED BY <1>1, <1>2, ShownConstants DEF Shown!HasGit, Held

LEMMA Appended ==
  ASSUME NEW s \in Seq(0 .. MaxRevision), ShownTypes
  PROVE  Append(s, rev) \in Seq(0 .. MaxRevision) /\ Append(s, rev) # s
<1>1. rev \in 0 .. MaxRevision
  BY ShownConstants DEF ShownTypes
<1>2. Append(s, rev) \in Seq(0 .. MaxRevision) /\ Len(Append(s, rev)) = Len(s) + 1 /\ Len(s) \in Nat
  BY <1>1, AppendProperties, LenProperties
<1> QED BY <1>2

LEMMA ShownAdd ==
  ASSUME ProjectionInv, Shown!Add
  PROVE  ProjectionInv'
<1>1. /\ pc = "add" /\ pc' \in {"failed", "commit"} /\ Apart
      /\ root' = [root EXCEPT !.git = Shown!Repo]
      /\ UNCHANGED <<rev, staging, previous, failures, commits>>
  BY DEF Shown!Add, Shown!Rest, Shown!requests, Apart
<1>2. Asks' /\ Shown!AnswerCovers'
  BY <1>1, AsksStay DEF Apart
<1>3. ShownTypes /\ root # None /\ WholeAt(root, ledger) /\ previous = None
  BY <1>1 DEF ProjectionInv, Built
<1>4. /\ root' \in Shown!Directories /\ root' # None
      /\ root'.manifest = root.manifest /\ root'.files = root.files
      /\ Shown!HasGit(root)'
      /\ (Held(root)' <=> Shown!Repo.log = commits)
      /\ (Held(root) <=> Shown!Repo.log = commits)
  BY <1>1, <1>3, RepoIs, NewRepo
<1>5. ShownTypes'
  BY <1>1, <1>4 DEF ProjectionInv, ShownTypes, Shown!Directory, Shown!Idle, Shown!Working, Apart
<1>6. Built'
  BY <1>1, <1>3, <1>4 DEF ProjectionInv, Built, WholeAt, Apart
<1>7. Traced'
  BY <1>1, <1>4 DEF ProjectionInv, Traced, Quiet, Apart
<1> QED BY <1>2, <1>5, <1>6, <1>7 DEF ProjectionInv

LEMMA ShownCommit ==
  ASSUME ProjectionInv, Shown!Commit
  PROVE  ProjectionInv'
<1>1. /\ pc = "commit" /\ pc' = "done" /\ Apart
      /\ UNCHANGED <<rev, staging, previous, failures>>
  BY DEF Shown!Commit, Shown!Goes, Shown!Rest, Shown!requests, Apart
<1>2. Asks' /\ Shown!AnswerCovers'
  BY <1>1, AsksStay DEF Apart
<1>3. ShownTypes /\ root # None /\ WholeAt(root, ledger) /\ previous = None /\ Shown!HasGit(root)
  BY <1>1 DEF ProjectionInv, Built
<1>4. CASE Shown!Differs
  <2> DEFINE g == [root.git EXCEPT !.log = Append(@, rev)]
  <2>1. /\ root' = [root EXCEPT !.git.log = Append(@, rev)] /\ commits' = Append(commits, rev)
    BY <1>4 DEF Shown!Commit
  <2>2. /\ root.git \in Shown!Repository /\ commits \in Seq(0 .. MaxRevision)
        /\ (Held(root) <=> root.git.log = commits)
    BY <1>3, RepoIs DEF ShownTypes
  <2>3. g \in Shown!Repository /\ g.log = Append(root.git.log, rev)
    <3>1. root.git.log \in Seq(0 .. MaxRevision)
      BY <2>2 DEF Shown!Repository
    <3> QED BY <1>3, <2>2, <3>1, Appended DEF Shown!Repository
  <2>4. root' = [root EXCEPT !.git = g]
    BY <1>3, <2>1, RepoIs DEF Shown!Directories
  <2>5. commits' \in Seq(0 .. MaxRevision)
    BY <1>3, <2>1, <2>2, Appended
  <2> HIDE DEF g
  <2>6. /\ root' \in Shown!Directories /\ root' # None
        /\ root'.manifest = root.manifest /\ root'.files = root.files
        /\ (Held(root)' <=> g.log = commits')
    BY <1>3, <2>3, <2>4, NewRepo
  <2>7. ShownTypes'
    BY <1>1, <2>5, <2>6 DEF ProjectionInv, ShownTypes, Shown!Directory, Shown!Idle, Shown!Working, Apart
  <2>8. Built'
    BY <1>1, <1>3, <2>6 DEF ProjectionInv, Built, WholeAt, Apart
  <2>9. Held(root) => Held(root)'
    BY <2>1, <2>2, <2>3, <2>6
  <2>10. Traced'
    BY <1>1, <2>9 DEF ProjectionInv, Traced, Quiet, Apart
  <2> QED BY <1>2, <2>7, <2>8, <2>10 DEF ProjectionInv
<1>5. CASE ~Shown!Differs
  <2>1. UNCHANGED <<root, commits>>
    BY <1>5 DEF Shown!Commit
  <2>2. ShownTypes' /\ Built'
    BY <1>1, <2>1 DEF ProjectionInv, ShownTypes, Shown!Directory, Shown!Idle, Shown!Working, Built, WholeAt, Apart
  <2>3. Traced'
    BY <1>1, <2>1 DEF ProjectionInv, Traced, Quiet, Held, Shown!HasGit, Apart
  <2> QED BY <1>2, <2>2, <2>3 DEF ProjectionInv
<1> QED BY <1>4, <1>5

LEMMA ShownOperationFails ==
  ASSUME ProjectionInv, Shown!OperationFails
  PROVE  ProjectionInv'
<1>1. /\ failures' = failures + 1 /\ Apart
      /\ \/ pc \in {"list", "stage", "files", "aside", "clean"} /\ pc' = "failed"
         \/ pc \in {"git", "place"} /\ pc' = "undo"
      /\ UNCHANGED <<rev, root, staging, previous, commits>>
  BY DEF Shown!OperationFails, Shown!Fault, Shown!requests, Shown!files, Apart
<1>2. Asks' /\ Shown!AnswerCovers'
  BY <1>1, AsksStay DEF Apart
<1>3. ShownTypes' /\ failures \in Nat
  BY <1>1 DEF ProjectionInv, ShownTypes, Shown!Directory, Shown!Idle, Shown!Working, Apart
<1>4. Built'
  BY <1>1 DEF ProjectionInv, Built, Staged, WholeAt, Shown!HasGit, Apart
<1>5. Traced'
  <2> SUFFICES ASSUME Quiet' PROVE Traced'
    BY DEF Traced
  <2>1. Quiet /\ failures = 0 /\ failures' = 1
    BY <1>1, <1>3 DEF Quiet, Apart
  <2>2. CASE pc \in {"list", "stage", "files", "aside", "clean"} /\ pc' = "failed"
    BY <1>1, <2>1, <2>2 DEF ProjectionInv, Traced, Held, Shown!HasGit
  <2>3. CASE pc = "git" /\ pc' = "undo"
    BY <1>1, <2>1, <2>3 DEF ProjectionInv, Built, Traced, Held, Shown!HasGit
  <2>4. CASE pc = "place" /\ pc' = "undo"
    BY <1>1, <2>1, <2>4 DEF ProjectionInv, Traced, Held, Shown!HasGit
  <2> QED BY <1>1, <2>2, <2>3, <2>4
<1> QED BY <1>2, <1>3, <1>4, <1>5 DEF ProjectionInv

LEMMA ShownUndoFails ==
  ASSUME ProjectionInv, Shown!UndoFails
  PROVE  ProjectionInv'
<1>1. /\ failures' = failures + 1 /\ Apart /\ pc = "undo" /\ pc' = "failed"
      /\ UNCHANGED <<rev, root, staging, previous, commits>>
  BY DEF Shown!UndoFails, Shown!Fault, Shown!requests, Shown!files, Apart
<1>2. Asks' /\ Shown!AnswerCovers'
  BY <1>1, AsksStay DEF Apart
<1>3. ShownTypes' /\ failures \in Nat
  BY <1>1 DEF ProjectionInv, ShownTypes, Shown!Directory, Shown!Idle, Shown!Working, Apart
<1>4. Built'
  BY <1>1 DEF ProjectionInv, Built, Staged, WholeAt, Shown!HasGit, Apart
<1>5. Traced'
  BY <1>1, <1>3 DEF ProjectionInv, Traced, Quiet, Apart
<1> QED BY <1>2, <1>3, <1>4, <1>5 DEF ProjectionInv

LEMMA ShownGitKilled ==
  ASSUME ProjectionInv, Shown!GitKilled
  PROVE  ProjectionInv'
<1>1. /\ failures' = failures + 1 /\ Apart /\ pc \in {"add", "commit"} /\ pc' = "failed"
      /\ UNCHANGED <<rev, staging, previous>>
  BY DEF Shown!GitKilled, Shown!Fault, Shown!requests, Apart
<1>2. Asks' /\ Shown!AnswerCovers'
  BY <1>1, AsksStay DEF Apart
<1>3. /\ ShownTypes /\ root # None /\ WholeAt(root, ledger) /\ previous = None
      /\ commits \in Seq(0 .. MaxRevision)
  BY <1>1 DEF ProjectionInv, Built, ShownTypes
<1>4. PICK log, locked :
        /\ log = Shown!Repo.log \/ log = Append(Shown!Repo.log, rev)
        /\ locked \in BOOLEAN
        /\ root' = [root EXCEPT !.git = [log |-> log, locked |-> Shown!Repo.locked \/ locked]]
        /\ commits' = IF log = Shown!Repo.log THEN commits ELSE Append(commits, rev)
  <2>1. PICK locked, made \in BOOLEAN :
          LET log == IF made /\ pc = "commit" /\ Shown!Differs THEN Append(Shown!Repo.log, rev)
                     ELSE Shown!Repo.log
          IN  /\ root' = [root EXCEPT !.git = [log |-> log, locked |-> Shown!Repo.locked \/ locked]]
              /\ commits' = IF log = Shown!Repo.log THEN commits ELSE Append(commits, rev)
    BY DEF Shown!GitKilled
  <2> DEFINE log == IF made /\ pc = "commit" /\ Shown!Differs THEN Append(Shown!Repo.log, rev)
                    ELSE Shown!Repo.log
  <2>2. log = Shown!Repo.log \/ log = Append(Shown!Repo.log, rev)
    OBVIOUS
  <2> QED BY <2>1, <2>2
<1> DEFINE g == [log |-> log, locked |-> Shown!Repo.locked \/ locked]
<1>5. Shown!Repo \in Shown!Repository /\ (Held(root) <=> Shown!Repo.log = commits)
  BY <1>3, RepoIs
<1>6. Shown!Repo.log \in Seq(0 .. MaxRevision)
  BY <1>5 DEF Shown!Repository
<1>7. log \in Seq(0 .. MaxRevision) /\ commits' \in Seq(0 .. MaxRevision)
  BY <1>3, <1>4, <1>6, Appended
<1>8. g \in Shown!Repository
  BY <1>7 DEF Shown!Repository
<1>9. g.log = log /\ root' = [root EXCEPT !.git = g]
  BY <1>4
<1> HIDE DEF g
<1>10. /\ root' \in Shown!Directories /\ root' # None
       /\ root'.manifest = root.manifest /\ root'.files = root.files
       /\ (Held(root)' <=> g.log = commits')
  BY <1>3, <1>8, <1>9, NewRepo
<1>11. ShownTypes'
  BY <1>1, <1>7, <1>10 DEF ProjectionInv, ShownTypes, Shown!Directory, Shown!Idle, Shown!Working, Apart
<1>12. Built'
  BY <1>1, <1>3, <1>10 DEF ProjectionInv, Built, WholeAt, Apart
<1>13. Held(root) => Held(root)'
  <2> SUFFICES ASSUME Shown!Repo.log = commits PROVE log = commits'
    BY <1>5, <1>9, <1>10
  <2> QED BY <1>4
<1>14. Traced'
  BY <1>1, <1>3, <1>13 DEF ProjectionInv, ShownTypes, Traced, Quiet, Apart
<1> QED BY <1>2, <1>11, <1>12, <1>14 DEF ProjectionInv

LEMMA ShownCrash ==
  ASSUME ProjectionInv, Shown!Crash
  PROVE  ProjectionInv'
<1>1. /\ pc' = "off" /\ dirty' = FALSE /\ waiting' = {} /\ serving' = {} /\ crashes' = crashes + 1
      /\ answers' = [q \in Requests |-> IF q \in waiting \cup serving THEN [ok |-> FALSE, rev |-> 0]
                                        ELSE answers[q]]
      /\ staging' = None /\ previous' = None
      /\ UNCHANGED <<ledger, purged, asked, rev, failures, commits>>
  BY DEF Shown!Crash
<1>2. PICK locked \in BOOLEAN :
        root' = IF pc \in {"add", "commit"} /\ locked
                THEN [root EXCEPT !.git = [Shown!Repo EXCEPT !.locked = TRUE]] ELSE root
  BY DEF Shown!Crash
<1>3. ShownTypes
  BY DEF ProjectionInv
<1>4. Asks'
  BY <1>1 DEF ProjectionInv, Asks
<1>5. Shown!AnswerCovers'
  <2> SUFFICES ASSUME NEW q \in Requests, answers'[q] # None, answers'[q].ok
               PROVE  answers'[q].rev >= asked[q]
    BY <1>1 DEF Shown!AnswerCovers
  <2>1. CASE q \in waiting \cup serving
    <3>1. answers'[q] = [ok |-> FALSE, rev |-> 0]
      BY <1>1, <2>1
    <3> QED BY <3>1
  <2>2. CASE q \notin waiting \cup serving
    BY <1>1, <2>2 DEF ProjectionInv, Shown!AnswerCovers
  <2> QED BY <2>1, <2>2
<1>6. root' \in Shown!Directories \cup {None} /\ WholeAt(root', ledger)
  <2>1. CASE root' = root
    BY <2>1 DEF ProjectionInv, ShownTypes, Built, Shown!Directory
  <2>2. CASE root' # root
    <3> DEFINE g == [Shown!Repo EXCEPT !.locked = TRUE]
    <3>1. pc \in {"add", "commit"} /\ root' = [root EXCEPT !.git = g]
      BY <1>2, <2>2
    <3>2. root # None /\ WholeAt(root, ledger)
      BY <3>1 DEF ProjectionInv, Built
    <3>3. g \in Shown!Repository
      BY <1>3, <3>2, RepoIs DEF Shown!Repository
    <3> HIDE DEF g
    <3>4. /\ root' \in Shown!Directories /\ root'.manifest = root.manifest /\ root'.files = root.files
      BY <1>3, <3>1, <3>2, <3>3, NewRepo
    <3> QED BY <3>2, <3>4 DEF WholeAt
  <2> QED BY <2>1, <2>2
<1>7. ShownTypes'
  <2>1. crashes' \in Nat
    BY <1>1, <1>3 DEF ShownTypes
  <2>2. Shown!Directory(staging)' /\ Shown!Directory(previous)' /\ Shown!Directory(root)'
    BY <1>1, <1>6 DEF Shown!Directory
  <2> QED BY <1>1, <1>3, <2>1, <2>2 DEF ShownTypes, Shown!Idle
<1>8. Built'
  BY <1>1, <1>6 DEF Built, WholeAt
<1>9. Traced'
  BY <1>1, <1>3 DEF ShownTypes, Traced, Quiet
<1> QED BY <1>4, <1>5, <1>7, <1>8, <1>9 DEF ProjectionInv

LEMMA ShownStep ==
  ASSUME ProjectionInv, [Shown!Next]_(Shown!vars)
  PROVE  ProjectionInv'
<1>1. CASE Shown!Apply \/ \E r \in Shown!Revisions : Shown!Purge(r)
  BY <1>1, ShownLedger
<1>2. CASE \E q \in Requests : Shown!Project(q)
  BY <1>2, ShownRequest
<1>3. CASE Shown!Step
  <2>1. CASE Shown!Ends BY <2>1, ShownEnds
  <2>2. CASE Shown!List BY <2>2, ShownList
  <2>3. CASE Shown!Stage BY <2>3, ShownStage
  <2>4. CASE Shown!WriteFile BY <2>4, ShownWriteFile
  <2>5. CASE Shown!WriteManifest BY <2>5, ShownWriteManifest
  <2>6. CASE Shown!Aside BY <2>6, ShownAside
  <2>7. CASE Shown!MoveGit BY <2>7, ShownMoveGit
  <2>8. CASE Shown!Place BY <2>8, ShownPlace
  <2>9. CASE Shown!Undo BY <2>9, ShownUndo
  <2>10. CASE Shown!Clean BY <2>10, ShownClean
  <2>11. CASE Shown!Add BY <2>11, ShownAdd
  <2>12. CASE Shown!Commit BY <2>12, ShownCommit
  <2> QED BY <1>3, <2>1, <2>2, <2>3, <2>4, <2>5, <2>6, <2>7, <2>8, <2>9, <2>10, <2>11, <2>12 DEF Shown!Step
<1>4. CASE Shown!OperationFails
  BY <1>4, ShownOperationFails
<1>5. CASE Shown!UndoFails
  BY <1>5, ShownUndoFails
<1>6. CASE Shown!GitKilled
  BY <1>6, ShownGitKilled
<1>7. CASE Shown!Crash
  BY <1>7, ShownCrash
<1>8. CASE UNCHANGED Shown!vars
  <2>1. /\ UNCHANGED <<ledger, asked, answers, dirty, waiting, serving, pc, rev>>
        /\ UNCHANGED <<root, staging, previous, failures, crashes, commits>>
    BY <1>8 DEF Shown!vars
  <2>2. ShownTypes' /\ Asks' /\ Shown!AnswerCovers'
    BY <2>1 DEF ProjectionInv, ShownTypes, Asks, Shown!AnswerCovers, Shown!Directory
  <2>3. Built' /\ Traced'
    BY <2>1 DEF ProjectionInv, Built, WholeAt, Staged, Traced, Quiet, Held, Shown!HasGit
  <2> QED BY <2>2, <2>3 DEF ProjectionInv
<1> QED BY <1>1, <1>2, <1>3, <1>4, <1>5, <1>6, <1>7, <1>8 DEF Shown!Next

(* Projection: a reader of the projection directory sees it absent or      *)
(* whole at every step of every snapshot, failure and crash, and whoever   *)
(* is told that the projection succeeded finds everything in it that was   *)
(* applied before the request, although requests share snapshots.          *)
THEOREM ReaderSeesWhole == Shown!Spec => []Readable
<1>1. ProjectionInv => Readable
  BY DEF ProjectionInv, Built, WholeAt, Readable, Shown!Readable, Shown!RootWhole
<1> QED BY <1>1, ShownStart, ShownStep, PTL DEF Shown!Spec

(* Projection: while no more than one operation of the server failed and   *)
(* it did not stop, no commit is lost.                                     *)
THEOREM CommitsKept == Shown!Spec => []HistoryKept
<1>1. ProjectionInv => HistoryKept
  BY DEF ProjectionInv, Traced, Quiet, Held, HistoryKept, Shown!HistoryKept
<1> QED BY <1>1, ShownStart, ShownStep, PTL DEF Shown!Spec

-----------------------------------------------------------------------------
(* Blobs *)

(* Who takes which steps, and for which blob *)
Uploading == {"stage", "insert", "promote", "unstage", "verify"}
Role(p) ==
  /\ proc[p].step \in Uploading => p \in Ids
  /\ At(p, "look") => p \in Deleters
  /\ At(p, "expire") => p = Purger
  /\ proc[p].step \in {"recheck", "check", "reject"} => p \in Callers
  /\ p \in Ids => proc[p].id = p
  /\ p \in Deleters /\ ~At(p, "idle") => proc[p].id \in did \cap Ids
  /\ At(p, "remove") => proc[p].doomed # <<>>
  /\ p \in Callers => proc[p].then \in {"done", "reject"}
  /\ p = Purger => proc[p].then # "reject"
  /\ p \in Callers /\ At(p, "idle") => proc[p].answer = "none"

Roles == \A p \in Actors : Role(p)

(* An upload that has not come to its COMMIT *)
Early(b) == proc[b].step \in {"idle", "commit"} \cup Uploading

(* The open transaction: what it inserted and deleted so far *)
Open ==
  /\ tx.put # {} => tx.put = {tx.of} /\ tx.of \in Ids
  /\ tx.put # {} /\ ~tx.doubt => proc[tx.of].step \in {"promote", "unstage", "verify", "commit"}
  /\ tx.put # {} /\ tx.doubt =>
       /\ proc[tx.of].step \in {"recheck", "done", "gone"} /\ proc[tx.of].then = "done"
       /\ proc[tx.of].answer \in {"none", "unavailable"} /\ tx.of \notin rejected
  /\ \A d \in Deleters : Sql(d) /\ At(d, "commit") => tx.del = {proc[d].id}
  /\ \A b \in Ids : tx.doubt /\ tx.of = b => ~Early(b)

Before ==
  \A b \in Ids :
    /\ Early(b) => /\ proc[b].then = "done" /\ proc[b].answer = "none"
                   /\ b \notin rejected /\ b \notin did
    /\ b \in tx.put => b \notin did
    /\ b \in rows => b \in did
    /\ proc[b].answer = "ok" => b \in did

(* Nothing is known yet of an upload that has not begun. *)
Unborn(b) ==
  /\ tx.of # b
  /\ \A ref \in Refs({b}) :
       /\ ref \notin objects
       /\ \A c \in late : ref \notin c.add \cup c.sub
       /\ \A p \in Actors : ref \notin proc[p].refs /\ (At(p, "remove") => proc[p].doomed # ref)

(* The bytes of a blob that is stored, or may come to be, are not about to *)
(* be removed.                                                             *)
Threat(b) ==
  \/ \E p \in Actors : At(p, "remove") /\ proc[p].doomed = <<b, "final">>
  \/ \E c \in late : <<b, "final">> \in c.sub
Alive(b) ==
  \/ b \in rows
  \/ Sql(b) /\ Early(b)
  \/ tx.doubt /\ b \in tx.put
Spares == \A b \in Ids : (At(b, "idle") => Unborn(b)) /\ (Alive(b) => ~Threat(b))

(* What is about to commit has its bytes. *)
Ready ==
  \A b \in Ids : b \in tx.put /\ (tx.doubt \/ At(b, "commit")) => <<b, "final">> \in objects

(* An upload that was refused, or is about to be *)
Refused(b) == proc[b].answer = "error" \/ proc[b].then = "reject" \/ At(b, "reject") \/ b \in rejected
Refusals == \A b \in Ids : Refused(b) => b \notin rows \cup tx.put
Deletions == \A d \in Deleters : proc[d].answer \in {"ok", "missing"} => proc[d].id \notin rows

BlobInv ==
  /\ TypeOK /\ Roles /\ Open /\ Before /\ Spares /\ Ready /\ Stored /\ Refusals /\ Deletions
-----------------------------------------------------------------------------
(* The types of Blobs *)

Steps == Waiting \cup Calling \cup {"insert", "verify", "look", "expire", "commit", "check",
                                    "reject", "list", "sweep", "done", "gone"}
Procs ==
  [step : Steps,
   id : Ids \cup {Nobody}, refs : SUBSET Refs(Ids), doomed : Refs(Ids) \cup {<<>>},
   then : {"idle", "scan", "reject", "done"},
   answer : {"none", "ok", "missing", "error", "unavailable"}]
Txs == [of : Actors \cup {Nobody}, put : SUBSET Ids, del : SUBSET Ids, doubt : BOOLEAN]
CallsOfStore == [add : SUBSET Refs(Ids), sub : SUBSET Refs(Ids)]

LEMMA BlobConstants ==
  /\ Ids \subseteq Actors /\ Deleters \subseteq Actors /\ Purger \in Actors /\ Actors = Callers \cup {Purger}
  /\ Ids \subseteq Callers /\ Deleters \subseteq Callers /\ Callers = Ids \cup Deleters
  /\ Ids \cap Deleters = {} /\ Purger \notin Ids /\ Purger \notin Deleters /\ Purger \notin Callers
  /\ Nobody \notin Actors /\ Nobody \notin Ids /\ MaxFaults \in Nat
BY BlobAssumption DEF Actors, Callers

LEMMA NoTxIs ==
  /\ NoTx \in Txs /\ NoTx.of = Nobody /\ NoTx.put = {} /\ NoTx.del = {} /\ NoTx.doubt = FALSE
  /\ \A p \in Actors : LET t == [NoTx EXCEPT !.of = p] IN
       t \in Txs /\ t.of = p /\ t.put = {} /\ t.del = {} /\ t.doubt = FALSE
BY DEF NoTx, Txs

LEMMA FreshIs ==
  ASSUME NEW p \in Actors
  PROVE  /\ Fresh(p) \in Procs /\ Fresh(p).step = "idle" /\ Fresh(p).refs = {} /\ Fresh(p).then = "done"
         /\ Fresh(p).answer = "none" /\ Fresh(p).id = IF p \in Ids THEN p ELSE Nobody
BY DEF Fresh, Procs, Steps, Waiting

(* The ways in which the record of one actor changes *)
Moved(p, w) == proc' = [proc EXCEPT ![p] = w]
Stepped(p, step) == [proc[p] EXCEPT !.step = step]
Answered(p, step, answer) == [proc[p] EXCEPT !.step = step, !.answer = answer]
Sweeping(p, step, refs, then, answer) ==
  [proc[p] EXCEPT !.step = step, !.refs = refs, !.then = then, !.answer = answer]

LEMMA MovedIs ==
  ASSUME proc \in [Actors -> Procs], NEW p \in Actors, NEW w \in Procs, Moved(p, w)
  PROVE  /\ proc' \in [Actors -> Procs] /\ proc'[p] = w
         /\ \A q \in Actors : q # p => proc'[q] = proc[q]
BY DEF Moved

LEMMA Movers ==
  ASSUME proc \in [Actors -> Procs], NEW p \in Actors,
         NEW step, NEW answer, NEW refs, NEW then
  PROVE  /\ Goes(p, step) => Moved(p, Stepped(p, step))
         /\ Answers(p, step, answer) => Moved(p, Answered(p, step, answer))
         /\ Sweeps(p, step, refs, then, answer) => Moved(p, Sweeping(p, step, refs, then, answer))
         /\ Rests(p) => Moved(p, Fresh(p))
BY DEF Goes, Answers, Sweeps, Rests, Moved, Stepped, Answered, Sweeping

LEMMA SteppedIs ==
  ASSUME proc \in [Actors -> Procs], NEW p \in Actors, NEW step \in Steps
  PROVE  LET w == Stepped(p, step) IN
         /\ w \in Procs /\ w.step = step /\ w.id = proc[p].id /\ w.refs = proc[p].refs
         /\ w.doomed = proc[p].doomed /\ w.then = proc[p].then /\ w.answer = proc[p].answer
<1>1. proc[p] \in Procs
  OBVIOUS
<1> QED BY <1>1 DEF Procs, Stepped

LEMMA AnsweredIs ==
  ASSUME proc \in [Actors -> Procs], NEW p \in Actors, NEW step \in Steps,
         NEW answer \in {"none", "ok", "missing", "error", "unavailable"}
  PROVE  LET w == Answered(p, step, answer) IN
         /\ w \in Procs /\ w.step = step /\ w.id = proc[p].id /\ w.refs = proc[p].refs
         /\ w.doomed = proc[p].doomed /\ w.then = proc[p].then /\ w.answer = answer
<1>1. proc[p] \in Procs
  OBVIOUS
<1> QED BY <1>1 DEF Procs, Answered

LEMMA SweepingIs ==
  ASSUME proc \in [Actors -> Procs], NEW p \in Actors, NEW step \in Steps,
         NEW refs \in SUBSET Refs(Ids), NEW then \in {"idle", "scan", "reject", "done"},
         NEW answer \in {"none", "ok", "missing", "error", "unavailable"}
  PROVE  LET w == Sweeping(p, step, refs, then, answer) IN
         /\ w \in Procs /\ w.step = step /\ w.id = proc[p].id /\ w.refs = refs
         /\ w.doomed = proc[p].doomed /\ w.then = then /\ w.answer = answer
<1>1. proc[p] \in Procs
  OBVIOUS
<1> DEFINE v == [proc[p] EXCEPT !.step = step, !.refs = refs]
           u == [v EXCEPT !.then = then, !.answer = answer]
<1>2. /\ v \in Procs /\ v.step = step /\ v.id = proc[p].id /\ v.refs = refs
      /\ v.doomed = proc[p].doomed /\ v.then = proc[p].then /\ v.answer = proc[p].answer
  BY <1>1 DEF Procs
<1>3. Sweeping(p, step, refs, then, answer) = u
  BY DEF Sweeping
<1> HIDE DEF v
<1>4. /\ u \in Procs /\ u.step = v.step /\ u.id = v.id /\ u.refs = v.refs
      /\ u.doomed = v.doomed /\ u.then = then /\ u.answer = answer
  BY <1>2 DEF Procs
<1> HIDE DEF u
<1> QED BY <1>2, <1>3, <1>4

LEMMA RefsIn ==
  ASSUME NEW S \in SUBSET Ids
  PROVE  /\ Refs(S) \in SUBSET Refs(Ids)
         /\ \A b \in Ids : \A ref \in Refs({b}) : ref \in Refs(S) <=> b \in S
         /\ \A b \in Ids : <<b, "final">> \in Refs({b}) /\ <<b, "stage">> \in Refs({b})
BY DEF Refs

(* What a call of the store adds and removes *)
LEMMA CallIs ==
  ASSUME BlobInv, NEW p \in Actors, proc[p].step \in Calling
  PROVE  /\ Call(p) \in CallsOfStore
         /\ ~At(p, "remove") => /\ p \in Ids /\ ~At(p, "idle")
                                /\ Call(p).add \cup Call(p).sub \subseteq Refs({p})
                                /\ <<p, "final">> \notin Call(p).sub
         /\ At(p, "remove") => Call(p).add = {} /\ Call(p).sub = {proc[p].doomed}
<1>1. proc[p] \in Procs
  BY DEF BlobInv, TypeOK, Procs, Steps
<1>2. CASE At(p, "remove")
  <2>1. Call(p) = [add |-> {}, sub |-> {proc[p].doomed}]
    BY <1>2 DEF Call, At
  <2>2. proc[p].doomed \in Refs(Ids)
    BY <1>1, <1>2 DEF BlobInv, Roles, Role, Procs
  <2> QED BY <1>2, <2>1, <2>2 DEF CallsOfStore
<1>3. CASE ~At(p, "remove")
  <2>1. p \in Ids /\ proc[p].id = p
    BY <1>3 DEF BlobInv, Roles, Role, Uploading, Calling, At
  <2>2. /\ {<<p, "stage">>} \subseteq Refs({p}) /\ {<<p, "final">>} \subseteq Refs({p})
        /\ Refs({p}) \subseteq Refs(Ids)
    BY <2>1 DEF Refs
  <2>3. CASE At(p, "stage")
    <3>1. Call(p) = [add |-> {<<p, "stage">>}, sub |-> {}]
      BY <2>1, <2>3 DEF Call, At
    <3> QED BY <1>3, <2>1, <2>2, <2>3, <3>1 DEF CallsOfStore, At
  <2>4. CASE At(p, "promote")
    <3>1. Call(p) = [add |-> {<<p, "final">>}, sub |-> IF Backend = "s3" THEN {} ELSE {<<p, "stage">>}]
      BY <2>1, <2>4 DEF Call, At
    <3>2. PICK s : s = (IF Backend = "s3" THEN {} ELSE {<<p, "stage">>})
      OBVIOUS
    <3>3. s \subseteq Refs({p}) /\ <<p, "final">> \notin s
      BY <2>2, <3>2
    <3>4. Call(p) = [add |-> {<<p, "final">>}, sub |-> s]
      BY <3>1, <3>2
    <3> QED BY <1>3, <2>1, <2>2, <2>4, <3>3, <3>4 DEF CallsOfStore, At
  <2>5. CASE At(p, "unstage")
    <3>1. Call(p) = [add |-> {}, sub |-> {<<p, "stage">>}]
      BY <2>1, <2>5 DEF Call, At
    <3> QED BY <1>3, <2>1, <2>2, <2>5, <3>1 DEF CallsOfStore, At
  <2> QED BY <1>3, <2>3, <2>4, <2>5 DEF Calling, At
<1> QED BY <1>2, <1>3

-----------------------------------------------------------------------------
(* A calm step: one in which nothing is inserted, deleted or committed.    *)
(* Actor p may go on, lose its transaction, and remove what it judged.     *)

CalmStore(p) ==
  /\ \A b \in Ids : <<b, "final">> \in objects /\ <<b, "final">> \notin objects' => Threat(b)
  /\ \A b \in Ids : At(b, "idle") =>
       \A ref \in Refs({b}) :
         /\ ref \in objects' => ref \in objects
         /\ \A c \in late' : c \in late \/ ref \notin c.add \cup c.sub
         /\ ref \notin proc'[p].refs /\ (proc'[p].step = "remove" => proc'[p].doomed # ref)
  /\ \A b \in Ids : Threat(b)' => Threat(b) \/ ~Alive(b)
CalmUpload(p) ==
  p \in Ids =>
    /\ Early(p)' => /\ Early(p) /\ ~At(p, "idle")' /\ p \notin rejected'
                    /\ proc'[p].then = proc[p].then /\ proc'[p].answer = proc[p].answer
    /\ Refused(p)' => Refused(p) \/ p \notin rows \cup tx'.put
    /\ proc'[p].answer = "ok" => p \in did
    /\ p \in tx'.put /\ ~tx.doubt => proc'[p].step \in {"promote", "unstage", "verify", "commit"}
    /\ p \in tx'.put /\ ~tx.doubt /\ At(p, "commit")' => <<p, "final">> \in objects'
    /\ p \in tx'.put /\ tx.doubt => /\ proc'[p].step \in {"recheck", "done", "gone"}
                                    /\ proc'[p].then = "done" /\ p \notin rejected'
                                    /\ proc'[p].answer \in {"none", "unavailable"}
CalmDeletion(p) ==
  p \in Deleters =>
    /\ proc'[p].answer \in {"ok", "missing"} => proc'[p].id \notin rows
    /\ Sql(p)' /\ At(p, "commit")' => tx'.del = {proc'[p].id}
Calm(p) ==
  /\ \A q \in Actors : q # p => proc'[q] = proc[q]
  /\ UNCHANGED <<rows, did>>
  /\ tx' = tx \/ (Sql(p) /\ tx' = NoTx)
  /\ rejected' \subseteq rejected \cup {p}
  /\ Role(p)' /\ CalmStore(p) /\ CalmUpload(p) /\ CalmDeletion(p)

LEMMA CalmKeeps ==
  ASSUME BlobInv, TypeOK', NEW p \in Actors, Calm(p)
  PROVE  BlobInv'
<1> USE DEF At
<1>1. /\ \A q \in Actors : q # p => proc'[q] = proc[q]
      /\ UNCHANGED <<rows, did>> /\ (tx' = tx \/ (Sql(p) /\ tx' = NoTx))
      /\ rejected' \subseteq rejected \cup {p}
      /\ Role(p)' /\ CalmStore(p) /\ CalmUpload(p) /\ CalmDeletion(p)
  BY DEF Calm
<1>2. /\ tx'.put # {} => tx' = tx
      /\ \A q \in Actors : tx'.of = q => tx' = tx
      /\ tx'.doubt => tx' = tx
  BY <1>1, NoTxIs, BlobConstants
<1>3. \A b \in Ids : Alive(b)' => Alive(b)
  BY <1>1, <1>2, BlobConstants DEF Alive, Sql, Early, CalmUpload
<1>4. Roles'
  BY <1>1 DEF BlobInv, Roles, Role
<1>5. Open'
  <2>1. tx'.put # {} => tx'.put = {tx'.of} /\ tx'.of \in Ids
    BY <1>2 DEF BlobInv, Open
  <2>2. tx'.put # {} /\ ~tx'.doubt => proc'[tx'.of].step \in {"promote", "unstage", "verify", "commit"}
    BY <1>1, <1>2, <2>1, BlobConstants DEF BlobInv, Open, CalmUpload
  <2>3. tx'.put # {} /\ tx'.doubt =>
          /\ proc'[tx'.of].step \in {"recheck", "done", "gone"} /\ proc'[tx'.of].then = "done"
          /\ proc'[tx'.of].answer \in {"none", "unavailable"} /\ tx'.of \notin rejected'
    BY <1>1, <1>2, <2>1, BlobConstants DEF BlobInv, Open, CalmUpload
  <2>4. \A d \in Deleters : Sql(d)' /\ At(d, "commit")' => tx'.del = {proc'[d].id}
    BY <1>1, <1>2, BlobConstants DEF BlobInv, Open, CalmDeletion, Sql
  <2>5. \A b \in Ids : tx'.doubt /\ tx'.of = b => ~Early(b)'
    BY <1>1, <1>2, BlobConstants DEF BlobInv, Open, CalmUpload, Early
  <2> QED BY <2>1, <2>2, <2>3, <2>4, <2>5 DEF Open
<1>6. Before'
  BY <1>1, <1>2, BlobConstants DEF BlobInv, Before, CalmUpload, Early
<1>7. \A b \in Ids : At(b, "idle")' => Unborn(b)'
  <2> SUFFICES ASSUME NEW b \in Ids, At(b, "idle")' PROVE Unborn(b)'
    OBVIOUS
  <2>1. b # p /\ proc'[b] = proc[b] /\ At(b, "idle")
    BY <1>1, BlobConstants DEF CalmUpload, Early
  <2>2. Unborn(b)
    BY <2>1 DEF BlobInv, Spares
  <2>3. tx'.of # b
    BY <1>2, <2>2, BlobConstants DEF Unborn
  <2>4. ASSUME NEW ref \in Refs({b})
        PROVE  /\ ref \notin objects'
               /\ \A c \in late' : ref \notin c.add \cup c.sub
               /\ \A q \in Actors : ref \notin proc'[q].refs
                                    /\ (proc'[q].step = "remove" => proc'[q].doomed # ref)
    BY <1>1, <2>1, <2>2 DEF CalmStore, Unborn
  <2> QED BY <2>3, <2>4 DEF Unborn, Refs
<1>8. Spares'
  BY <1>1, <1>3, <1>7 DEF BlobInv, Spares, CalmStore
<1>9. \A b \in Ids : Alive(b) /\ <<b, "final">> \in objects => <<b, "final">> \in objects'
  BY <1>1 DEF BlobInv, Spares, CalmStore
<1>10. Stored'
  BY <1>1, <1>9 DEF BlobInv, Stored, TypeOK, Alive
<1>11. Ready'
  <2> SUFFICES ASSUME NEW b \in Ids, b \in tx'.put, tx'.doubt \/ At(b, "commit")'
               PROVE  <<b, "final">> \in objects'
    BY DEF Ready
  <2>1. tx' = tx /\ tx.put = {b} /\ tx.of = b
    BY <1>2 DEF BlobInv, Open
  <2>2. CASE tx.doubt
    BY <1>9, <2>1, <2>2 DEF BlobInv, Ready, Alive
  <2>3. CASE ~tx.doubt /\ b # p
    <3>1. At(b, "commit")
      BY <1>1, <2>1, <2>3, BlobConstants
    <3> QED BY <1>9, <2>1, <2>3, <3>1 DEF BlobInv, Ready, Alive, Sql, Early
  <2>4. CASE ~tx.doubt /\ b = p
    BY <1>1, <2>1, <2>4 DEF CalmUpload
  <2> QED BY <2>2, <2>3, <2>4
<1>12. Refusals'
  <2> SUFFICES ASSUME NEW b \in Ids, Refused(b)' PROVE b \notin rows' \cup tx'.put
    BY DEF Refusals
  <2>1. Refused(b) \/ b \notin rows \cup tx'.put
    BY <1>1, BlobConstants DEF CalmUpload, Refused
  <2> QED BY <1>1, <1>2, <2>1 DEF BlobInv, Refusals
<1>13. Deletions'
  BY <1>1, BlobConstants DEF BlobInv, Deletions, CalmDeletion
<1> QED BY <1>4, <1>5, <1>6, <1>8, <1>10, <1>11, <1>12, <1>13 DEF BlobInv

-----------------------------------------------------------------------------
(* What the calm steps have in common *)

LEMMA BlobTypes ==
  ASSUME BlobInv
  PROVE  /\ proc \in [Actors -> Procs] /\ tx \in Txs /\ (tx.of = Nobody => tx = NoTx)
         /\ rows \subseteq Ids /\ objects \subseteq Refs(Ids) /\ seen \subseteq Refs(Ids)
         /\ late \subseteq CallsOfStore /\ did \subseteq Actors /\ rejected \subseteq Callers
         /\ faults \in 0 .. MaxFaults
BY DEF BlobInv, TypeOK, Procs, Steps, Txs, CallsOfStore

LEMMA TypesAfter ==
  ASSUME proc' \in [Actors -> Procs], tx' \in Txs, tx'.of = Nobody => tx' = NoTx,
         rows' \subseteq Ids, objects' \subseteq Refs(Ids), seen' \subseteq Refs(Ids),
         late' \subseteq CallsOfStore, did' \subseteq Actors, rejected' \subseteq Callers,
         faults' \in 0 .. MaxFaults
  PROVE  TypeOK'
BY DEF TypeOK, Procs, Steps, Txs, CallsOfStore

LEMMA FaultIs ==
  ASSUME BlobInv, Fault
  PROVE  faults' \in 0 .. MaxFaults
BY BlobTypes, BlobConstants DEF Fault

(* Only p moves, and it loses its transaction at most. *)
Retreats(p, w) ==
  /\ Moved(p, w) /\ w \in Procs
  /\ UNCHANGED <<rows, did>>
  /\ tx' = tx \/ (Sql(p) /\ tx' = NoTx)
StoreTypes ==
  /\ objects' \subseteq Refs(Ids) /\ seen' \subseteq Refs(Ids) /\ late' \subseteq CallsOfStore
  /\ faults' \in 0 .. MaxFaults

LEMMA RetreatTypes ==
  ASSUME BlobInv, NEW p \in Actors, NEW w, Retreats(p, w), StoreTypes, rejected' \subseteq Callers
  PROVE  TypeOK'
<1>1. proc' \in [Actors -> Procs]
  BY BlobTypes, MovedIs DEF Retreats
<1>2. tx' \in Txs /\ (tx'.of = Nobody => tx' = NoTx)
  BY BlobTypes, NoTxIs DEF Retreats
<1> QED BY <1>1, <1>2, BlobTypes, TypesAfter DEF Retreats, StoreTypes

(* Neither the store nor what may become of it changes, and p looks at     *)
(* nothing of an upload that has not begun.                                *)
Looks(p, refs) ==
  \A ref \in refs : \/ ref \in proc[p].refs \cup objects
                    \/ \E b \in Ids : ~At(b, "idle") /\ ref \in Refs({b})
LEMMA QuietStore ==
  ASSUME BlobInv, NEW p \in Actors, NEW w, Retreats(p, w), UNCHANGED <<objects, late>>,
         w.step # "remove", Looks(p, w.refs)
  PROVE  CalmStore(p)
<1>1. /\ proc'[p] = w /\ \A q \in Actors : q # p => proc'[q] = proc[q]
  BY BlobTypes, MovedIs DEF Retreats
<1>2. ASSUME NEW b \in Ids, At(b, "idle"), NEW ref \in Refs({b})
      PROVE  ref \notin w.refs
  <2>1. ref \notin proc[p].refs \cup objects
    BY <1>2 DEF BlobInv, Spares, Unborn
  <2>2. \A x \in Ids : ref \in Refs({x}) => x = b
    BY <1>2 DEF Refs
  <2> QED BY <1>2, <2>1, <2>2 DEF Looks
<1>3. \A b \in Ids : Threat(b)' => Threat(b)
  BY <1>1 DEF Threat, At
<1> QED BY <1>1, <1>2, <1>3 DEF CalmStore

(* p fails: an upload goes to its recheck, a deletion to its recheck or to *)
(* its rejection, the purge rests.                                         *)
LEMMA ErrsIs ==
  ASSUME BlobInv, NEW p \in Actors, Recovers(p)
  PROVE  \E w \in Procs :
           /\ Moved(p, w) /\ w.refs \subseteq proc[p].refs
           /\ p = Purger => w = Fresh(p)
           /\ p # Purger => /\ w.step \in {"recheck", "reject"} /\ (p \in Ids => w.step = "recheck")
                            /\ w.id = proc[p].id /\ w.then = proc[p].then /\ w.answer = proc[p].answer
<1>1. proc \in [Actors -> Procs]
  BY BlobTypes
<1>2. CASE p = Purger
  BY <1>1, <1>2, Movers, FreshIs DEF Recovers
<1>3. CASE p # Purger
  <2>1. PICK step : step = IF p \in Ids \/ At(p, "commit") THEN "recheck" ELSE "reject"
    OBVIOUS
  <2>2. Goes(p, step)
    BY <1>3, <2>1 DEF Recovers
  <2>3. Moved(p, Stepped(p, step))
    BY <1>1, <2>2, Movers
  <2>4. step \in Steps /\ step \in {"recheck", "reject"} /\ (p \in Ids => step = "recheck")
    BY <2>1 DEF Steps, Waiting
  <2> DEFINE w == Stepped(p, step)
  <2>5. /\ w \in Procs /\ w.step = step /\ w.id = proc[p].id /\ w.refs = proc[p].refs
        /\ w.then = proc[p].then /\ w.answer = proc[p].answer
    BY <1>1, <2>4, SteppedIs
  <2> HIDE DEF w
  <2>6. Moved(p, w)
    BY <2>3 DEF w
  <2> QED BY <1>3, <2>4, <2>5, <2>6
<1> QED BY <1>2, <1>3

LEMMA ErrsCalm ==
  ASSUME BlobInv, NEW p \in Actors, p \in Deleters => ~At(p, "idle"),
         Recovers(p), UNCHANGED <<rows, did, rejected>>, tx' = IF Sql(p) THEN NoTx ELSE tx,
         StoreTypes,
         \A w : Retreats(p, w) /\ w.refs \subseteq proc[p].refs /\ w.step # "remove" => CalmStore(p)
  PROVE  BlobInv'
<1>1. PICK w \in Procs :
        /\ Moved(p, w) /\ w.refs \subseteq proc[p].refs
        /\ p = Purger => w = Fresh(p)
        /\ p # Purger => /\ w.step \in {"recheck", "reject"} /\ (p \in Ids => w.step = "recheck")
                         /\ w.id = proc[p].id /\ w.then = proc[p].then /\ w.answer = proc[p].answer
  BY ErrsIs
<1>2. Retreats(p, w)
  <2>1. CASE Sql(p)
    BY <1>1, <2>1 DEF Retreats
  <2>2. CASE ~Sql(p)
    BY <1>1, <2>2 DEF Retreats
  <2> QED BY <2>1, <2>2
<1>3. /\ proc'[p] = w /\ \A q \in Actors : q # p => proc'[q] = proc[q]
  BY <1>1, BlobTypes, MovedIs
<1>4. TypeOK'
  BY <1>2, BlobTypes, RetreatTypes
<1>5. p = Purger => w.step = "idle" /\ w.then = "done" /\ w.answer = "none"
  BY <1>1, FreshIs
<1>6. w.step # "remove" /\ w.step # "commit" /\ CalmStore(p)
  BY <1>1, <1>2, <1>5
<1>7. Role(p)
  BY DEF BlobInv, Roles
<1>8. Role(p)'
  BY <1>1, <1>3, <1>5, <1>7, BlobConstants DEF Role, At, Uploading
<1>9. CalmUpload(p)
  <2> SUFFICES ASSUME p \in Ids PROVE CalmUpload(p)
    BY DEF CalmUpload
  <2>1. w.step = "recheck" /\ w.then = proc[p].then /\ w.answer = proc[p].answer
    BY <1>1, BlobConstants
  <2>2. ~Early(p)' /\ (Refused(p)' => Refused(p))
    BY <1>3, <2>1 DEF Early, Refused, At, Uploading
  <2>3. proc'[p].answer = "ok" => p \in did
    BY <1>3, <2>1 DEF BlobInv, Before
  <2>4. p \in tx'.put => tx' = tx /\ tx.doubt /\ tx.of = p
    BY NoTxIs DEF BlobInv, Open, Sql
  <2>5. p \in tx'.put => /\ proc'[p].then = "done" /\ p \notin rejected'
                         /\ proc'[p].answer \in {"none", "unavailable"}
    BY <1>3, <2>1, <2>4 DEF BlobInv, Open
  <2> QED BY <1>3, <2>1, <2>2, <2>3, <2>4, <2>5 DEF CalmUpload
<1>10. CalmDeletion(p)
  BY <1>1, <1>3, <1>6, BlobConstants DEF CalmDeletion, BlobInv, Deletions, At
<1>11. Calm(p)
  BY <1>3, <1>2, <1>6, <1>8, <1>9, <1>10 DEF Calm, Retreats
<1> QED BY <1>4, <1>11, CalmKeeps

LEMMA QuietKeeps ==
  ASSUME BlobInv, NEW p \in Actors, NEW w, Retreats(p, w), UNCHANGED <<objects, late>>, StoreTypes,
         rejected' \subseteq rejected \cup {p}, rejected' \subseteq Callers,
         w.step # "remove", Looks(p, w.refs), Role(p)', CalmUpload(p), CalmDeletion(p)
  PROVE  BlobInv'
<1>1. TypeOK'
  BY RetreatTypes
<1>2. CalmStore(p)
  BY QuietStore
<1>3. \A q \in Actors : q # p => proc'[q] = proc[q]
  BY BlobTypes, MovedIs DEF Retreats
<1>4. Calm(p)
  BY <1>2, <1>3 DEF Calm, Retreats
<1> QED BY <1>1, <1>4, CalmKeeps

LEMMA SameStore ==
  ASSUME BlobInv, UNCHANGED <<objects, late, seen>>, faults' \in 0 .. MaxFaults
  PROVE  StoreTypes
BY BlobTypes DEF StoreTypes

LEMMA OldRefs ==
  ASSUME NEW p, NEW refs, refs \subseteq proc[p].refs
  PROVE  Looks(p, refs)
BY DEF Looks

LEMMA ErrsQuiet ==
  ASSUME BlobInv, NEW p \in Actors, p \in Deleters => ~At(p, "idle"),
         Recovers(p), UNCHANGED <<rows, did, rejected, objects, late, seen>>,
         tx' = IF Sql(p) THEN NoTx ELSE tx, faults' \in 0 .. MaxFaults
  PROVE  BlobInv'
<1>1. \A w : Retreats(p, w) /\ w.refs \subseteq proc[p].refs /\ w.step # "remove" => CalmStore(p)
  BY QuietStore, OldRefs
<1> QED BY <1>1, SameStore, ErrsCalm

(* A recheck that fails *)
LEMMA NoRecheckKeeps ==
  ASSUME BlobInv, NEW p \in Callers, ~At(p, "idle"), NoRecheck(p),
         UNCHANGED <<rows, did, rejected, objects, late, seen>>, faults' \in 0 .. MaxFaults,
         tx' = tx \/ (Sql(p) /\ tx' = NoTx), p \in tx'.put => tx.doubt
  PROVE  BlobInv'
<1>1. p \in Actors /\ proc \in [Actors -> Procs] /\ Role(p)
  BY BlobTypes, BlobConstants DEF BlobInv, Roles
<1>2. CASE p \in Ids
  <2> DEFINE w == Answered(p, "done", "unavailable")
  <2>1. Moved(p, w)
    BY <1>1, <1>2, Movers DEF NoRecheck
  <2>2. /\ w \in Procs /\ w.step = "done" /\ w.id = proc[p].id /\ w.refs = proc[p].refs
        /\ w.then = proc[p].then /\ w.answer = "unavailable"
    BY <1>1, AnsweredIs DEF Steps
  <2> HIDE DEF w
  <2>3. proc'[p] = w
    BY <1>1, <2>1, <2>2, MovedIs
  <2>4. Retreats(p, w)
    BY <2>1, <2>2 DEF Retreats
  <2>5. Role(p)'
    BY <1>1, <1>2, <2>2, <2>3, BlobConstants DEF Role, At, Uploading
  <2>6. CalmUpload(p)
    <3>1. ~Early(p)' /\ (Refused(p)' => Refused(p)) /\ proc'[p].answer # "ok"
      BY <2>2, <2>3 DEF Early, Refused, At, Uploading
    <3>2. p \in tx'.put => tx' = tx /\ tx.doubt /\ tx.of = p
      BY NoTxIs DEF BlobInv, Open
    <3>3. p \in tx'.put => proc'[p].then = "done" /\ p \notin rejected'
      BY <2>2, <2>3, <3>2 DEF BlobInv, Open
    <3> QED BY <2>2, <2>3, <3>1, <3>2, <3>3 DEF CalmUpload
  <2>7. CalmDeletion(p)
    BY <1>2, BlobConstants DEF CalmDeletion
  <2> QED BY <1>1, <2>2, <2>4, <2>5, <2>6, <2>7, OldRefs, SameStore, QuietKeeps, BlobTypes
<1>3. CASE p \notin Ids
  <2> DEFINE w == Stepped(p, "reject")
  <2>1. Moved(p, w)
    BY <1>1, <1>3, Movers DEF NoRecheck
  <2>2. /\ w \in Procs /\ w.step = "reject" /\ w.id = proc[p].id /\ w.refs = proc[p].refs
        /\ w.then = proc[p].then /\ w.answer = proc[p].answer
    BY <1>1, SteppedIs DEF Steps
  <2> HIDE DEF w
  <2>3. proc'[p] = w
    BY <1>1, <2>1, <2>2, MovedIs
  <2>4. Retreats(p, w)
    BY <2>1, <2>2 DEF Retreats
  <2>5. Role(p)'
    BY <1>1, <1>3, <2>2, <2>3, BlobConstants DEF Role, At, Uploading
  <2>6. CalmUpload(p)
    BY <1>3 DEF CalmUpload
  <2>7. CalmDeletion(p)
    BY <2>2, <2>3 DEF CalmDeletion, BlobInv, Deletions, At
  <2> QED BY <1>1, <2>2, <2>4, <2>5, <2>6, <2>7, OldRefs, SameStore, QuietKeeps, BlobTypes
<1> QED BY <1>2, <1>3

(* The end of a cleanup *)
LEMMA CleanedUpKeeps ==
  ASSUME BlobInv, NEW p \in Actors, proc[p].step \in {"scan", "sweep"}, CleanedUp(p),
         UNCHANGED <<rows, did, rejected, objects, late, seen>>, faults' \in 0 .. MaxFaults,
         tx' = tx \/ (Sql(p) /\ tx' = NoTx)
  PROVE  BlobInv'
<1>1. proc \in [Actors -> Procs] /\ proc[p] \in Procs /\ Role(p)
  BY BlobTypes DEF BlobInv, Roles
<1>2. PICK w \in Procs :
        /\ Moved(p, w) /\ w.refs = {}
        /\ proc[p].then = "idle" => w = Fresh(p)
        /\ proc[p].then # "idle" => /\ w.step = proc[p].then /\ w.id = proc[p].id
                                    /\ w.answer = proc[p].answer
                                    /\ w.then = (IF p = Purger THEN "idle" ELSE proc[p].then)
  <2>1. CASE proc[p].then = "idle"
    BY <1>1, <2>1, Movers, FreshIs DEF CleanedUp
  <2>2. CASE proc[p].then # "idle"
    <3> DEFINE next == IF p = Purger THEN "idle" ELSE proc[p].then
               w == Sweeping(p, proc[p].then, {}, next, proc[p].answer)
    <3>1. proc' = [proc EXCEPT ![p].step = proc[p].then, ![p].refs = {},
                               ![p].then = IF p = Purger THEN "idle" ELSE @]
      BY <2>2 DEF CleanedUp
    <3>2. next \in {"idle", "scan", "reject", "done"} /\ proc[p].then \in Steps
          /\ proc[p].answer \in {"none", "ok", "missing", "error", "unavailable"}
          /\ {} \in SUBSET Refs(Ids)
      BY <1>1, <2>2 DEF Procs, Steps, Waiting
    <3>3. proc'[p] = [proc[p] EXCEPT !.step = proc[p].then, !.refs = {}, !.then = next]
      BY <1>1, <3>1 DEF Procs
    <3>4. /\ w \in Procs /\ w.step = proc[p].then /\ w.id = proc[p].id /\ w.refs = {}
          /\ w.doomed = proc[p].doomed /\ w.then = next /\ w.answer = proc[p].answer
      BY <1>1, <3>2, SweepingIs
    <3>5. w = [proc[p] EXCEPT !.step = proc[p].then, !.refs = {}, !.then = next]
      BY <1>1 DEF Sweeping, Procs
    <3>6. proc' = [proc EXCEPT ![p] = proc'[p]]
      BY <1>1, <3>1
    <3>7. Moved(p, w)
      BY <3>3, <3>5, <3>6 DEF Moved
    <3> HIDE DEF w
    <3> QED BY <2>2, <3>4, <3>7
  <2> QED BY <2>1, <2>2
<1>3. proc'[p] = w /\ Retreats(p, w)
  BY <1>1, <1>2, MovedIs DEF Retreats
<1>4. p \in Callers => proc[p].then \in {"done", "reject"}
  BY <1>1 DEF Role
<1>5. proc[p].then \in {"idle", "scan", "reject", "done"}
  BY <1>1 DEF Procs
<1>6. w.step \in {"idle", "scan", "reject", "done"} /\ (w.step = "idle" => p = Purger)
  BY <1>2, <1>4, <1>5, FreshIs, BlobConstants
<1>7. p = Purger => w.step # "reject" /\ w.then # "reject"
  BY <1>1, <1>2, <1>5, FreshIs, BlobConstants DEF Role
<1>8. Role(p)'
  BY <1>1, <1>2, <1>3, <1>4, <1>6, <1>7, BlobConstants DEF Role, At, Uploading
<1>9. CalmUpload(p)
  <2> SUFFICES ASSUME p \in Ids PROVE CalmUpload(p)
    BY DEF CalmUpload
  <2>1. w.step = proc[p].then /\ w.then = proc[p].then /\ w.answer = proc[p].answer
    BY <1>2, <1>4, BlobConstants
  <2>2. ~Early(p)' /\ (Refused(p)' => Refused(p))
    BY <1>3, <1>4, <2>1, BlobConstants DEF Early, Refused, At, Uploading
  <2>3. p \notin tx'.put
    BY NoTxIs DEF BlobInv, Open
  <2>4. proc'[p].answer = "ok" => p \in did
    BY <1>3, <2>1 DEF BlobInv, Before
  <2> QED BY <2>2, <2>3, <2>4 DEF CalmUpload
<1>10. CalmDeletion(p)
  BY <1>2, <1>3, <1>4, <1>6, BlobConstants DEF CalmDeletion, BlobInv, Deletions, At
<1> QED BY <1>2, <1>3, <1>6, <1>8, <1>9, <1>10, OldRefs, SameStore, QuietKeeps, BlobTypes

-----------------------------------------------------------------------------
(* The calm steps *)

LEMMA BlobLockFails ==
  ASSUME BlobInv, NEW p \in Actors, LockFails(p)
  PROVE  BlobInv'
<1>1. /\ proc[p].step \in Waiting /\ faults' \in 0 .. MaxFaults /\ (p \in Ids \/ ~At(p, "idle"))
      /\ UNCHANGED <<rows, tx, did, rejected, objects, late, seen>>
  BY FaultIs DEF LockFails, database, store
<1>2. CASE At(p, "idle")
  <2>1. Recovers(p) /\ p \in Ids
    BY <1>1, <1>2 DEF LockFails, At
  <2>2. ~Sql(p)
    BY <1>2, <2>1 DEF BlobInv, Spares, Unborn, Sql
  <2> QED BY <1>1, <2>1, <2>2, BlobConstants, ErrsQuiet
<1>3. CASE At(p, "recheck")
  <2>1. NoRecheck(p) /\ p \in Callers /\ ~At(p, "idle")
    BY <1>3 DEF LockFails, At, BlobInv, Roles, Role
  <2>2. p \in tx.put => tx.doubt
    BY <1>3 DEF BlobInv, Open, At
  <2> QED BY <1>1, <2>1, <2>2, NoRecheckKeeps
<1>4. CASE At(p, "scan")
  <2>1. CleanedUp(p) /\ proc[p].step \in {"scan", "sweep"}
    BY <1>4 DEF LockFails, At
  <2> QED BY <1>1, <2>1, CleanedUpKeeps
<1> QED BY <1>1, <1>2, <1>3, <1>4 DEF Waiting, At

(* A call of the store takes effect, or may do so later. *)
LEMMA Effects ==
  ASSUME BlobInv, NEW p \in Actors, proc[p].step \in Calling,
         objects' = objects \/ objects' = Applied(Call(p)),
         late' = late \/ late' = late \cup {Call(p)},
         UNCHANGED seen, faults' \in 0 .. MaxFaults
  PROVE  /\ StoreTypes
         /\ \A w : Retreats(p, w) /\ w.refs \subseteq proc[p].refs /\ w.step # "remove" => CalmStore(p)
<1> DEFINE c == Call(p)
<1>1. /\ c \in CallsOfStore
      /\ ~At(p, "remove") => /\ p \in Ids /\ ~At(p, "idle") /\ c.add \cup c.sub \subseteq Refs({p})
                             /\ <<p, "final">> \notin c.sub
      /\ At(p, "remove") => c.add = {} /\ c.sub = {proc[p].doomed}
  BY CallIs
<1>2. objects' = objects \/ objects' = (objects \ c.sub) \cup c.add
  BY DEF Applied
<1> HIDE DEF c
<1>3. late' = late \/ late' = late \cup {c}
  BY DEF c
<1>4. c.add \subseteq Refs(Ids) /\ c.sub \subseteq Refs(Ids)
  BY <1>1 DEF CallsOfStore
<1>5. StoreTypes
  BY <1>1, <1>2, <1>3, <1>4, BlobTypes DEF StoreTypes
<1>6. \A b \in Ids : <<b, "final">> \in c.sub => Threat(b)
  <2> SUFFICES ASSUME NEW b \in Ids, <<b, "final">> \in c.sub PROVE Threat(b)
    OBVIOUS
  <2>1. At(p, "remove")
    <3> SUFFICES ASSUME ~At(p, "remove") PROVE FALSE
      OBVIOUS
    <3>1. <<b, "final">> \in Refs({p})
      BY <1>1
    <3>2. b = p
      BY <3>1 DEF Refs
    <3> QED BY <1>1, <3>2
  <2> QED BY <1>1, <2>1 DEF Threat
<1>7. ASSUME NEW b \in Ids, At(b, "idle"), NEW ref \in Refs({b})
      PROVE  ref \notin c.add \cup c.sub
  <2>1. CASE At(p, "remove")
    BY <1>1, <1>7, <2>1 DEF BlobInv, Spares, Unborn
  <2>2. CASE ~At(p, "remove")
    <3>1. b # p
      BY <1>1, <1>7, <2>2
    <3> QED BY <1>1, <1>7, <2>2, <3>1 DEF Refs
  <2> QED BY <2>1, <2>2
<1>8. ASSUME NEW w, Retreats(p, w), w.refs \subseteq proc[p].refs, w.step # "remove"
      PROVE  CalmStore(p)
  <2>1. proc'[p] = w /\ \A q \in Actors : q # p => proc'[q] = proc[q]
    BY <1>8, BlobTypes, MovedIs DEF Retreats
  <2>2. \A b \in Ids : <<b, "final">> \in objects /\ <<b, "final">> \notin objects' => Threat(b)
    BY <1>2, <1>6
  <2>3. \A b \in Ids : Threat(b)' => Threat(b)
    BY <1>3, <1>6, <1>8, <2>1 DEF Threat, At
  <2>4. ASSUME NEW b \in Ids, At(b, "idle"), NEW ref \in Refs({b})
        PROVE  /\ ref \in objects' => ref \in objects
               /\ \A d \in late' : d \in late \/ ref \notin d.add \cup d.sub
               /\ ref \notin proc'[p].refs
    <3>1. ref \notin proc[p].refs
      BY <2>4 DEF BlobInv, Spares, Unborn
    <3> QED BY <1>2, <1>3, <1>7, <1>8, <2>1, <2>4, <3>1
  <2> QED BY <1>8, <2>1, <2>2, <2>3, <2>4 DEF CalmStore
<1> QED BY <1>5, <1>8

LEMMA CallingIs ==
  ASSUME BlobInv, NEW p \in Actors, proc[p].step \in Calling
  PROVE  p \in Deleters => ~At(p, "idle")
BY DEF Calling, At

(* A removal goes on with the next reference. *)
LEMMA RemovedKeeps ==
  ASSUME BlobInv, NEW p \in Actors, At(p, "remove"), Goes(p, "sweep"),
         UNCHANGED <<rows, did, tx, rejected>>, StoreTypes,
         \A w : Retreats(p, w) /\ w.refs \subseteq proc[p].refs /\ w.step # "remove" => CalmStore(p)
  PROVE  BlobInv'
<1>1. proc \in [Actors -> Procs] /\ Role(p)
  BY BlobTypes DEF BlobInv, Roles
<1> DEFINE w == Stepped(p, "sweep")
<1>2. Moved(p, w)
  BY <1>1, Movers
<1>3. /\ w \in Procs /\ w.step = "sweep" /\ w.id = proc[p].id /\ w.refs = proc[p].refs
      /\ w.then = proc[p].then /\ w.answer = proc[p].answer
  BY <1>1, SteppedIs DEF Steps
<1> HIDE DEF w
<1>4. proc'[p] = w /\ Retreats(p, w) /\ \A q \in Actors : q # p => proc'[q] = proc[q]
  BY <1>1, <1>2, <1>3, MovedIs DEF Retreats
<1>5. CalmStore(p) /\ TypeOK'
  BY <1>3, <1>4, RetreatTypes, BlobTypes
<1>6. Role(p)'
  BY <1>1, <1>3, <1>4 DEF Role, At, Uploading
<1>7. CalmUpload(p)
  <2> SUFFICES ASSUME p \in Ids PROVE CalmUpload(p)
    BY DEF CalmUpload
  <2>1. ~Early(p)' /\ (Refused(p)' => Refused(p))
    BY <1>3, <1>4 DEF Early, Refused, At, Uploading
  <2>2. p \notin tx'.put
    BY DEF BlobInv, Open, At
  <2>3. proc'[p].answer = "ok" => p \in did
    BY <1>3, <1>4 DEF BlobInv, Before
  <2> QED BY <2>1, <2>2, <2>3 DEF CalmUpload
<1>8. CalmDeletion(p)
  BY <1>3, <1>4 DEF CalmDeletion, BlobInv, Deletions, At
<1>9. Calm(p)
  BY <1>4, <1>5, <1>6, <1>7, <1>8 DEF Calm
<1> QED BY <1>5, <1>9, CalmKeeps

LEMMA BlobTransferFails ==
  ASSUME BlobInv, NEW p \in Actors, TransferFails(p)
  PROVE  BlobInv'
<1>1. /\ proc[p].step \in Calling /\ faults' \in 0 .. MaxFaults
      /\ objects' = objects \/ objects' = Applied(Call(p))
      /\ late' = late \/ late' = late \cup {Call(p)}
      /\ UNCHANGED <<seen, rejected>>
  BY FaultIs DEF TransferFails
<1>2. /\ StoreTypes
      /\ \A w : Retreats(p, w) /\ w.refs \subseteq proc[p].refs /\ w.step # "remove" => CalmStore(p)
  BY <1>1, Effects
<1>3. CASE At(p, "remove")
  BY <1>1, <1>2, <1>3, RemovedKeeps DEF TransferFails, database
<1>4. CASE ~At(p, "remove")
  BY <1>1, <1>2, <1>4, CallingIs, ErrsCalm DEF TransferFails, Errs, Rollback
<1> QED BY <1>3, <1>4

LEMMA BlobTransfer ==
  ASSUME BlobInv, NEW p \in Actors, Transfer(p)
  PROVE  BlobInv'
<1>1. proc[p].step \in Calling /\ UNCHANGED <<late, seen, rejected, faults>>
  BY DEF Transfer
<1>2. faults' \in 0 .. MaxFaults
  BY <1>1, BlobTypes
<1>3. CASE ~Possible(p)
  <2>1. Errs(p) /\ UNCHANGED objects
    BY <1>3 DEF Transfer
  <2> QED BY <1>1, <1>2, <2>1, CallingIs, ErrsQuiet DEF Errs, Rollback
<1>4. CASE Possible(p)
  <2>1. objects' = Applied(Call(p)) /\ Goes(p, AfterCall(p)) /\ UNCHANGED <<rows, tx, did>>
    BY <1>4 DEF Transfer, database
  <2>2. /\ StoreTypes
        /\ \A w : Retreats(p, w) /\ w.refs \subseteq proc[p].refs /\ w.step # "remove" => CalmStore(p)
    BY <1>1, <1>2, <2>1, Effects
  <2>3. CASE At(p, "remove")
    <3>1. AfterCall(p) = "sweep"
      BY <2>3 DEF AfterCall, At
    <3> QED BY <1>1, <2>1, <2>2, <2>3, <3>1, RemovedKeeps
  <2>4. CASE ~At(p, "remove")
    <3>1. p \in Ids /\ Early(p) /\ Role(p) /\ proc \in [Actors -> Procs]
      BY <1>1, <2>4, BlobTypes DEF BlobInv, Roles, Role, Calling, Uploading, Early, At
    <3>2. PICK next \in {"insert", "promote", "unstage", "verify"} :
            AfterCall(p) = next /\ (next = "insert" => At(p, "stage"))
      BY <1>1, <2>4 DEF AfterCall, Calling, At
    <3> DEFINE w == Stepped(p, next)
    <3>3. Moved(p, w)
      BY <2>1, <3>1, <3>2, Movers
    <3>4. next \in Steps
      BY <3>2 DEF Steps, Calling
    <3>5. /\ w \in Procs /\ w.step = next /\ w.id = proc[p].id /\ w.refs = proc[p].refs
          /\ w.then = proc[p].then /\ w.answer = proc[p].answer
      BY <3>1, <3>4, SteppedIs
    <3> HIDE DEF w
    <3>6. proc'[p] = w /\ Retreats(p, w) /\ \A q \in Actors : q # p => proc'[q] = proc[q]
      BY <2>1, <3>1, <3>3, <3>5, MovedIs DEF Retreats
    <3>7. CalmStore(p) /\ TypeOK'
      BY <1>1, <2>2, <3>2, <3>5, <3>6, RetreatTypes, BlobTypes
    <3>8. Role(p)'
      BY <3>1, <3>2, <3>5, <3>6, BlobConstants DEF Role, At, Uploading
    <3>9. CalmUpload(p)
      <4>1. p \notin rejected
        BY <3>1 DEF BlobInv, Before
      <4>2. ~At(p, "idle")' /\ (Refused(p)' => Refused(p)) /\ ~At(p, "commit")'
        BY <1>1, <3>2, <3>5, <3>6 DEF Refused, At
      <4>3. proc'[p].answer = "ok" => p \in did
        BY <3>1, <3>5, <3>6 DEF BlobInv, Before
      <4>4. p \in tx'.put => tx.of = p /\ ~tx.doubt /\ ~At(p, "stage")
        BY <1>1, <2>1, <2>4 DEF BlobInv, Open, At, Calling
      <4> QED BY <1>1, <3>1, <3>2, <3>5, <3>6, <4>1, <4>2, <4>3, <4>4 DEF CalmUpload
    <3>10. CalmDeletion(p)
      BY <3>1, BlobConstants DEF CalmDeletion
    <3>11. Calm(p)
      BY <1>1, <2>1, <3>6, <3>7, <3>8, <3>9, <3>10 DEF Calm
    <3> QED BY <3>7, <3>11, CalmKeeps
  <2> QED BY <2>3, <2>4
<1> QED BY <1>3, <1>4

(* The other steps that leave the store alone.  Each says what becomes of  *)
(* p's record.                                                             *)

LEMMA ErrsOnly ==
  ASSUME BlobInv, NEW p \in Actors, ~At(p, "idle"), Errs(p),
         UNCHANGED <<objects, late, seen, rejected, faults>>
  PROVE  BlobInv'
BY ErrsQuiet, BlobTypes DEF Errs, Rollback

LEMMA BlobVerify ==
  ASSUME BlobInv, NEW p \in Ids, Verify(p)
  PROVE  BlobInv'
<1>1. /\ At(p, "verify") /\ ~At(p, "idle") /\ p \in Actors
      /\ UNCHANGED <<objects, late, seen, rejected, faults>>
  BY BlobConstants DEF Verify, At, store
<1>2. CASE ~(Sql(p) /\ <<p, "final">> \in objects)
  BY <1>1, <1>2, ErrsOnly DEF Verify
<1>3. CASE Sql(p) /\ <<p, "final">> \in objects
  <2>1. Goes(p, "commit") /\ UNCHANGED <<rows, tx, did>>
    BY <1>3 DEF Verify, database
  <2>2. proc \in [Actors -> Procs] /\ Role(p)
    BY <1>1, BlobTypes DEF BlobInv, Roles
  <2> DEFINE w == Stepped(p, "commit")
  <2>3. Moved(p, w)
    BY <1>1, <2>1, <2>2, Movers
  <2>4. /\ w \in Procs /\ w.step = "commit" /\ w.id = proc[p].id /\ w.refs = proc[p].refs
        /\ w.then = proc[p].then /\ w.answer = proc[p].answer
    BY <1>1, <2>2, SteppedIs DEF Steps
  <2> HIDE DEF w
  <2>5. proc'[p] = w /\ Retreats(p, w)
    BY <1>1, <2>1, <2>2, <2>3, <2>4, MovedIs DEF Retreats
  <2>6. Role(p)'
    BY <2>2, <2>4, <2>5, BlobConstants DEF Role, At, Uploading
  <2>7. CalmUpload(p)
    <3>1. Early(p)
      BY <1>1 DEF Early, Uploading, At
    <3>2. p \notin rejected'
      BY <1>1, <3>1 DEF BlobInv, Before
    <3>3. ~At(p, "idle")' /\ (Refused(p)' => Refused(p))
      BY <1>1, <2>4, <2>5 DEF Refused, At
    <3>4. proc'[p].answer = "ok" => p \in did
      BY <2>4, <2>5 DEF BlobInv, Before
    <3>5. ~tx.doubt /\ <<p, "final">> \in objects'
      BY <1>1, <1>3 DEF Sql
    <3> QED BY <2>4, <2>5, <3>1, <3>2, <3>3, <3>4, <3>5 DEF CalmUpload
  <2>8. CalmDeletion(p)
    BY BlobConstants DEF CalmDeletion
  <2> QED BY <1>1, <2>4, <2>5, <2>6, <2>7, <2>8, OldRefs, SameStore, QuietKeeps, BlobTypes
<1> QED BY <1>2, <1>3

(* A deletion that finds nothing *)
LEMMA BlobMissing ==
  ASSUME BlobInv, NEW p \in Deleters, At(p, "look"), proc[p].id \notin rows, Sql(p),
         tx' = NoTx, Answers(p, "reject", "missing"),
         UNCHANGED <<rows, did, objects, late, seen, rejected, faults>>
  PROVE  BlobInv'
<1>1. proc \in [Actors -> Procs] /\ Role(p) /\ p \in Actors
  BY BlobTypes, BlobConstants DEF BlobInv, Roles
<1> DEFINE w == Answered(p, "reject", "missing")
<1>2. Moved(p, w)
  BY <1>1, Movers
<1>3. /\ w \in Procs /\ w.step = "reject" /\ w.id = proc[p].id /\ w.refs = proc[p].refs
      /\ w.then = proc[p].then /\ w.answer = "missing"
  BY <1>1, AnsweredIs DEF Steps
<1> HIDE DEF w
<1>4. proc'[p] = w /\ Retreats(p, w)
  BY <1>1, <1>2, <1>3, MovedIs DEF Retreats
<1>5. Role(p)'
  BY <1>1, <1>3, <1>4, BlobConstants DEF Role, At, Uploading
<1>6. CalmUpload(p)
  BY BlobConstants DEF CalmUpload
<1>7. CalmDeletion(p)
  BY <1>3, <1>4 DEF CalmDeletion, At
<1> QED BY <1>1, <1>3, <1>4, <1>5, <1>6, <1>7, OldRefs, SameStore, QuietKeeps, BlobTypes

LEMMA BlobReject ==
  ASSUME BlobInv, NEW p \in Actors, NEW recorded \in BOOLEAN, Reject(p, recorded)
  PROVE  BlobInv'
<1>1. /\ At(p, "reject") /\ p \in Callers
      /\ rejected' \subseteq rejected \cup {p} /\ rejected' \subseteq Callers
      /\ UNCHANGED <<rows, tx, did, objects, late, seen, faults>>
  <2>1. At(p, "reject") /\ p \in Callers
    BY DEF Reject, BlobInv, Roles, Role, At
  <2>2. UNCHANGED <<rows, tx, did, objects, late, seen, faults>>
    BY DEF Reject, database, store
  <2>3. rejected' \subseteq rejected \cup {p}
    BY DEF Reject
  <2> QED BY <2>1, <2>2, <2>3, BlobTypes
<1>2. proc \in [Actors -> Procs] /\ Role(p)
  BY BlobTypes DEF BlobInv, Roles
<1>3. PICK answer \in {"missing", "error"} :
        Answers(p, "done", answer) /\ (answer = "missing" => proc[p].answer = "missing")
  BY DEF Reject
<1> DEFINE w == Answered(p, "done", answer)
<1>4. Moved(p, w)
  BY <1>2, <1>3, Movers
<1>5. /\ w \in Procs /\ w.step = "done" /\ w.id = proc[p].id /\ w.refs = proc[p].refs
      /\ w.then = proc[p].then /\ w.answer = answer
  BY <1>2, <1>3, AnsweredIs DEF Steps
<1> HIDE DEF w
<1>6. proc'[p] = w /\ Retreats(p, w)
  BY <1>1, <1>2, <1>4, <1>5, MovedIs DEF Retreats
<1>7. Role(p)'
  BY <1>1, <1>2, <1>5, <1>6, BlobConstants DEF Role, At, Uploading
<1>8. CalmUpload(p)
  <2> SUFFICES ASSUME p \in Ids PROVE CalmUpload(p)
    BY DEF CalmUpload
  <2>1. Refused(p) /\ ~Early(p)' /\ proc'[p].answer # "ok"
    BY <1>1, <1>3, <1>5, <1>6 DEF Refused, Early, Uploading, At
  <2>2. p \notin tx'.put
    BY <1>1, <2>1 DEF BlobInv, Refusals
  <2> QED BY <2>1, <2>2 DEF CalmUpload
<1>9. CalmDeletion(p)
  BY <1>3, <1>5, <1>6 DEF CalmDeletion, BlobInv, Deletions, At
<1> QED BY <1>1, <1>2, <1>5, <1>6, <1>7, <1>8, <1>9, OldRefs, SameStore, QuietKeeps, BlobTypes

(* The scan goes on: p looks at other references of the store. *)
LEMMA ScanGoesOn ==
  ASSUME BlobInv, NEW p \in Actors, NEW w \in Procs, Moved(p, w), proc[p].step \in {"list", "sweep"},
         w.step = "sweep", w.id = proc[p].id, w.then = proc[p].then, w.answer = proc[p].answer,
         Looks(p, w.refs), StoreTypes, UNCHANGED <<rows, tx, did, rejected, objects, late>>
  PROVE  BlobInv'
<1>1. proc \in [Actors -> Procs] /\ Role(p)
  BY BlobTypes DEF BlobInv, Roles
<1>2. proc'[p] = w /\ Retreats(p, w)
  BY <1>1, MovedIs DEF Retreats
<1>3. Role(p)'
  BY <1>1, <1>2, BlobConstants DEF Role, At, Uploading
<1>4. CalmUpload(p)
  <2> SUFFICES ASSUME p \in Ids PROVE CalmUpload(p)
    BY DEF CalmUpload
  <2>1. ~Early(p)' /\ (Refused(p)' => Refused(p))
    BY <1>2 DEF Refused, Early, Uploading, At
  <2>2. p \notin tx'.put
    BY DEF BlobInv, Open
  <2>3. proc'[p].answer = "ok" => p \in did
    BY <1>2 DEF BlobInv, Before
  <2> QED BY <2>1, <2>2, <2>3 DEF CalmUpload
<1>5. CalmDeletion(p)
  BY <1>2 DEF CalmDeletion, BlobInv, Deletions, At
<1> QED BY <1>2, <1>3, <1>4, <1>5, QuietKeeps, BlobTypes

LEMMA BlobList ==
  ASSUME BlobInv, NEW p \in Actors, NEW page \in SUBSET objects, List(p, page)
  PROVE  BlobInv'
<1>1. /\ At(p, "list") /\ Sweeps(p, "sweep", page, proc[p].then, proc[p].answer)
      /\ UNCHANGED <<objects, late, rows, tx, did, rejected, faults>>
      /\ seen' = {} \/ seen' = seen \cup page
  BY DEF List, database
<1>2. proc \in [Actors -> Procs] /\ proc[p] \in Procs /\ page \in SUBSET Refs(Ids)
  BY BlobTypes
<1>3. proc[p].then \in {"idle", "scan", "reject", "done"} /\ "sweep" \in Steps
      /\ proc[p].answer \in {"none", "ok", "missing", "error", "unavailable"}
  BY <1>2 DEF Procs, Steps
<1> DEFINE w == Sweeping(p, "sweep", page, proc[p].then, proc[p].answer)
<1>4. Moved(p, w)
  BY <1>1, <1>2, Movers
<1>5. /\ w \in Procs /\ w.step = "sweep" /\ w.id = proc[p].id /\ w.refs = page
      /\ w.then = proc[p].then /\ w.answer = proc[p].answer
  BY <1>2, <1>3, SweepingIs
<1> HIDE DEF w
<1>6. Looks(p, w.refs)
  BY <1>5 DEF Looks
<1>7. StoreTypes
  BY <1>1, <1>2, BlobTypes DEF StoreTypes
<1>8. proc[p].step \in {"list", "sweep"}
  BY <1>1 DEF At
<1> QED BY <1>1, <1>4, <1>5, <1>6, <1>7, <1>8, ScanGoesOn

LEMMA BlobTimeUp ==
  ASSUME BlobInv, NEW p \in Actors, TimeUp(p)
  PROVE  BlobInv'
<1>1. /\ At(p, "sweep") /\ proc' = [proc EXCEPT ![p].refs = {}] /\ faults' \in 0 .. MaxFaults
      /\ UNCHANGED <<rows, tx, did, objects, late, seen, rejected>>
  BY FaultIs DEF TimeUp, database, store
<1>2. proc \in [Actors -> Procs] /\ proc[p] \in Procs
  BY BlobTypes
<1> DEFINE w == [proc[p] EXCEPT !.refs = {}]
<1>3. Moved(p, w)
  BY <1>1 DEF Moved
<1>4. /\ w \in Procs /\ w.step = "sweep" /\ w.id = proc[p].id /\ w.refs = {}
      /\ w.then = proc[p].then /\ w.answer = proc[p].answer
  BY <1>1, <1>2 DEF Procs, At
<1> HIDE DEF w
<1>5. Looks(p, w.refs) /\ StoreTypes /\ proc[p].step \in {"list", "sweep"}
  BY <1>1, <1>4, SameStore DEF Looks, At
<1> QED BY <1>1, <1>3, <1>4, <1>5, ScanGoesOn

LEMMA BlobSwept ==
  ASSUME BlobInv, NEW p \in Actors, Swept(p)
  PROVE  BlobInv'
<1>1. /\ At(p, "sweep") /\ ~At(p, "idle") /\ proc[p].step \in {"scan", "sweep"}
      /\ tx' = tx \/ (Sql(p) /\ tx' = NoTx)
      /\ UNCHANGED <<rows, did, objects, late, seen, rejected, faults>>
  BY DEF Swept, Rollback, store, At
<1>2. faults' \in 0 .. MaxFaults
  BY <1>1, BlobTypes
<1>3. CASE ~Sql(p) /\ proc[p].then = "reject"
  <2>1. NoRecheck(p)
    BY <1>3 DEF Swept
  <2>2. p \in Callers
    BY <1>3, BlobConstants DEF BlobInv, Roles, Role
  <2>3. p \in tx'.put => tx.doubt
    BY <1>1, NoTxIs DEF BlobInv, Open, At
  <2> QED BY <1>1, <1>2, <2>1, <2>2, <2>3, NoRecheckKeeps
<1>4. CASE ~(~Sql(p) /\ proc[p].then = "reject")
  <2>1. CleanedUp(p)
    BY <1>4 DEF Swept
  <2> QED BY <1>1, <1>2, <2>1, CleanedUpKeeps
<1> QED BY <1>3, <1>4


-----------------------------------------------------------------------------
(* The steps of a transaction *)

LEMMA PutIs ==
  ASSUME tx \in Txs, NEW put \in SUBSET Ids, NEW t, t = [tx EXCEPT !.put = put]
  PROVE  t \in Txs /\ t.of = tx.of /\ t.put = put /\ t.del = tx.del /\ t.doubt = tx.doubt
BY DEF Txs

LEMMA DelIs ==
  ASSUME tx \in Txs, NEW del \in SUBSET Ids, NEW t, t = [tx EXCEPT !.del = del]
  PROVE  t \in Txs /\ t.of = tx.of /\ t.put = tx.put /\ t.del = del /\ t.doubt = tx.doubt
BY DEF Txs

LEMMA DoubtIs ==
  ASSUME tx \in Txs, NEW t, t = [tx EXCEPT !.doubt = TRUE]
  PROVE  t \in Txs /\ t.of = tx.of /\ t.put = tx.put /\ t.del = tx.del /\ t.doubt = TRUE
BY DEF Txs

LEMMA BlobInsert ==
  ASSUME BlobInv, NEW p \in Ids, Insert(p)
  PROVE  BlobInv'
<1> USE DEF At
<1>1. /\ At(p, "insert") /\ p \in Actors
      /\ UNCHANGED <<objects, late, seen, rejected, faults>>
  BY BlobConstants DEF Insert, store
<1>2. CASE ~(Sql(p) /\ \A r \in rows : Key(r) # Key(p))
  BY <1>1, <1>2, ErrsOnly DEF Insert
<1>3. CASE Sql(p) /\ \A r \in rows : Key(r) # Key(p)
  <2>1. tx' = [tx EXCEPT !.put = {p}] /\ Goes(p, "promote") /\ UNCHANGED <<rows, did>>
    BY <1>3 DEF Insert
  <2>2. proc \in [Actors -> Procs] /\ Role(p)
    BY <1>1, BlobTypes DEF BlobInv, Roles
  <2> DEFINE w == Stepped(p, "promote")
  <2>3. Moved(p, w)
    BY <1>1, <2>1, <2>2, Movers
  <2>4. /\ w \in Procs /\ w.step = "promote" /\ w.id = proc[p].id /\ w.refs = proc[p].refs
        /\ w.then = proc[p].then /\ w.answer = proc[p].answer
    BY <1>1, <2>2, SteppedIs DEF Steps, Calling
  <2> HIDE DEF w
  <2>5. /\ proc' \in [Actors -> Procs] /\ proc'[p] = w
        /\ \A q \in Actors : q # p => proc'[q] = proc[q]
    BY <1>1, <2>2, <2>3, <2>4, MovedIs
  <2>6. /\ tx' \in Txs /\ tx'.of = p /\ tx'.put = {p} /\ tx'.del = tx.del /\ tx'.doubt = FALSE
    <3>1. tx \in Txs /\ {p} \in SUBSET Ids
      BY BlobTypes
    <3>2. tx' \in Txs /\ tx'.of = tx.of /\ tx'.put = {p} /\ tx'.del = tx.del /\ tx'.doubt = tx.doubt
      BY <2>1, <3>1, PutIs
    <3> QED BY <1>3, <3>1, <3>2 DEF Sql, Txs
  <2>7. Early(p) /\ Early(p)' /\ tx.put = {} /\ tx.of = p /\ ~tx.doubt
    BY <1>1, <1>3, <2>4, <2>5 DEF Early, Uploading, BlobInv, Open, Sql
  <2>8. TypeOK'
    BY <1>1, <2>1, <2>5, <2>6, BlobTypes, BlobConstants, TypesAfter
  <2>9. Roles'
    BY <1>1, <2>1, <2>2, <2>4, <2>5, BlobConstants DEF BlobInv, Roles, Role
  <2>10. Open'
    BY <1>1, <2>4, <2>5, <2>6, BlobConstants DEF Open, Sql
  <2>11. Before'
    BY <1>1, <2>1, <2>4, <2>5, <2>6, <2>7, BlobConstants DEF BlobInv, Before, Early
  <2>12. Spares'
    <3>1. \A b \in Ids : (Alive(b)' => Alive(b)) /\ (Threat(b)' => Threat(b))
      BY <1>1, <1>3, <2>1, <2>4, <2>5, <2>6, <2>7, BlobConstants DEF Alive, Threat, Sql
    <3>2. ASSUME NEW b \in Ids, At(b, "idle")' PROVE Unborn(b)'
      <4>1. b # p /\ At(b, "idle")
        BY <2>4, <2>5, <3>2, BlobConstants
      <4> QED BY <1>1, <2>4, <2>5, <2>6, <4>1 DEF BlobInv, Spares, Unborn, Refs
    <3> QED BY <3>1, <3>2 DEF BlobInv, Spares
  <2>13. Ready' /\ Stored'
    BY <1>1, <2>1, <2>4, <2>5, <2>6 DEF BlobInv, Ready, Stored
  <2>14. Refusals'
    <3>1. ~Refused(p)'
      BY <1>1, <2>4, <2>5, <2>7 DEF Refused, BlobInv, Before
    <3>2. \A b \in Ids : b # p /\ Refused(b)' => Refused(b)
      BY <1>1, <2>5, BlobConstants DEF Refused
    <3> QED BY <2>1, <2>6, <3>1, <3>2 DEF BlobInv, Refusals
  <2>15. Deletions'
    BY <2>1, <2>5, BlobConstants DEF BlobInv, Deletions
  <2> QED BY <2>8, <2>9, <2>10, <2>11, <2>12, <2>13, <2>14, <2>15 DEF BlobInv
<1> QED BY <1>2, <1>3

(* A deletion or the purge deletes rows and goes to its COMMIT. *)
LEMMA DeletesKeeps ==
  ASSUME BlobInv, NEW p \in Actors, p \notin Ids, Sql(p), NEW w \in Procs, Moved(p, w),
         w.step = "commit", Looks(p, w.refs), Role(p)',
         NEW del \in SUBSET Ids, tx' = [tx EXCEPT !.del = del],
         p \in Deleters => del = {w.id} /\ w.answer \notin {"ok", "missing"},
         UNCHANGED <<rows, did, rejected, objects, late, seen, faults>>
  PROVE  BlobInv'
<1> USE DEF At
<1>1. /\ proc' \in [Actors -> Procs] /\ proc'[p] = w
      /\ \A q \in Actors : q # p => proc'[q] = proc[q]
  BY BlobTypes, MovedIs
<1>2. \A b \in Ids : proc'[b] = proc[b] /\ b # p
  BY <1>1, BlobConstants
<1>3. /\ tx' \in Txs /\ tx'.of = p /\ tx'.put = tx.put /\ tx'.del = del /\ tx'.doubt = FALSE
      /\ tx.of = p /\ tx.doubt = FALSE /\ tx.put = {}
  <2>1. tx \in Txs
    BY BlobTypes
  <2>2. tx' \in Txs /\ tx'.of = tx.of /\ tx'.put = tx.put /\ tx'.del = del /\ tx'.doubt = tx.doubt
    BY <2>1, DelIs
  <2> QED BY <2>1, <2>2 DEF Sql, BlobInv, Open, Txs
<1>4. TypeOK'
  BY <1>1, <1>3, BlobTypes, BlobConstants, TypesAfter
<1>5. Roles'
  BY <1>1 DEF BlobInv, Roles, Role
<1>6. Open'
  BY <1>1, <1>3, BlobConstants DEF Open, Sql
<1>7. Before'
  BY <1>2, <1>3 DEF BlobInv, Before, Early
<1>8. Spares'
  <2>1. CalmStore(p)
    <3>1. \A b \in Ids : Threat(b)' => Threat(b)
      BY <1>1 DEF Threat
    <3>2. ASSUME NEW b \in Ids, At(b, "idle"), NEW ref \in Refs({b})
          PROVE  ref \notin w.refs
      <4>1. ref \notin proc[p].refs \cup objects
        BY <3>2 DEF BlobInv, Spares, Unborn
      <4>2. \A x \in Ids : ref \in Refs({x}) => x = b
        BY <3>2 DEF Refs
      <4> QED BY <3>2, <4>1, <4>2 DEF Looks
    <3> QED BY <1>1, <3>1, <3>2 DEF CalmStore
  <2>2. \A b \in Ids : Alive(b)' => Alive(b)
    BY <1>2, <1>3 DEF Alive, Sql, Early
  <2>3. ASSUME NEW b \in Ids, At(b, "idle")' PROVE Unborn(b)'
    <3>1. At(b, "idle") /\ Unborn(b)
      BY <1>2, <2>3 DEF BlobInv, Spares
    <3>2. ASSUME NEW ref \in Refs({b})
          PROVE  /\ ref \notin objects'
                 /\ \A c \in late' : ref \notin c.add \cup c.sub
                 /\ \A q \in Actors : ref \notin proc'[q].refs
                                      /\ (proc'[q].step = "remove" => proc'[q].doomed # ref)
      BY <1>1, <2>1, <3>1 DEF CalmStore, Unborn
    <3> QED BY <1>2, <1>3, <3>2 DEF Unborn, Refs
  <2> QED BY <2>1, <2>2, <2>3 DEF BlobInv, Spares, CalmStore
<1>9. Ready' /\ Stored' /\ Refusals'
  BY <1>2, <1>3 DEF BlobInv, Ready, Stored, Refusals, Refused
<1>10. Deletions'
  BY <1>1, BlobConstants DEF BlobInv, Deletions
<1> QED BY <1>4, <1>5, <1>6, <1>7, <1>8, <1>9, <1>10 DEF BlobInv

(* A request that has changed something has begun. *)
LEMMA DidBegin ==
  ASSUME BlobInv, NEW b \in Ids, b \in did
  PROVE  ~At(b, "idle")
BY DEF BlobInv, Before, Early, At

LEMMA BlobLook ==
  ASSUME BlobInv, NEW p \in Deleters, Look(p)
  PROVE  BlobInv'
<1>1. /\ At(p, "look") /\ ~At(p, "idle") /\ p \in Actors /\ p \notin Ids
      /\ UNCHANGED <<objects, late, seen, rejected, faults>>
  BY BlobConstants DEF Look, store, At
<1>2. CASE ~Sql(p)
  <2>1. Errs(p)
    BY <1>2 DEF Look
  <2> QED BY <1>1, <2>1, ErrsOnly
<1>3. CASE Sql(p) /\ proc[p].id \notin rows
  <2>1. tx' = NoTx /\ Answers(p, "reject", "missing") /\ UNCHANGED <<rows, did>>
    BY <1>3 DEF Look
  <2> QED BY <1>1, <1>3, <2>1, BlobMissing
<1>4. CASE Sql(p) /\ proc[p].id \in rows
  <2>1. tx' = [tx EXCEPT !.del = {proc[p].id}] /\ Goes(p, "commit") /\ UNCHANGED <<rows, did>>
    BY <1>4 DEF Look
  <2>2. proc \in [Actors -> Procs] /\ Role(p) /\ {proc[p].id} \in SUBSET Ids
    BY <1>1, <1>4, BlobTypes DEF BlobInv, Roles
  <2> DEFINE w == Stepped(p, "commit")
  <2>3. Moved(p, w)
    BY <1>1, <2>1, <2>2, Movers
  <2>4. /\ w \in Procs /\ w.step = "commit" /\ w.id = proc[p].id /\ w.refs = proc[p].refs
        /\ w.then = proc[p].then /\ w.answer = proc[p].answer
    BY <1>1, <2>2, SteppedIs DEF Steps
  <2> HIDE DEF w
  <2>5. proc'[p] = w
    BY <1>1, <2>2, <2>3, <2>4, MovedIs
  <2>6. Role(p)'
    BY <1>1, <2>1, <2>2, <2>4, <2>5, BlobConstants DEF Role, At, Uploading
  <2>7. w.answer \notin {"ok", "missing"}
    BY <1>4, <2>4 DEF BlobInv, Deletions
  <2>8. Looks(p, w.refs)
    BY <2>4 DEF Looks
  <2> QED BY <1>1, <1>4, <2>1, <2>2, <2>3, <2>4, <2>6, <2>7, <2>8, DeletesKeeps
<1> QED BY <1>2, <1>3, <1>4

LEMMA BlobExpire ==
  ASSUME BlobInv, NEW expired \in SUBSET rows, Expire(expired)
  PROVE  BlobInv'
<1> DEFINE p == Purger
<1>1. /\ At(p, "expire") /\ ~At(p, "idle") /\ p \in Actors /\ p \notin Ids /\ p \notin Deleters
      /\ UNCHANGED <<objects, late, seen, rejected, faults>>
  BY BlobConstants DEF Expire, store, At
<1>2. CASE ~Sql(p)
  <2>1. Errs(p)
    BY <1>2 DEF Expire
  <2> QED BY <1>1, <2>1, ErrsOnly
<1>3. CASE Sql(p)
  <2>1. /\ tx' = [tx EXCEPT !.del = expired] /\ UNCHANGED <<rows, did>>
        /\ Sweeps(p, "commit", Refs(expired), "done", "none")
    BY <1>3 DEF Expire
  <2>2. /\ proc \in [Actors -> Procs] /\ expired \in SUBSET Ids /\ Refs(expired) \in SUBSET Refs(Ids)
        /\ \A b \in expired : b \in did
    BY BlobTypes, RefsIn DEF BlobInv, Before
  <2> DEFINE w == Sweeping(p, "commit", Refs(expired), "done", "none")
  <2>3. Moved(p, w)
    BY <1>1, <2>1, <2>2, Movers
  <2>4. /\ w \in Procs /\ w.step = "commit" /\ w.refs = Refs(expired)
        /\ w.then = "done" /\ w.answer = "none"
    BY <1>1, <2>2, SweepingIs DEF Steps
  <2> HIDE DEF w
  <2>5. proc'[p] = w
    BY <1>1, <2>2, <2>3, <2>4, MovedIs
  <2>6. Role(p)'
    BY <1>1, <2>4, <2>5, BlobConstants DEF Role, At, Uploading
  <2>7. Looks(p, w.refs)
    <3>1. ASSUME NEW ref \in Refs(expired) PROVE \E b \in Ids : ~At(b, "idle") /\ ref \in Refs({b})
      <4>1. PICK b \in expired : ref \in Refs({b})
        BY DEF Refs
      <4> QED BY <2>2, <4>1, DidBegin
    <3> QED BY <2>4, <3>1 DEF Looks
  <2> QED BY <1>1, <1>3, <2>1, <2>2, <2>3, <2>4, <2>6, <2>7, DeletesKeeps
<1> QED BY <1>2, <1>3

LEMMA BlobJudge ==
  ASSUME BlobInv, NEW p \in Actors, NEW ref \in Refs(Ids), Judge(p, ref)
  PROVE  BlobInv'
<1>1. /\ At(p, "sweep") /\ ref \in proc[p].refs
      /\ UNCHANGED <<rows, tx, did, objects, late, seen, rejected, faults>>
  BY DEF Judge, database, store
<1>2. proc \in [Actors -> Procs] /\ proc[p] \in Procs /\ Role(p) /\ StoreTypes
  BY <1>1, BlobTypes, SameStore DEF BlobInv, Roles
<1>3. CASE ~(Sql(p) /\ ~Spared(ref))
  <2> DEFINE w == [proc[p] EXCEPT !.refs = @ \ {ref}]
  <2>1. proc' = [proc EXCEPT ![p].refs = @ \ {ref}, ![p].doomed = @, ![p].step = @]
    BY <1>3 DEF Judge
  <2>2. proc' = [proc EXCEPT ![p] = proc'[p]] /\ proc'[p] = w
    BY <1>2, <2>1 DEF Procs
  <2>3. Moved(p, w)
    BY <2>2 DEF Moved
  <2>4. /\ w \in Procs /\ w.step = "sweep" /\ w.id = proc[p].id /\ w.refs = proc[p].refs \ {ref}
        /\ w.then = proc[p].then /\ w.answer = proc[p].answer
    BY <1>1, <1>2 DEF Procs, At
  <2> HIDE DEF w
  <2>5. Looks(p, w.refs) /\ proc[p].step \in {"list", "sweep"}
    BY <1>1, <2>4 DEF Looks, At
  <2> QED BY <1>1, <1>2, <2>3, <2>4, <2>5, ScanGoesOn
<1>4. CASE Sql(p) /\ ~Spared(ref)
  <2> DEFINE v == [proc[p] EXCEPT !.refs = @ \ {ref}, !.doomed = ref]
             w == [v EXCEPT !.step = "remove"]
  <2>1. proc' = [proc EXCEPT ![p].refs = @ \ {ref}, ![p].doomed = ref, ![p].step = "remove"]
    BY <1>4 DEF Judge
  <2>2. proc' = [proc EXCEPT ![p] = proc'[p]] /\ proc'[p] = w
    BY <1>2, <2>1 DEF Procs
  <2>3. Moved(p, w)
    BY <2>2 DEF Moved
  <2>4. /\ v \in Procs /\ v.id = proc[p].id /\ v.refs = proc[p].refs \ {ref} /\ v.doomed = ref
        /\ v.then = proc[p].then /\ v.answer = proc[p].answer
    BY <1>1, <1>2 DEF Procs
  <2> HIDE DEF v
  <2>5. /\ w \in Procs /\ w.step = "remove" /\ w.id = v.id /\ w.refs = v.refs /\ w.doomed = v.doomed
        /\ w.then = v.then /\ w.answer = v.answer
    BY <2>4 DEF Procs, Steps, Calling
  <2> HIDE DEF w
  <2>6. proc'[p] = w /\ \A q \in Actors : q # p => proc'[q] = proc[q]
    BY <1>2, <2>3, <2>5, MovedIs
  <2>7. Retreats(p, w)
    BY <1>1, <2>3, <2>5 DEF Retreats
  <2>8. TypeOK'
    BY <1>1, <1>2, <2>7, BlobTypes, RetreatTypes
  <2>9. ref # <<>>
    BY DEF Refs
  <2>10. Role(p)'
    BY <1>1, <1>2, <2>4, <2>5, <2>6, <2>9 DEF Role, At, Uploading
  <2>11. CalmStore(p)
    <3>1. ASSUME NEW b \in Ids, ref = <<b, "final">> PROVE ~Alive(b)
      <4>1. b \notin rows
        BY <1>4, <3>1 DEF Spared
      <4>2. ~(Sql(b) /\ Early(b))
        BY <1>1, <1>4 DEF Sql, Early, At, Uploading
      <4> QED BY <1>4, <4>1, <4>2 DEF Alive, Sql
    <3>2. \A b \in Ids : Threat(b)' => Threat(b) \/ ~Alive(b)
      <4> SUFFICES ASSUME NEW b \in Ids, Threat(b)' PROVE Threat(b) \/ ~Alive(b)
        OBVIOUS
      <4>1. CASE ref = <<b, "final">>
        BY <3>1, <4>1
      <4>2. CASE ref # <<b, "final">>
        BY <1>1, <2>4, <2>5, <2>6, <4>2 DEF Threat, At
      <4> QED BY <4>1, <4>2
    <3>3. ASSUME NEW b \in Ids, At(b, "idle"), NEW r \in Refs({b})
          PROVE  r \notin proc'[p].refs /\ proc'[p].doomed # r
      <4>1. r \notin proc[p].refs
        BY <3>3 DEF BlobInv, Spares, Unborn
      <4> QED BY <1>1, <2>4, <2>5, <2>6, <4>1
    <3> QED BY <1>1, <3>2, <3>3 DEF CalmStore
  <2>12. CalmUpload(p)
    <3> SUFFICES ASSUME p \in Ids PROVE CalmUpload(p)
      BY DEF CalmUpload
    <3>1. ~Early(p)' /\ (Refused(p)' => Refused(p))
      BY <1>1, <2>4, <2>5, <2>6 DEF Refused, Early, Uploading, At
    <3>2. p \notin tx'.put
      BY <1>1, <1>4 DEF BlobInv, Open, Sql, At
    <3>3. proc'[p].answer = "ok" => p \in did
      BY <2>4, <2>5, <2>6 DEF BlobInv, Before
    <3> QED BY <3>1, <3>2, <3>3 DEF CalmUpload
  <2>13. CalmDeletion(p)
    BY <2>4, <2>5, <2>6 DEF CalmDeletion, BlobInv, Deletions, At
  <2>14. Calm(p)
    BY <1>1, <2>6, <2>10, <2>11, <2>12, <2>13 DEF Calm
  <2> QED BY <2>8, <2>14, CalmKeeps
<1> QED BY <1>3, <1>4

(* The recheck of an upload or of a deletion *)
LEMMA BlobCheck ==
  ASSUME BlobInv, NEW p \in Actors, Check(p)
  PROVE  BlobInv'
<1>1. /\ At(p, "check") /\ ~At(p, "idle") /\ p \in Callers /\ Role(p) /\ (p \notin Ids => p \in Deleters)
      /\ UNCHANGED <<rows, did, objects, late, seen, rejected, faults>>
      /\ proc \in [Actors -> Procs] /\ proc[p] \in Procs
  BY BlobTypes, BlobConstants DEF Check, store, At, BlobInv, Roles, Role
<1>2. faults' \in 0 .. MaxFaults /\ StoreTypes
  BY <1>1, BlobTypes, SameStore
<1>3. p \in tx.put => tx.doubt
  BY <1>1 DEF BlobInv, Open, At
<1>4. CASE ~Sql(p)
  <2>1. NoRecheck(p) /\ UNCHANGED tx
    BY <1>4 DEF Check, database
  <2> QED BY <1>1, <1>2, <1>3, <2>1, NoRecheckKeeps
<1>5. CASE Sql(p) /\ p \in Ids /\ p \notin rows
  <2>1. Sweeps(p, "sweep", Refs({p}), "reject", "none") /\ UNCHANGED tx
    BY <1>5, BlobConstants DEF Check
  <2>2. Refs({p}) \in SUBSET Refs(Ids)
    BY <1>5 DEF Refs
  <2> DEFINE w == Sweeping(p, "sweep", Refs({p}), "reject", "none")
  <2>3. Moved(p, w)
    BY <1>1, <2>1, Movers
  <2>4. /\ w \in Procs /\ w.step = "sweep" /\ w.id = proc[p].id /\ w.refs = Refs({p})
        /\ w.then = "reject" /\ w.answer = "none"
    BY <1>1, <2>2, SweepingIs DEF Steps
  <2> HIDE DEF w
  <2>5. proc'[p] = w /\ Retreats(p, w)
    BY <1>1, <2>1, <2>3, <2>4, MovedIs DEF Retreats
  <2>6. Role(p)'
    BY <1>1, <1>5, <2>4, <2>5, BlobConstants DEF Role, At, Uploading
  <2>7. CalmUpload(p)
    <3>1. ~Early(p)' /\ p \notin rows \cup tx'.put /\ proc'[p].answer # "ok"
      BY <1>3, <1>5, <2>1, <2>4, <2>5 DEF Early, Uploading, At, Sql
    <3> QED BY <3>1 DEF CalmUpload
  <2>8. CalmDeletion(p)
    BY <1>5, BlobConstants DEF CalmDeletion
  <2>9. Looks(p, w.refs)
    BY <1>1, <1>5, <2>4 DEF Looks
  <2> QED BY <1>1, <1>2, <2>4, <2>5, <2>6, <2>7, <2>8, <2>9, QuietKeeps, BlobTypes
<1>6. CASE Sql(p) /\ ~(p \in Ids /\ p \notin rows)
  <2>1. Rollback(p) /\ tx' = NoTx
    BY <1>1, <1>6 DEF Check, Rollback
  <2>2. p \notin tx'.put
    BY <2>1, NoTxIs
  <2>3. CASE p \in Ids
    <3>1. Answers(p, "done", "ok")
      BY <1>1, <1>6, <2>3, BlobConstants DEF Check
    <3> DEFINE w == Answered(p, "done", "ok")
    <3>2. Moved(p, w)
      BY <1>1, <3>1, Movers
    <3>3. /\ w \in Procs /\ w.step = "done" /\ w.id = proc[p].id /\ w.refs = proc[p].refs
          /\ w.then = proc[p].then /\ w.answer = "ok"
      BY <1>1, AnsweredIs DEF Steps
    <3> HIDE DEF w
    <3>4. proc'[p] = w /\ Retreats(p, w)
      BY <1>1, <1>6, <2>1, <3>2, <3>3, MovedIs DEF Retreats
    <3>5. Role(p)'
      BY <1>1, <2>3, <3>3, <3>4, BlobConstants DEF Role, At, Uploading
    <3>6. CalmUpload(p)
      <4>1. ~Early(p)' /\ (Refused(p)' => Refused(p))
        BY <1>1, <3>3, <3>4 DEF Early, Uploading, At, Refused
      <4>2. p \in did
        BY <1>6, <2>3 DEF BlobInv, Before
      <4> QED BY <2>2, <4>1, <4>2 DEF CalmUpload
    <3>7. CalmDeletion(p)
      BY <2>3, BlobConstants DEF CalmDeletion
    <3>8. Looks(p, w.refs)
      BY <3>3 DEF Looks
    <3> QED BY <1>1, <1>2, <3>3, <3>4, <3>5, <3>6, <3>7, <3>8, QuietKeeps, BlobTypes
  <2>4. CASE p \notin Ids /\ proc[p].id \notin rows
    <3>1. Sweeps(p, "scan", Refs({proc[p].id}), "done", "ok")
      <4>1. Committed(p)
        BY <1>1, <1>6, <2>4 DEF Check
      <4> QED BY <1>1, <2>4, <4>1 DEF Committed
    <3>2. PICK refs \in SUBSET Refs(Ids) : refs = Refs({proc[p].id})
      BY <1>1, <2>4 DEF Role, Refs
    <3> DEFINE w == Sweeping(p, "scan", refs, "done", "ok")
    <3>3. Moved(p, w)
      BY <1>1, <3>1, <3>2, Movers
    <3>4. /\ w \in Procs /\ w.step = "scan" /\ w.id = proc[p].id /\ w.refs = refs
          /\ w.then = "done" /\ w.answer = "ok"
      BY <1>1, SweepingIs DEF Steps, Waiting
    <3> HIDE DEF w
    <3>5. proc'[p] = w /\ Retreats(p, w)
      BY <1>1, <1>6, <2>1, <3>3, <3>4, MovedIs DEF Retreats
    <3>6. Role(p)'
      BY <1>1, <2>4, <3>4, <3>5, BlobConstants DEF Role, At, Uploading
    <3>7. CalmUpload(p)
      BY <2>4 DEF CalmUpload
    <3>8. CalmDeletion(p)
      BY <2>4, <3>4, <3>5 DEF CalmDeletion, At
    <3>9. Looks(p, w.refs)
      <4>1. proc[p].id \in Ids /\ proc[p].id \in did
        BY <1>1, <2>4 DEF Role
      <4> QED BY <3>2, <3>4, <4>1, DidBegin DEF Looks
    <3> QED BY <1>1, <1>2, <3>4, <3>5, <3>6, <3>7, <3>8, <3>9, QuietKeeps, BlobTypes
  <2>5. CASE p \notin Ids /\ proc[p].id \in rows
    <3>1. Goes(p, "reject")
      BY <1>1, <1>6, <2>5, BlobConstants DEF Check
    <3> DEFINE w == Stepped(p, "reject")
    <3>2. Moved(p, w)
      BY <1>1, <3>1, Movers
    <3>3. /\ w \in Procs /\ w.step = "reject" /\ w.id = proc[p].id /\ w.refs = proc[p].refs
          /\ w.then = proc[p].then /\ w.answer = proc[p].answer
      BY <1>1, SteppedIs DEF Steps
    <3> HIDE DEF w
    <3>4. proc'[p] = w /\ Retreats(p, w)
      BY <1>1, <1>6, <2>1, <3>2, <3>3, MovedIs DEF Retreats
    <3>5. Role(p)'
      BY <1>1, <2>5, <3>3, <3>4, BlobConstants DEF Role, At, Uploading
    <3>6. CalmUpload(p)
      BY <2>5 DEF CalmUpload
    <3>7. CalmDeletion(p)
      BY <3>3, <3>4 DEF CalmDeletion, BlobInv, Deletions, At
    <3>8. Looks(p, w.refs)
      BY <3>3 DEF Looks
    <3> QED BY <1>1, <1>2, <3>3, <3>4, <3>5, <3>6, <3>7, <3>8, QuietKeeps, BlobTypes
  <2> QED BY <2>3, <2>4, <2>5
<1> QED BY <1>4, <1>5, <1>6

-----------------------------------------------------------------------------
(* COMMIT.  Whoever commits goes to "scan" and looks at blobs that have    *)
(* begun; a COMMIT in doubt is resolved while its actor is elsewhere.      *)

LEMMA CommitsKeeps ==
  ASSUME BlobInv, NEW p \in Actors, Commits, tx.of = p,
         tx.doubt \/ At(p, "commit"), proc' \in [Actors -> Procs],
         \A q \in Actors : q # p => proc'[q] = proc[q],
         \/ tx.doubt /\ proc'[p] = proc[p]
         \/ /\ ~tx.doubt /\ proc'[p].step = "scan" /\ proc'[p].id = proc[p].id /\ Looks(p, proc'[p].refs)
            /\ p \in Ids => proc'[p].then = "done" /\ proc'[p].answer = "ok"
            /\ p \in Deleters => proc'[p].then = "done" /\ tx.del = {proc[p].id}
            /\ p = Purger => proc'[p].then # "reject",
         UNCHANGED <<rejected, objects, late, seen, faults>>
  PROVE  BlobInv'
<1> USE DEF At
<1>1. /\ rows' = (rows \cup tx.put) \ tx.del /\ did' = did \cup {p} /\ tx' = NoTx
      /\ rows' \subseteq rows \cup tx.put
  BY DEF Commits
<1>2. /\ tx'.of = Nobody /\ tx'.put = {} /\ tx'.doubt = FALSE /\ tx' \in Txs
      /\ \A q \in Actors : ~Sql(q)'
  BY <1>1, NoTxIs, BlobConstants DEF Sql
<1>3. tx.put # {} => p \in Ids /\ tx.put = {p}
  BY DEF BlobInv, Open
<1>4. TypeOK'
  <2>1. rows' \subseteq Ids /\ did' \subseteq Actors
    BY <1>1, <1>3, BlobTypes
  <2> QED BY <1>1, <1>2, <2>1, BlobTypes, TypesAfter
<1>5. Roles'
  <2>1. \A q \in Actors : Role(q)
    BY DEF BlobInv, Roles
  <2>2. \A q \in Actors : q # p => Role(q)'
    BY <1>1, <2>1 DEF Role
  <2>3. Role(p)'
    <3>1. CASE proc'[p] = proc[p]
      BY <1>1, <2>1, <3>1 DEF Role
    <3>2. CASE proc'[p] # proc[p]
      <4>1. At(p, "commit") /\ proc'[p].step = "scan" /\ proc'[p].id = proc[p].id
        BY <3>2
      <4>2. p \in Callers => proc'[p].then = "done"
        BY <3>2, BlobConstants
      <4>3. p = Purger => proc'[p].then # "reject"
        BY <3>2
      <4> QED BY <1>1, <2>1, <4>1, <4>2, <4>3 DEF Role, Uploading
    <3> QED BY <3>1, <3>2
  <2> QED BY <2>2, <2>3 DEF Roles
<1>6. Open'
  BY <1>2, BlobConstants DEF Open
<1>7. Before'
  <2>1. \A b \in Ids : b = p => ~Early(b)'
    BY DEF BlobInv, Open, Early, Uploading
  <2>2. \A b \in Ids : b # p => (b \in did' <=> b \in did) /\ (b \in rows' => b \in rows)
    BY <1>1, <1>3
  <2>3. p \in did'
    BY <1>1
  <2> QED BY <1>2, <2>1, <2>2, <2>3, BlobConstants DEF BlobInv, Before, Early
<1>8. Spares'
  <2>1. \A b \in Ids : Threat(b)' => Threat(b)
    BY DEF Threat, BlobInv, Open
  <2>2. ASSUME NEW b \in Ids, Alive(b)' PROVE Alive(b)
    <3>1. b \in rows \/ b \in tx.put
      BY <1>1, <1>2, <2>2, BlobConstants DEF Alive
    <3>2. b \in tx.put => b = p
      BY <1>3
    <3> QED BY <3>1, <3>2 DEF Alive, Sql, Early
  <2>3. ASSUME NEW b \in Ids, At(b, "idle")' PROVE Unborn(b)'
    <3>1. b # p /\ At(b, "idle") /\ Unborn(b)
      <4>1. b # p
        BY <2>3 DEF BlobInv, Open, Early
      <4> QED BY <2>3, <4>1, BlobConstants DEF BlobInv, Spares
    <3>2. tx'.of # b
      BY <1>2, <2>3, BlobConstants
    <3>3. ASSUME NEW ref \in Refs({b})
          PROVE  /\ ref \notin objects'
                 /\ \A c \in late' : ref \notin c.add \cup c.sub
                 /\ \A q \in Actors : ref \notin proc'[q].refs
                                      /\ (proc'[q].step = "remove" => proc'[q].doomed # ref)
      <4>1. ref \notin proc'[p].refs /\ (proc'[p].step = "remove" => proc'[p].doomed # ref)
        <5>1. CASE proc'[p] = proc[p]
          BY <3>1, <3>3, <5>1 DEF Unborn
        <5>2. CASE proc'[p] # proc[p]
          <6>1. ref \notin proc[p].refs \cup objects
            BY <3>1, <3>3 DEF Unborn
          <6>2. \A x \in Ids : ref \in Refs({x}) => x = b
            BY <3>3 DEF Refs
          <6> QED BY <3>1, <5>2, <6>1, <6>2 DEF Looks
        <5> QED BY <5>1, <5>2
      <4> QED BY <3>1, <3>3, <4>1 DEF Unborn
    <3> QED BY <3>2, <3>3 DEF Unborn, Refs
  <2> QED BY <2>1, <2>2, <2>3 DEF BlobInv, Spares
<1>9. Ready'
  BY <1>2 DEF Ready
<1>10. Stored'
  <2> SUFFICES ASSUME NEW b \in rows' PROVE <<b, "final">> \in objects'
    BY DEF Stored
  <2>1. CASE b \in rows
    BY <2>1 DEF BlobInv, Stored
  <2>2. CASE b \notin rows
    <3>1. b \in tx.put /\ b \in Ids
      BY <1>1, <1>3, <2>2
    <3> QED BY <1>3, <3>1 DEF BlobInv, Ready
  <2> QED BY <2>1, <2>2
<1>11. Refusals'
  <2> SUFFICES ASSUME NEW b \in Ids, Refused(b)' PROVE b \notin rows' \cup tx'.put
    BY DEF Refusals
  <2>1. Refused(b)
    BY BlobConstants DEF Refused
  <2> QED BY <1>1, <1>2, <2>1 DEF BlobInv, Refusals
<1>12. Deletions'
  <2> SUFFICES ASSUME NEW d \in Deleters, proc'[d].answer \in {"ok", "missing"}
               PROVE  proc'[d].id \notin rows'
    BY DEF Deletions
  <2>1. CASE proc'[d] = proc[d]
    <3>1. proc[d].id \notin rows /\ ~At(d, "idle")
      BY <2>1, BlobConstants DEF BlobInv, Deletions, Roles, Role
    <3>2. proc[d].id \in did \cap Ids
      BY <3>1, BlobConstants DEF BlobInv, Roles, Role
    <3>3. proc[d].id \notin tx.put
      BY <3>2 DEF BlobInv, Before
    <3> QED BY <1>1, <2>1, <3>1, <3>3
  <2>2. CASE proc'[d] # proc[d]
    BY <1>1, <2>2, BlobConstants
  <2> QED BY <2>1, <2>2
<1> QED BY <1>4, <1>5, <1>6, <1>7, <1>8, <1>9, <1>10, <1>11, <1>12 DEF BlobInv

LEMMA BlobResolve ==
  ASSUME BlobInv, NEW committed \in BOOLEAN, Resolve(committed)
  PROVE  BlobInv'
<1>1. tx.doubt /\ UNCHANGED <<proc, rejected, objects, late, seen, faults>>
  BY DEF Resolve, store
<1>2. tx.of \in Actors
  BY <1>1, BlobTypes, NoTxIs DEF Txs
<1>3. CASE committed
  <2>1. Commits
    BY <1>3 DEF Resolve
  <2>2. proc' \in [Actors -> Procs]
    BY <1>1, BlobTypes
  <2> QED BY <1>1, <1>2, <2>1, <2>2, CommitsKeeps
<1>4. CASE ~committed
  <2>1. tx' = NoTx /\ UNCHANGED <<rows, did>>
    BY <1>4 DEF Resolve
  <2>2. TypeOK'
    BY <1>1, <2>1, BlobTypes, NoTxIs, TypesAfter
  <2>3. /\ tx'.of = Nobody /\ tx'.put = {} /\ tx'.doubt = FALSE /\ \A q \in Actors : ~Sql(q)'
    BY <2>1, NoTxIs, BlobConstants DEF Sql
  <2>4. Roles'
    BY <1>1, <2>1 DEF BlobInv, Roles, Role, At
  <2>5. Open' /\ Ready'
    BY <2>3, BlobConstants DEF Open, Ready
  <2>6. Before' /\ Stored' /\ Deletions'
    BY <1>1, <2>1, <2>3 DEF BlobInv, Before, Early, Stored, Deletions
  <2>7. Refusals'
    BY <1>1, <2>1, <2>3 DEF BlobInv, Refusals, Refused, At
  <2>8. Spares'
    <3>1. \A b \in Ids : (Threat(b)' <=> Threat(b)) /\ (Alive(b)' => Alive(b)) /\ tx'.of # b
      BY <1>1, <2>1, <2>3, BlobConstants DEF Alive, Threat, At
    <3>2. \A b \in Ids : At(b, "idle")' => Unborn(b)'
      BY <1>1, <3>1 DEF BlobInv, Spares, Unborn, At, Refs
    <3> QED BY <3>1, <3>2 DEF BlobInv, Spares
  <2> QED BY <2>2, <2>4, <2>5, <2>6, <2>7, <2>8 DEF BlobInv
<1> QED BY <1>3, <1>4

LEMMA BlobCommit ==
  ASSUME BlobInv, NEW p \in Actors, Commit(p)
  PROVE  BlobInv'
<1>1. /\ At(p, "commit") /\ ~At(p, "idle") /\ UNCHANGED <<objects, late, seen, rejected, faults>>
      /\ proc \in [Actors -> Procs] /\ proc[p] \in Procs /\ Role(p)
  BY BlobTypes DEF Commit, store, At, BlobInv, Roles
<1>2. CASE ~Sql(p)
  BY <1>1, <1>2, ErrsOnly DEF Commit
<1>3. CASE Sql(p)
  <2>1. Commits /\ Committed(p) /\ tx.of = p
    BY <1>3 DEF Commit, Sql
  <2>2. PICK refs \in SUBSET Refs(Ids), then \in {"idle", "scan", "done"}, answer \in {"ok", "none"} :
          /\ Sweeps(p, "scan", refs, then, answer) /\ Looks(p, refs)
          /\ p \in Ids => then = "done" /\ answer = "ok"
          /\ p \in Deleters => then = "done"
    <3>1. CASE p \in Ids
      <4>1. PICK refs \in SUBSET Refs(Ids) : refs = {}
        OBVIOUS
      <4>2. p \notin Deleters
        BY <3>1, BlobConstants
      <4>3. Sweeps(p, "scan", refs, "done", "ok")
        BY <2>1, <3>1, <4>1, <4>2 DEF Committed
      <4>4. Looks(p, refs)
        BY <4>1 DEF Looks
      <4> QED BY <4>2, <4>3, <4>4
    <3>2. CASE p \in Deleters
      <4>1. p \notin Ids /\ proc[p].id \in did \cap Ids
        BY <1>1, <3>2, BlobConstants DEF Role
      <4>2. PICK refs \in SUBSET Refs(Ids) : refs = Refs({proc[p].id})
        BY <4>1 DEF Refs
      <4>3. Sweeps(p, "scan", refs, "done", "ok")
        BY <2>1, <3>2, <4>1, <4>2 DEF Committed
      <4>4. Looks(p, refs)
        BY <4>1, <4>2, DidBegin DEF Looks
      <4> QED BY <3>2, <4>1, <4>3, <4>4
    <3>3. CASE p = Purger
      <4>1. p \notin Ids /\ p \notin Deleters
        BY <3>3, BlobConstants
      <4>2. PICK then \in {"idle", "scan"} : then = IF proc[p].refs = {} THEN "idle" ELSE "scan"
        OBVIOUS
      <4>3. Sweeps(p, "scan", proc[p].refs, then, "none")
        BY <2>1, <4>1, <4>2 DEF Committed
      <4>4. proc[p].refs \in SUBSET Refs(Ids) /\ Looks(p, proc[p].refs)
        BY <1>1, OldRefs DEF Procs
      <4> QED BY <4>1, <4>2, <4>3, <4>4
    <3> QED BY <3>1, <3>2, <3>3, BlobConstants
  <2> DEFINE w == Sweeping(p, "scan", refs, then, answer)
  <2>3. Moved(p, w)
    BY <1>1, <2>2, Movers
  <2>4. /\ w \in Procs /\ w.step = "scan" /\ w.id = proc[p].id /\ w.refs = refs
        /\ w.then = then /\ w.answer = answer
    BY <1>1, SweepingIs DEF Steps, Waiting
  <2> HIDE DEF w
  <2>5. /\ proc' \in [Actors -> Procs] /\ proc'[p] = w
        /\ \A q \in Actors : q # p => proc'[q] = proc[q]
    BY <1>1, <2>3, <2>4, MovedIs
  <2>6. p \in Deleters => tx.del = {proc[p].id}
    BY <1>1, <1>3 DEF BlobInv, Open
  <2>7. /\ ~tx.doubt /\ proc'[p].step = "scan" /\ proc'[p].id = proc[p].id /\ Looks(p, proc'[p].refs)
        /\ p \in Ids => proc'[p].then = "done" /\ proc'[p].answer = "ok"
        /\ p \in Deleters => proc'[p].then = "done" /\ tx.del = {proc[p].id}
        /\ p = Purger => proc'[p].then # "reject"
    BY <1>3, <2>2, <2>4, <2>5, <2>6 DEF Sql
  <2> QED BY <1>1, <2>1, <2>5, <2>7, CommitsKeeps
<1> QED BY <1>2, <1>3

LEMMA BlobCommitUnanswered ==
  ASSUME BlobInv, NEW p \in Actors, CommitUnanswered(p)
  PROVE  BlobInv'
<1> USE DEF At
<1>1. /\ At(p, "commit") /\ Sql(p) /\ faults' \in 0 .. MaxFaults
      /\ tx' = [tx EXCEPT !.doubt = TRUE] /\ Recovers(p)
      /\ UNCHANGED <<rows, did, rejected, objects, late, seen>>
  BY FaultIs DEF CommitUnanswered, store
<1>2. PICK w \in Procs :
        /\ Moved(p, w) /\ w.refs \subseteq proc[p].refs
        /\ p = Purger => w = Fresh(p)
        /\ p # Purger => /\ w.step \in {"recheck", "reject"} /\ (p \in Ids => w.step = "recheck")
                         /\ w.id = proc[p].id /\ w.then = proc[p].then /\ w.answer = proc[p].answer
  BY <1>1, ErrsIs
<1>3. /\ proc' \in [Actors -> Procs] /\ proc'[p] = w
      /\ \A q \in Actors : q # p => proc'[q] = proc[q]
  BY <1>2, BlobTypes, MovedIs
<1>4. tx \in Txs /\ tx' \in Txs /\ tx'.of = p /\ tx'.put = tx.put /\ tx'.doubt = TRUE /\ tx.doubt = FALSE
      /\ tx.of = p
  <2>1. tx \in Txs
    BY BlobTypes
  <2>2. tx' \in Txs /\ tx'.of = tx.of /\ tx'.put = tx.put /\ tx'.del = tx.del /\ tx'.doubt = TRUE
    BY <1>1, <2>1, DoubtIs
  <2> QED BY <1>1, <2>1, <2>2 DEF Sql, Txs
<1>5. p = Purger => w.step = "idle" /\ w.then = "done" /\ w.answer = "none"
  BY <1>2, FreshIs
<1>6. w.step \notin {"remove", "commit"} /\ (w.step = "idle" => p \notin Ids)
  BY <1>2, <1>5, BlobConstants
<1>7. TypeOK'
  <2>1. tx'.of # Nobody
    BY <1>4, BlobConstants
  <2> QED BY <1>1, <1>3, <1>4, <2>1, BlobTypes, TypesAfter
<1>8. Roles'
  <2>1. \A q \in Actors : Role(q)
    BY DEF BlobInv, Roles
  <2>2. \A q \in Actors : q # p => Role(q)'
    BY <1>1, <1>3, <2>1 DEF Role
  <2>3. Role(p)'
    BY <1>1, <1>2, <1>3, <1>5, <2>1, BlobConstants DEF Role, Uploading
  <2> QED BY <2>2, <2>3 DEF Roles
<1>9. p \in Ids => /\ w.step = "recheck" /\ w.then = "done" /\ w.answer = "none" /\ p \notin rejected
  BY <1>1, <1>2, BlobConstants DEF BlobInv, Before, Early
<1>10. Open'
  <2>1. tx.put # {} => tx.put = {p} /\ p \in Ids
    BY <1>4 DEF BlobInv, Open
  <2> QED BY <1>1, <1>3, <1>4, <1>9, <2>1, BlobConstants DEF Open, Sql, Early, Uploading
<1>11. Before'
  BY <1>1, <1>3, <1>4, <1>9, BlobConstants DEF BlobInv, Before, Early, Uploading
<1>12. Spares'
  <2>1. \A b \in Ids : Threat(b)' => Threat(b)
    BY <1>1, <1>3, <1>6 DEF Threat
  <2>2. ASSUME NEW b \in Ids, Alive(b)' PROVE Alive(b)
    <3>1. b \in tx.put => b = p
      BY <1>4 DEF BlobInv, Open
    <3> QED BY <1>1, <1>4, <2>2, <3>1 DEF Alive, Sql, Early
  <2>3. ASSUME NEW b \in Ids, At(b, "idle")' PROVE Unborn(b)'
    <3>1. b # p /\ At(b, "idle") /\ Unborn(b)
      BY <1>3, <1>6, <2>3, BlobConstants DEF BlobInv, Spares
    <3> QED BY <1>1, <1>2, <1>3, <1>4, <1>6, <3>1 DEF Unborn, Refs
  <2> QED BY <2>1, <2>2, <2>3 DEF BlobInv, Spares
<1>13. Ready'
  <2>1. \A b \in Ids : b \in tx.put => b = p
    BY <1>4 DEF BlobInv, Open
  <2> QED BY <1>1, <1>4, <2>1 DEF BlobInv, Ready
<1>14. Stored'
  BY <1>1 DEF BlobInv, Stored
<1>15. Refusals'
  <2>1. \A b \in Ids : Refused(b)' => Refused(b)
    BY <1>1, <1>2, <1>3, <1>9, BlobConstants DEF Refused
  <2> QED BY <1>1, <1>4, <2>1 DEF BlobInv, Refusals
<1>16. Deletions'
  BY <1>1, <1>2, <1>3, BlobConstants DEF BlobInv, Deletions
<1> QED BY <1>7, <1>8, <1>10, <1>11, <1>12, <1>13, <1>14, <1>15, <1>16 DEF BlobInv

(* A call that was given up takes effect after all. *)
LEMMA BlobTakesEffect ==
  ASSUME BlobInv, NEW call \in late, TakesEffect(call)
  PROVE  BlobInv'
<1> USE DEF At
<1>1. /\ objects' = (objects \ call.sub) \cup call.add /\ late' = late \ {call}
      /\ UNCHANGED <<seen, rows, tx, did, proc, rejected, faults>>
      /\ Purger \in Actors /\ Purger \notin Ids /\ Purger \notin Deleters
  BY BlobConstants DEF TakesEffect, Applied, database
<1>2. call.add \subseteq Refs(Ids)
  BY BlobTypes DEF CallsOfStore
<1>3. TypeOK'
  BY <1>1, <1>2, BlobTypes, TypesAfter
<1>4. CalmStore(Purger)
  <2>1. \A b \in Ids : <<b, "final">> \in objects /\ <<b, "final">> \notin objects' => Threat(b)
    BY <1>1 DEF Threat
  <2>2. \A b \in Ids : Threat(b)' => Threat(b)
    BY <1>1 DEF Threat
  <2>3. ASSUME NEW b \in Ids, At(b, "idle"), NEW ref \in Refs({b})
        PROVE  /\ ref \in objects' => ref \in objects
               /\ \A c \in late' : c \in late \/ ref \notin c.add \cup c.sub
               /\ ref \notin proc'[Purger].refs
               /\ (proc'[Purger].step = "remove" => proc'[Purger].doomed # ref)
    BY <1>1, <2>3 DEF BlobInv, Spares, Unborn
  <2> QED BY <2>1, <2>2, <2>3 DEF CalmStore
<1>5. Role(Purger)'
  <2>1. Role(Purger)
    BY <1>1 DEF BlobInv, Roles
  <2> QED BY <1>1, <2>1 DEF Role
<1>6. Calm(Purger)
  BY <1>1, <1>4, <1>5 DEF Calm, CalmUpload, CalmDeletion
<1> QED BY <1>1, <1>3, <1>6, CalmKeeps

LEMMA BlobEnd ==
  ASSUME BlobInv, End
  PROVE  BlobInv'
<1> USE DEF At
<1>1. /\ tx # NoTx /\ ~tx.doubt /\ tx' = NoTx /\ faults' \in 0 .. MaxFaults
      /\ UNCHANGED <<rows, did, proc, rejected, objects, late, seen>>
  BY FaultIs DEF End, store
<1>2. PICK p \in Actors : tx.of = p /\ Sql(p)
  BY <1>1, BlobTypes DEF Txs, Sql
<1>3. TypeOK'
  BY <1>1, BlobTypes, NoTxIs, TypesAfter
<1>4. Role(p)'
  <2>1. Role(p)
    BY <1>2 DEF BlobInv, Roles
  <2> QED BY <1>1, <2>1 DEF Role
<1>5. CalmStore(p)
  <2>1. \A b \in Ids : Threat(b)' => Threat(b)
    BY <1>1 DEF Threat
  <2>2. ASSUME NEW b \in Ids, At(b, "idle"), NEW ref \in Refs({b})
        PROVE  ref \notin proc'[p].refs /\ (proc'[p].step = "remove" => proc'[p].doomed # ref)
    BY <1>1, <1>2, <2>2 DEF BlobInv, Spares, Unborn
  <2> QED BY <1>1, <2>1, <2>2 DEF CalmStore
<1>6. CalmUpload(p)
  <2> SUFFICES ASSUME p \in Ids PROVE CalmUpload(p)
    BY DEF CalmUpload
  <2>1. ~At(p, "idle") /\ p \notin tx'.put
    BY <1>1, <1>2, NoTxIs DEF BlobInv, Spares, Unborn
  <2>2. Early(p)' => Early(p) /\ p \notin rejected'
    BY <1>1 DEF Early, BlobInv, Before
  <2>3. (Refused(p)' => Refused(p)) /\ (proc'[p].answer = "ok" => p \in did)
    BY <1>1 DEF Refused, BlobInv, Before
  <2> QED BY <1>1, <2>1, <2>2, <2>3 DEF CalmUpload
<1>7. CalmDeletion(p)
  BY <1>1, <1>2, NoTxIs, BlobConstants DEF CalmDeletion, BlobInv, Deletions, Sql
<1>8. Calm(p)
  BY <1>1, <1>2, <1>4, <1>5, <1>6, <1>7 DEF Calm
<1> QED BY <1>2, <1>3, <1>8, CalmKeeps

(* Taking the lock *)
LEMMA BlobLock ==
  ASSUME BlobInv, NEW p \in Actors, Lock(p)
  PROVE  BlobInv'
<1> USE DEF At
<1>1. /\ proc[p].step \in Waiting /\ tx = NoTx /\ tx' = [NoTx EXCEPT !.of = p]
      /\ UNCHANGED <<rows, did, rejected, objects, late, seen, faults>>
      /\ proc \in [Actors -> Procs] /\ proc[p] \in Procs /\ Role(p)
  BY BlobTypes DEF Lock, store, BlobInv, Roles
<1>2. /\ tx' \in Txs /\ tx'.of = p /\ tx'.put = {} /\ tx'.doubt = FALSE
      /\ tx.put = {} /\ tx.doubt = FALSE /\ tx.of = Nobody /\ p # Nobody
  BY <1>1, NoTxIs, BlobConstants
<1>3. PICK w \in Procs :
        /\ Moved(p, w) /\ w.refs = proc[p].refs /\ w.then = proc[p].then /\ w.answer = proc[p].answer
        /\ w.step \in {"check", "list", "sweep", "stage", "look", "expire"}
        /\ p \in Ids => w.id = proc[p].id /\ (w.step = "stage" <=> At(p, "idle"))
        /\ p \in Deleters => w.id \in did \cap Ids /\ (w.id = proc[p].id \/ At(p, "idle"))
        /\ w.step = "stage" => p \in Ids
        /\ w.step = "look" => p \in Deleters
        /\ w.step = "expire" => p = Purger
        /\ w.step = "check" => At(p, "recheck")
  <2>1. CASE p \in Deleters /\ At(p, "idle")
    <3>1. PICK id \in did \cap Ids : proc' = [proc EXCEPT ![p].step = "look", ![p].id = id]
      BY <2>1 DEF Lock
    <3> DEFINE w == [proc[p] EXCEPT !.step = "look", !.id = id]
    <3>2. proc' = [proc EXCEPT ![p] = proc'[p]] /\ proc'[p] = w
      BY <1>1, <3>1 DEF Procs
    <3>3. Moved(p, w)
      BY <3>2 DEF Moved
    <3>4. /\ w \in Procs /\ w.step = "look" /\ w.id = id /\ w.refs = proc[p].refs
          /\ w.then = proc[p].then /\ w.answer = proc[p].answer
      BY <1>1 DEF Procs, Steps
    <3> HIDE DEF w
    <3> QED BY <2>1, <3>1, <3>3, <3>4, BlobConstants
  <2>2. CASE ~(p \in Deleters /\ At(p, "idle"))
    <3>1. PICK step \in {"check", "list", "sweep", "stage", "expire"} :
            /\ Goes(p, step)
            /\ p \in Ids => (step = "stage" <=> At(p, "idle"))
            /\ step = "stage" => p \in Ids
            /\ step = "expire" => p = Purger
            /\ step = "check" => At(p, "recheck")
      <4>1. Goes(p, Locked(p))
        BY <2>2 DEF Lock
      <4>2. CASE At(p, "recheck")
        BY <4>1, <4>2 DEF Locked
      <4>3. CASE At(p, "scan")
        <5>1. CASE proc[p].refs = {}
          BY <4>1, <4>3, <5>1 DEF Locked
        <5>2. CASE proc[p].refs # {}
          BY <4>1, <4>3, <5>2 DEF Locked
        <5> QED BY <5>1, <5>2
      <4>4. CASE At(p, "idle")
        <5>1. CASE p \in Ids
          BY <4>1, <4>4, <5>1, BlobConstants DEF Locked
        <5>2. CASE p \notin Ids
          <6>1. p \notin Deleters /\ p = Purger
            BY <2>2, <4>4, <5>2, BlobConstants
          <6> QED BY <4>1, <4>4, <5>2, <6>1 DEF Locked
        <5> QED BY <5>1, <5>2
      <4> QED BY <1>1, <4>2, <4>3, <4>4 DEF Waiting
    <3> DEFINE w == Stepped(p, step)
    <3>2. Moved(p, w)
      BY <1>1, <3>1, Movers
    <3>3. step \in Steps
      BY <3>1 DEF Steps, Calling
    <3>4. /\ w \in Procs /\ w.step = step /\ w.id = proc[p].id /\ w.refs = proc[p].refs
          /\ w.then = proc[p].then /\ w.answer = proc[p].answer
      BY <1>1, <3>3, SteppedIs
    <3> HIDE DEF w
    <3>5. p \in Deleters => w.id \in did \cap Ids
      BY <1>1, <2>2, <3>4 DEF Role
    <3> QED BY <2>2, <3>1, <3>2, <3>4, <3>5
  <2> QED BY <2>1, <2>2
<1>4. /\ proc' \in [Actors -> Procs] /\ proc'[p] = w
      /\ \A q \in Actors : q # p => proc'[q] = proc[q]
  BY <1>1, <1>3, MovedIs
<1>5. TypeOK'
  BY <1>1, <1>2, <1>4, BlobTypes, TypesAfter
<1>6. Roles'
  <2>1. \A q \in Actors : q # p => Role(q)'
    BY <1>1, <1>4 DEF BlobInv, Roles, Role
  <2>2. Role(p)'
    BY <1>1, <1>3, <1>4, BlobConstants DEF Role, Uploading
  <2> QED BY <2>1, <2>2 DEF Roles
<1>7. Open'
  BY <1>2, <1>3, <1>4, BlobConstants DEF Open, Sql
<1>8. p \in Ids => (Early(p)' <=> At(p, "idle"))
  BY <1>1, <1>3, <1>4, BlobConstants DEF Early, Uploading, Waiting
<1>9. Before'
  <2> SUFFICES ASSUME NEW b \in Ids
               PROVE  /\ Early(b)' => /\ proc'[b].then = "done" /\ proc'[b].answer = "none"
                                      /\ b \notin rejected' /\ b \notin did'
                      /\ b \in rows' => b \in did'
                      /\ proc'[b].answer = "ok" => b \in did'
    BY <1>2 DEF Before
  <2>1. Early(b)' => Early(b)
    BY <1>4, <1>8, BlobConstants DEF Early
  <2>2. proc'[b].then = proc[b].then /\ proc'[b].answer = proc[b].answer
    BY <1>3, <1>4, BlobConstants
  <2> QED BY <1>1, <2>1, <2>2 DEF BlobInv, Before
<1>10. Spares'
  <2>1. \A b \in Ids : Threat(b)' => Threat(b)
    BY <1>1, <1>3, <1>4 DEF Threat
  <2>2. ASSUME NEW b \in Ids, Alive(b)' PROVE ~Threat(b)
    <3>1. CASE b \in rows
      BY <3>1 DEF BlobInv, Spares, Alive
    <3>2. CASE b \notin rows
      <4>1. b = p /\ At(b, "idle")
        BY <1>1, <1>2, <1>8, <2>2, <3>2 DEF Alive, Sql
      <4>2. Unborn(b) /\ <<b, "final">> \in Refs({b})
        BY <4>1 DEF BlobInv, Spares, Refs
      <4> QED BY <4>2 DEF Unborn, Threat
    <3> QED BY <3>1, <3>2
  <2>3. ASSUME NEW b \in Ids, At(b, "idle")' PROVE Unborn(b)'
    <3>1. b # p /\ At(b, "idle") /\ Unborn(b)
      BY <1>3, <1>4, <2>3, BlobConstants DEF BlobInv, Spares
    <3> QED BY <1>1, <1>2, <1>3, <1>4, <3>1 DEF Unborn, Refs
  <2> QED BY <2>1, <2>2, <2>3 DEF BlobInv, Spares
<1>11. Ready' /\ Stored'
  BY <1>1, <1>2 DEF BlobInv, Ready, Stored
<1>12. Refusals'
  <2>1. \A b \in Ids : Refused(b)' => Refused(b)
    BY <1>1, <1>3, <1>4, BlobConstants DEF Refused
  <2> QED BY <1>1, <1>2, <2>1 DEF BlobInv, Refusals
<1>13. Deletions'
  <2> SUFFICES ASSUME NEW d \in Deleters, proc'[d].answer \in {"ok", "missing"}
               PROVE  proc'[d].id \notin rows'
    BY DEF Deletions
  <2>1. proc[d].answer = proc'[d].answer /\ d \in Callers /\ d \in Actors
    BY <1>3, <1>4, BlobConstants
  <2>2. ~At(d, "idle")
    BY <2>1 DEF BlobInv, Roles, Role
  <2>3. proc'[d].id = proc[d].id
    BY <1>3, <1>4, <2>1, <2>2
  <2> QED BY <1>1, <2>1, <2>3 DEF BlobInv, Deletions
<1> QED BY <1>5, <1>6, <1>7, <1>9, <1>10, <1>11, <1>12, <1>13 DEF BlobInv

(* The server dies. *)
Downed(p) ==
  IF p = Purger THEN Fresh(p)
  ELSE IF proc[p].step \in {"idle", "done"} THEN proc[p]
  ELSE [proc[p] EXCEPT !.step = "gone", !.answer = "none"]

LEMMA DownedIs ==
  ASSUME proc \in [Actors -> Procs], NEW p \in Actors
  PROVE  LET w == Downed(p) IN
         /\ w \in Procs /\ w.step \in {"idle", "done", "gone"} /\ w.refs \subseteq proc[p].refs
         /\ p = Purger => w.then = "done"
         /\ p # Purger =>
              /\ w.id = proc[p].id /\ w.then = proc[p].then
              /\ w.answer = proc[p].answer \/ w.answer = "none"
              /\ proc[p].step \notin {"idle", "done"} => w.step = "gone" /\ w.answer = "none"
              /\ proc[p].step \in {"idle", "done"} => w = proc[p]
<1>1. proc[p] \in Procs
  OBVIOUS
<1>2. CASE p = Purger
  BY <1>1, <1>2, FreshIs DEF Downed
<1>3. CASE p # Purger /\ proc[p].step \in {"idle", "done"}
  BY <1>1, <1>3 DEF Downed
<1>4. CASE p # Purger /\ proc[p].step \notin {"idle", "done"}
  <2> DEFINE w == [proc[p] EXCEPT !.step = "gone", !.answer = "none"]
  <2>1. /\ w \in Procs /\ w.step = "gone" /\ w.id = proc[p].id /\ w.refs = proc[p].refs
        /\ w.then = proc[p].then /\ w.answer = "none"
    BY <1>1 DEF Procs, Steps
  <2>2. Downed(p) = w
    BY <1>4 DEF Downed
  <2> HIDE DEF w
  <2> QED BY <1>4, <2>1, <2>2
<1> QED BY <1>2, <1>3, <1>4

LEMMA BlobCrash ==
  ASSUME BlobInv, Crash
  PROVE  BlobInv'
<1> USE DEF At
<1>1. /\ faults' \in 0 .. MaxFaults /\ seen' = {} /\ UNCHANGED <<rows, did, objects, rejected>>
      /\ proc' = [p \in Actors |-> Downed(p)]
      /\ proc \in [Actors -> Procs] /\ tx \in Txs
  BY FaultIs, BlobTypes DEF Crash, Downed
<1>2. /\ proc' \in [Actors -> Procs]
      /\ \A p \in Actors :
           /\ proc'[p].step \in {"idle", "done", "gone"} /\ proc'[p].refs \subseteq proc[p].refs
           /\ p = Purger => proc'[p].then = "done"
           /\ p # Purger =>
                /\ proc'[p].id = proc[p].id /\ proc'[p].then = proc[p].then
                /\ proc'[p].answer = proc[p].answer \/ proc'[p].answer = "none"
                /\ proc[p].step \notin {"idle", "done"} => proc'[p].step = "gone" /\ proc'[p].answer = "none"
                /\ proc[p].step \in {"idle", "done"} => proc'[p] = proc[p]
  BY <1>1, DownedIs
<1>3. /\ \A c \in late' : c \in late \/ \E p \in Actors : proc[p].step \in Calling /\ c = Call(p)
      /\ late' \subseteq CallsOfStore
  <2>1. late' = late \/ late' = late \cup {Call(p) : p \in {q \in Actors : proc[q].step \in Calling}}
    BY DEF Crash
  <2>2. \A p \in Actors : proc[p].step \in Calling => Call(p) \in CallsOfStore
    BY CallIs
  <2> QED BY <2>1, <2>2, BlobTypes
<1>4. /\ tx' \in Txs /\ (tx'.of = Nobody => tx' = NoTx)
      /\ tx' # NoTx => /\ tx'.of = tx.of /\ tx'.put = tx.put /\ tx'.doubt
                       /\ tx.doubt \/ (tx.of \in Actors /\ Sql(tx.of) /\ At(tx.of, "commit"))
  <2>1. CASE tx.of # Nobody /\ At(tx.of, "commit") /\ ~tx.doubt
    <3>1. tx' = [tx EXCEPT !.doubt = TRUE]
      BY <2>1 DEF Crash
    <3>2. tx' \in Txs /\ tx'.of = tx.of /\ tx'.put = tx.put /\ tx'.doubt = TRUE
      BY <1>1, <3>1, DoubtIs
    <3>3. tx.of \in Actors
      BY <1>1, <2>1 DEF Txs
    <3> QED BY <2>1, <3>2, <3>3 DEF Sql
  <2>2. CASE ~(tx.of # Nobody /\ At(tx.of, "commit") /\ ~tx.doubt) /\ tx.doubt
    <3>1. tx' = tx
      BY <2>2 DEF Crash
    <3> QED BY <2>2, <3>1, BlobTypes
  <2>3. CASE ~(tx.of # Nobody /\ At(tx.of, "commit") /\ ~tx.doubt) /\ ~tx.doubt
    <3>1. tx' = NoTx
      BY <2>3 DEF Crash
    <3> QED BY <3>1, NoTxIs
  <2> QED BY <2>1, <2>2, <2>3
<1>5. /\ tx'.put # {} => tx' # NoTx /\ tx.put = tx'.put /\ tx.of = tx'.of /\ tx'.doubt
      /\ \A q \in Actors : ~Sql(q)'
      /\ tx'.doubt => tx' # NoTx
      /\ \A b \in Ids : tx'.of = b => tx' # NoTx
  BY <1>4, NoTxIs, BlobConstants DEF Sql
<1>6. TypeOK'
  BY <1>1, <1>2, <1>3, <1>4, BlobTypes, TypesAfter
<1>7. Roles'
  <2> SUFFICES ASSUME NEW p \in Actors PROVE Role(p)'
    BY DEF Roles
  <2>1. Role(p)
    BY DEF BlobInv, Roles
  <2>2. CASE p = Purger
    BY <1>2, <2>2, BlobConstants DEF Role, Uploading
  <2>3. CASE p # Purger
    <3>1. At(p, "idle")' => At(p, "idle") /\ proc'[p] = proc[p]
      BY <1>2, <2>3
    <3>2. At(p, "idle") => At(p, "idle")'
      BY <1>2, <2>3
    <3> QED BY <1>1, <1>2, <2>1, <2>3, <3>1, <3>2 DEF Role, Uploading
  <2> QED BY <2>2, <2>3
<1>8. ASSUME NEW b \in Ids
      PROVE  /\ Early(b)' => At(b, "idle") /\ proc'[b] = proc[b] /\ Early(b)
             /\ b \in Actors /\ b # Purger
  BY <1>2, BlobConstants DEF Early, Uploading
<1>9. Open'
  <2>1. tx'.put # {} => tx'.put = {tx'.of} /\ tx'.of \in Ids
    BY <1>5 DEF BlobInv, Open
  <2>2. ASSUME tx'.put # {}
        PROVE  /\ proc'[tx'.of].step \in {"recheck", "done", "gone"} /\ proc'[tx'.of].then = "done"
               /\ proc'[tx'.of].answer \in {"none", "unavailable"} /\ tx'.of \notin rejected'
    <3>1. PICK b \in Ids : tx'.of = b /\ tx.of = b /\ tx.put # {}
      BY <1>5, <2>1, <2>2
    <3>2. CASE tx.doubt
      <4>1. /\ proc[b].step \in {"recheck", "done", "gone"} /\ proc[b].then = "done"
            /\ proc[b].answer \in {"none", "unavailable"} /\ b \notin rejected
        BY <3>1, <3>2 DEF BlobInv, Open
      <4>2. b \in Actors /\ b # Purger
        BY BlobConstants
      <4>3. CASE proc[b].step = "done"
        BY <1>1, <1>2, <3>1, <4>1, <4>2, <4>3
      <4>4. CASE proc[b].step \in {"recheck", "gone"}
        <5>1. proc'[b].step = "gone" /\ proc'[b].then = "done" /\ proc'[b].answer = "none"
          BY <1>2, <4>1, <4>2, <4>4
        <5> QED BY <1>1, <3>1, <4>1, <5>1
      <4> QED BY <4>1, <4>3, <4>4
    <3>3. CASE ~tx.doubt
      <4>1. At(b, "commit")
        BY <1>4, <1>5, <2>2, <3>1, <3>3
      <4>2. proc[b].then = "done" /\ proc[b].answer = "none" /\ b \notin rejected
        BY <4>1 DEF BlobInv, Before, Early
      <4>3. b \in Actors /\ b # Purger
        BY BlobConstants
      <4>4. proc'[b].step = "gone" /\ proc'[b].then = "done" /\ proc'[b].answer = "none"
        BY <1>2, <4>1, <4>2, <4>3
      <4> QED BY <1>1, <3>1, <4>2, <4>4
    <3> QED BY <3>2, <3>3
  <2>3. \A b \in Ids : tx'.doubt /\ tx'.of = b => ~Early(b)'
    <3> SUFFICES ASSUME NEW b \in Ids, tx'.of = b, Early(b)' PROVE FALSE
      OBVIOUS
    <3>1. tx.of = b /\ At(b, "idle") /\ Early(b)
      BY <1>4, <1>5, <1>8
    <3>2. ~tx.doubt
      BY <3>1 DEF BlobInv, Open
    <3> QED BY <1>4, <1>5, <3>1, <3>2
  <2> QED BY <1>5, <2>1, <2>2, <2>3, BlobConstants DEF Open
<1>10. Before'
  <2> SUFFICES ASSUME NEW b \in Ids
               PROVE  /\ Early(b)' => /\ proc'[b].then = "done" /\ proc'[b].answer = "none"
                                      /\ b \notin rejected' /\ b \notin did'
                      /\ b \in tx'.put => b \notin did'
                      /\ b \in rows' => b \in did'
                      /\ proc'[b].answer = "ok" => b \in did'
    BY DEF Before
  <2>1. b \in tx'.put => b \in tx.put
    BY <1>5
  <2>2. proc'[b].answer = "ok" => proc[b].answer = "ok"
    BY <1>2, <1>8
  <2> QED BY <1>1, <1>8, <2>1, <2>2 DEF BlobInv, Before
<1>11. Spares'
  <2>1. ASSUME NEW b \in Ids, Threat(b)' PROVE Threat(b)
    <3>1. PICK c \in late' : <<b, "final">> \in c.sub
      BY <1>2, <2>1 DEF Threat
    <3>2. CASE c \in late
      BY <3>1, <3>2 DEF Threat
    <3>3. CASE c \notin late
      <4>1. PICK p \in Actors : proc[p].step \in Calling /\ c = Call(p)
        BY <1>3, <3>1, <3>3
      <4>2. At(p, "remove")
        <5> SUFFICES ASSUME ~At(p, "remove") PROVE FALSE
          OBVIOUS
        <5>1. <<b, "final">> \in Refs({p}) /\ <<p, "final">> \notin c.sub
          BY <3>1, <4>1, CallIs
        <5>2. b = p
          BY <5>1 DEF Refs
        <5> QED BY <3>1, <5>1, <5>2
      <4>3. proc[p].doomed = <<b, "final">>
        BY <3>1, <4>1, <4>2, CallIs
      <4> QED BY <4>2, <4>3 DEF Threat
    <3> QED BY <3>2, <3>3
  <2>2. ASSUME NEW b \in Ids, Alive(b)' PROVE Alive(b)
    <3>1. CASE b \in rows
      BY <3>1 DEF Alive
    <3>2. CASE b \notin rows
      <4>1. tx'.doubt /\ b \in tx'.put
        BY <1>1, <1>5, <1>8, <2>2, <3>2 DEF Alive
      <4>2. b \in tx.put /\ tx.of = b /\ tx' # NoTx
        BY <1>5, <4>1 DEF BlobInv, Open
      <4> QED BY <1>4, <4>2 DEF Alive, Early
    <3> QED BY <3>1, <3>2
  <2>3. ASSUME NEW b \in Ids, At(b, "idle")' PROVE Unborn(b)'
    <3>1. At(b, "idle") /\ Unborn(b)
      BY <1>8, <2>3 DEF BlobInv, Spares, Early
    <3>2. tx'.of # b
      BY <1>4, <1>5, <3>1 DEF Unborn
    <3>3. ASSUME NEW ref \in Refs({b}), NEW c \in late' PROVE ref \notin c.add \cup c.sub
      <4>1. CASE c \in late
        BY <3>1, <3>3, <4>1 DEF Unborn
      <4>2. CASE c \notin late
        <5>1. PICK p \in Actors : proc[p].step \in Calling /\ c = Call(p)
          BY <1>3, <3>3, <4>2
        <5>2. CASE At(p, "remove")
          <6>1. c.add = {} /\ c.sub = {proc[p].doomed}
            BY <5>1, <5>2, CallIs
          <6> QED BY <3>1, <3>3, <5>2, <6>1 DEF Unborn
        <5>3. CASE ~At(p, "remove")
          <6>1. p # b /\ p \in Ids /\ c.add \cup c.sub \subseteq Refs({p})
            BY <3>1, <5>1, <5>3, CallIs
          <6> QED BY <3>3, <6>1 DEF Refs
        <5> QED BY <5>2, <5>3
      <4> QED BY <4>1, <4>2
    <3>4. ASSUME NEW ref \in Refs({b})
          PROVE  ref \notin objects' /\ \A q \in Actors : ref \notin proc'[q].refs /\ ~At(q, "remove")'
      BY <1>1, <1>2, <3>1, <3>4 DEF Unborn
    <3> QED BY <3>2, <3>3, <3>4 DEF Unborn, Refs
  <2> QED BY <2>1, <2>2, <2>3 DEF BlobInv, Spares
<1>12. Ready'
  <2> SUFFICES ASSUME NEW b \in Ids, b \in tx'.put PROVE <<b, "final">> \in objects'
    BY DEF Ready
  <2>1. b \in tx.put /\ tx.of = b /\ tx' # NoTx
    BY <1>5 DEF BlobInv, Open
  <2>2. tx.doubt \/ At(b, "commit")
    BY <1>4, <2>1
  <2> QED BY <1>1, <2>1, <2>2 DEF BlobInv, Ready
<1>13. Stored'
  BY <1>1 DEF BlobInv, Stored
<1>14. Refusals'
  <2> SUFFICES ASSUME NEW b \in Ids, Refused(b)' PROVE b \notin rows' \cup tx'.put
    BY DEF Refusals
  <2>1. Refused(b)
    BY <1>1, <1>2, <1>8 DEF Refused
  <2>2. tx'.put \subseteq tx.put
    BY <1>5
  <2> QED BY <1>1, <2>1, <2>2 DEF BlobInv, Refusals
<1>15. Deletions'
  <2> SUFFICES ASSUME NEW d \in Deleters, proc'[d].answer \in {"ok", "missing"}
               PROVE  proc'[d].id \notin rows'
    BY DEF Deletions
  <2>1. proc'[d].id = proc[d].id /\ proc'[d].answer = proc[d].answer
    BY <1>2, BlobConstants
  <2> QED BY <1>1, <2>1 DEF BlobInv, Deletions
<1> QED BY <1>6, <1>7, <1>9, <1>10, <1>11, <1>12, <1>13, <1>14, <1>15 DEF BlobInv

-----------------------------------------------------------------------------
(* The specification *)

LEMMA BlobInit == Init => BlobInv
<1> SUFFICES ASSUME Init PROVE BlobInv
  OBVIOUS
<1> USE DEF At
<1>1. /\ rows = {} /\ objects = {} /\ late = {} /\ seen = {} /\ tx = NoTx
      /\ did = {} /\ rejected = {} /\ faults = 0 /\ proc = [p \in Actors |-> Fresh(p)]
  BY DEF Init
<1>2. /\ \A p \in Actors : /\ proc[p] \in Procs /\ proc[p].step = "idle" /\ proc[p].refs = {}
                           /\ proc[p].then = "done" /\ proc[p].answer = "none"
                           /\ proc[p].id = IF p \in Ids THEN p ELSE Nobody
      /\ proc \in [Actors -> Procs]
  BY <1>1, FreshIs
<1>3. /\ tx \in Txs /\ tx.of = Nobody /\ tx.put = {} /\ tx.doubt = FALSE /\ \A p \in Actors : tx.of # p
  BY <1>1, NoTxIs, BlobConstants
<1>4. TypeOK
  BY <1>1, <1>2, <1>3, BlobConstants DEF TypeOK, Procs, Steps, Txs
<1>5. Roles
  BY <1>2, BlobConstants DEF Roles, Role, Uploading
<1>6. Open
  BY <1>3, BlobConstants DEF Open, Sql
<1>7. Before /\ Ready /\ Stored /\ Refusals /\ Deletions
  BY <1>1, <1>2, <1>3, BlobConstants DEF Before, Ready, Stored, Refusals, Refused, Deletions
<1>8. Spares
  <2>1. \A b \in Ids : ~Alive(b)
    BY <1>1, <1>3, BlobConstants DEF Alive, Sql
  <2>2. \A b \in Ids : Unborn(b)
    BY <1>1, <1>2, <1>3, BlobConstants DEF Unborn
  <2> QED BY <2>1, <2>2 DEF Spares
<1> QED BY <1>4, <1>5, <1>6, <1>7, <1>8 DEF BlobInv

LEMMA BlobNext ==
  ASSUME BlobInv, [Next]_vars
  PROVE  BlobInv'
<1>1. ASSUME NEW p \in Actors, Lock(p) \/ LockFails(p) \/ TransferFails(p) \/ CommitUnanswered(p) \/ TimeUp(p)
      PROVE  BlobInv'
  BY <1>1, BlobLock, BlobLockFails, BlobTransferFails, BlobCommitUnanswered, BlobTimeUp
<1>2. ASSUME NEW p \in Actors, Step(p) PROVE BlobInv'
  <2>1. CASE Transfer(p)
    BY <2>1, BlobTransfer
  <2>2. CASE Commit(p) \/ Check(p) \/ Swept(p)
    BY <2>2, BlobCommit, BlobCheck, BlobSwept
  <2>3. CASE p \in Ids /\ (Insert(p) \/ Verify(p))
    BY <2>3, BlobInsert, BlobVerify
  <2>4. CASE p \in Deleters /\ Look(p)
    BY <2>4, BlobLook
  <2>5. CASE p = Purger /\ \E expired \in SUBSET rows : Expire(expired)
    BY <2>5, BlobExpire
  <2>6. CASE \E recorded \in BOOLEAN : Reject(p, recorded)
    BY <2>6, BlobReject
  <2>7. CASE \E page \in SUBSET objects : List(p, page)
    BY <2>7, BlobList
  <2>8. CASE \E ref \in Refs(Ids) : Judge(p, ref)
    BY <2>8, BlobJudge
  <2> QED BY <1>2, <2>1, <2>2, <2>3, <2>4, <2>5, <2>6, <2>7, <2>8 DEF Step
<1>3. ASSUME NEW call \in late, TakesEffect(call) PROVE BlobInv'
  BY <1>3, BlobTakesEffect
<1>4. ASSUME NEW committed \in BOOLEAN, Resolve(committed) PROVE BlobInv'
  BY <1>4, BlobResolve
<1>5. CASE End
  BY <1>5, BlobEnd
<1>6. CASE Crash
  BY <1>6, BlobCrash
<1>7. CASE UNCHANGED vars
  <2>1. UNCHANGED <<rows, objects, late, seen, tx, proc, did, rejected, faults>>
    BY <1>7 DEF vars, work
  <2>2. TypeOK'
    BY <2>1 DEF BlobInv, TypeOK
  <2>3. Roles' /\ Open' /\ Before' /\ Ready' /\ Stored' /\ Refusals' /\ Deletions'
    BY <2>1 DEF BlobInv, Roles, Role, Open, Before, Ready, Stored, Refusals, Refused, Deletions,
                Early, Sql, At
  <2>4. \A b \in Ids : (Unborn(b)' <=> Unborn(b)) /\ (Alive(b)' <=> Alive(b)) /\ (Threat(b)' <=> Threat(b))
    BY <2>1 DEF Unborn, Alive, Threat, Early, Sql, At
  <2>5. Spares'
    BY <2>1, <2>4 DEF BlobInv, Spares, At
  <2> QED BY <2>2, <2>3, <2>5 DEF BlobInv
<1> QED BY <1>1, <1>2, <1>3, <1>4, <1>5, <1>6, <1>7 DEF Next

(* What StoreTrue says follows from the invariant. *)
LEMMA BlobInvSays == BlobInv => StoreTrue
<1> SUFFICES ASSUME BlobInv PROVE StoreTrue
  OBVIOUS
<1>1. ASSUME NEW p \in Callers
      PROVE  /\ p \in Ids /\ proc[p].answer = "ok" => p \in did
             /\ p \in Ids /\ (proc[p].answer = "error" \/ p \in rejected) => p \notin rows \cup tx.put
             /\ p \in Deleters /\ proc[p].answer \in {"ok", "missing"} => proc[p].id \notin rows
  BY DEF BlobInv, Before, Refusals, Refused, Deletions
<1> QED BY <1>1 DEF StoreTrue, AnswersTrue, BlobInv

(* Whatever fails, between a store and a database that share no            *)
(* transaction: every row has its bytes, and what a request was told of    *)
(* its upload or deletion is so.                                           *)
THEOREM FilesTrue == Spec => []StoreTrue
<1>1. Init => BlobInv
  BY BlobInit
<1>2. BlobInv /\ [Next]_vars => BlobInv'
  BY BlobNext
<1>3. BlobInv => StoreTrue
  BY BlobInvSays
<1> QED BY <1>1, <1>2, <1>3, PTL DEF Spec
-----------------------------------------------------------------------------
(* Invocation *)

(* The rows of one timeline, those of the database and of its copy alike:  *)
(* an invocation has at most one terminal event, which is its last; while  *)
(* it has a token it has no terminal event, and the token is of the epoch  *)
(* in which it was recorded.                                               *)
EventKinds == Calls!Kinds \cup {"function.invoke", "callback"}
Events == [kind : EventKinds, of : Invocations, epoch : Nat]
Rows == [token : [Invocations -> Nat], made : SUBSET Invocations, pending : SUBSET Invocations,
         log : Seq(Events), epoch : Nat \ {0}, gate : BOOLEAN]
EndedIn(log, i) == \E n \in DOMAIN log : log[n].of = i /\ log[n].kind \in Calls!Kinds
InvokedIn(log, i, epoch) ==
  \A n \in DOMAIN log : log[n].of = i /\ log[n].kind = "function.invoke" => log[n].epoch = epoch
LastIn(log) ==
  \A m, n \in DOMAIN log : m < n /\ log[m].kind \in Calls!Kinds => log[n].of # log[m].of
SameEpochIn(log) ==
  \A m, n \in DOMAIN log :
    /\ log[m].kind = "function.invoke" /\ log[n].kind = "callback"
    /\ log[m].of = log[n].of
    => log[m].epoch = log[n].epoch
Timeline(rows_) ==
  /\ rows_ \in Rows
  /\ \A n \in DOMAIN rows_.log : rows_.log[n].of \in rows_.made
  /\ LastIn(rows_.log) /\ SameEpochIn(rows_.log)
  /\ \A i \in Invocations : rows_.token[i] # 0 =>
       ~EndedIn(rows_.log, i) /\ InvokedIn(rows_.log, i, rows_.token[i])

(* The requests: one that is executed or about to finish has no terminal   *)
(* event, and reconciliation does not meddle with it yet.                  *)
CallRecords == [step : {"idle", "run", "finish", "gone"}, kind : Calls!Kinds, left : Int,
                answer : {"none", "ok", "error"}]
Ages == {"new", "expired", "overdue"}
Serves(i) ==
  /\ Calls!At(i, "idle") =>
       i \notin db.made /\ age[i] = "new" /\ (backup # <<>> => i \notin backup[1].made)
  /\ calls[i].step \in {"run", "finish"} => age[i] # "overdue" /\ ~EndedIn(db.log, i)
  /\ calls[i].answer = "ok" => calls[i].step = "gone"
(* Who holds the lock for a callback may still write. *)
Holds(i) ==
  holder = i => i \in db.made /\ ~EndedIn(db.log, i) /\ InvokedIn(db.log, i, db.epoch)

Passing(p) ==
  p = [runs |-> p.runs, left |-> p.left, full |-> p.full, on |-> p.on, cursor |-> p.cursor]

InvocationInv ==
  /\ Timeline(db)
  /\ backup \in Seq(Rows) /\ Len(backup) <= 1 /\ (backup # <<>> => Timeline(backup[1]))
  /\ calls \in [Invocations -> CallRecords] /\ age \in [Invocations -> Ages]
  /\ Passing(pass) /\ pass.runs \subseteq {i \in Invocations : age[i] = "overdue"}
  /\ \A i \in Invocations : Serves(i) /\ Holds(i)
  /\ Calls!AnswerRecorded

-----------------------------------------------------------------------------
(* What an event at the end of the log changes *)

CompleteIn(log, i) == \E n \in DOMAIN log : log[n].of = i /\ log[n].kind = "function.complete"

LEMMA InvocationConstants ==
  /\ Invocations \subseteq Nat \ {0} /\ Free \notin Invocations /\ Stranger \notin Invocations
  /\ Free # Stranger /\ Attempts \in Nat /\ MaxLosses \in Nat
BY WorkspaceGiven DEF Calls!InvocationAssumption

LEMMA LogAppended ==
  ASSUME NEW log \in Seq(Events), NEW e \in Events, NEW l, l = Append(log, e)
  PROVE  /\ l \in Seq(Events) /\ Len(log) \in Nat
         /\ DOMAIN log = 1 .. Len(log) /\ DOMAIN l = 1 .. (Len(log) + 1)
         /\ \A n \in 1 .. Len(log) : l[n] = log[n]
         /\ l[Len(log) + 1] = e
BY AppendProperties, LenProperties

LEMMA AppendedSays ==
  ASSUME NEW log \in Seq(Events), NEW e \in Events, NEW l, l = Append(log, e)
  PROVE  /\ \A i : EndedIn(l, i) => EndedIn(log, i) \/ (e.of = i /\ e.kind \in Calls!Kinds)
         /\ \A i, x : InvokedIn(log, i, x) /\ (e.of = i /\ e.kind = "function.invoke" => e.epoch = x)
                      => InvokedIn(l, i, x)
         /\ \A i : CompleteIn(log, i) \/ (e.of = i /\ e.kind = "function.complete") => CompleteIn(l, i)
<1>1. /\ Len(log) \in Nat /\ DOMAIN log = 1 .. Len(log) /\ DOMAIN l = 1 .. (Len(log) + 1)
      /\ \A n \in 1 .. Len(log) : l[n] = log[n]
      /\ l[Len(log) + 1] = e
  BY LogAppended
<1>2. \A n \in DOMAIN l : (n \in DOMAIN log /\ l[n] = log[n]) \/ l[n] = e
  BY <1>1
<1>3. /\ \A n \in DOMAIN log : n \in DOMAIN l /\ l[n] = log[n]
      /\ \E n \in DOMAIN l : l[n] = e
  BY <1>1
<1>4. \A i : EndedIn(l, i) => EndedIn(log, i) \/ (e.of = i /\ e.kind \in Calls!Kinds)
  BY <1>2 DEF EndedIn
<1>5. \A i, x : InvokedIn(log, i, x) /\ (e.of = i /\ e.kind = "function.invoke" => e.epoch = x)
                => InvokedIn(l, i, x)
  BY <1>2 DEF InvokedIn
<1>6. \A i : CompleteIn(log, i) \/ (e.of = i /\ e.kind = "function.complete") => CompleteIn(l, i)
  BY <1>3 DEF CompleteIn
<1> QED BY <1>4, <1>5, <1>6

LEMMA LastKept ==
  ASSUME NEW log \in Seq(Events), NEW e \in Events, NEW l, l = Append(log, e),
         LastIn(log), ~EndedIn(log, e.of)
  PROVE  LastIn(l)
<1>1. /\ Len(log) \in Nat /\ DOMAIN log = 1 .. Len(log) /\ DOMAIN l = 1 .. (Len(log) + 1)
      /\ \A n \in 1 .. Len(log) : l[n] = log[n]
      /\ l[Len(log) + 1] = e
  BY LogAppended
<1> SUFFICES ASSUME NEW m \in DOMAIN l, NEW n \in DOMAIN l, m < n, l[m].kind \in Calls!Kinds
             PROVE  l[n].of # l[m].of
  BY DEF LastIn
<1>2. m \in DOMAIN log /\ l[m] = log[m]
  BY <1>1
<1>3. CASE n \in DOMAIN log
  BY <1>1, <1>2, <1>3 DEF LastIn
<1>4. CASE n \notin DOMAIN log
  <2>1. l[n] = e
    BY <1>1, <1>4
  <2> QED BY <1>2, <2>1 DEF EndedIn
<1> QED BY <1>3, <1>4

LEMMA SameEpochKept ==
  ASSUME NEW log \in Seq(Events), NEW e \in Events, NEW l, l = Append(log, e),
         SameEpochIn(log),
         e.kind = "callback" => InvokedIn(log, e.of, e.epoch),
         e.kind = "function.invoke" => \A n \in DOMAIN log : log[n].of # e.of
  PROVE  SameEpochIn(l)
<1>1. /\ Len(log) \in Nat /\ DOMAIN log = 1 .. Len(log) /\ DOMAIN l = 1 .. (Len(log) + 1)
      /\ \A n \in 1 .. Len(log) : l[n] = log[n]
      /\ l[Len(log) + 1] = e
  BY LogAppended
<1> SUFFICES ASSUME NEW m \in DOMAIN l, NEW n \in DOMAIN l,
                    l[m].kind = "function.invoke", l[n].kind = "callback", l[m].of = l[n].of
             PROVE  l[m].epoch = l[n].epoch
  BY DEF SameEpochIn
<1>2. \A k \in DOMAIN l : (k \in DOMAIN log /\ l[k] = log[k]) \/ l[k] = e
  BY <1>1
<1>3. CASE m \in DOMAIN log /\ l[m] = log[m] /\ n \in DOMAIN log /\ l[n] = log[n]
  BY <1>3 DEF SameEpochIn
<1>4. CASE m \in DOMAIN log /\ l[m] = log[m] /\ l[n] = e
  BY <1>4 DEF InvokedIn
<1>5. CASE l[m] = e /\ n \in DOMAIN log /\ l[n] = log[n]
  BY <1>5
<1>6. CASE l[m] = e /\ l[n] = e
  BY <1>6
<1> QED BY <1>2, <1>3, <1>4, <1>5, <1>6

-----------------------------------------------------------------------------
(* What a transaction makes of the rows *)

LEMMA EventIs ==
  ASSUME db \in Rows, NEW kind \in EventKinds, NEW i \in Invocations
  PROVE  LET e == Calls!Event(kind, i) IN
         e \in Events /\ e.kind = kind /\ e.of = i /\ e.epoch = db.epoch
BY DEF Calls!Event, Events, Rows

LEMMA FinishedIs ==
  ASSUME Timeline(db), NEW i \in db.made, NEW kind \in Calls!Kinds, NEW f, f = Calls!Finished(i, kind)
  PROVE  /\ f \in Rows /\ f.made = db.made /\ f.epoch = db.epoch /\ f.pending \subseteq db.pending
         /\ f.token = [db.token EXCEPT ![i] = 0]
         /\ (Calls!Records => i \notin f.pending)
         /\ (Calls!Records /\ ~EndedIn(db.log, i) => f.log = Append(db.log, Calls!Event(kind, i)))
         /\ (~(Calls!Records /\ ~EndedIn(db.log, i)) => f.log = db.log)
<1> DEFINE pending == IF Calls!Records THEN db.pending \ {i} ELSE db.pending
           log == IF Calls!Records /\ ~EndedIn(db.log, i)
                  THEN Append(db.log, Calls!Event(kind, i)) ELSE db.log
           token == [db.token EXCEPT ![i] = 0]
<1>1. db \in Rows /\ i \in Invocations /\ kind \in EventKinds
  BY DEF Timeline, Rows, EventKinds
<1>2. /\ db.token \in [Invocations -> Nat] /\ db.made \in SUBSET Invocations
      /\ db.pending \in SUBSET Invocations /\ db.log \in Seq(Events)
  BY <1>1 DEF Rows
<1>3. token \in [Invocations -> Nat] /\ pending \in SUBSET Invocations /\ pending \subseteq db.pending
  BY <1>2
<1>4. log \in Seq(Events)
  BY <1>1, <1>2, EventIs, AppendProperties
<1>5. Calls!Ended(i) <=> EndedIn(db.log, i)
  BY DEF Calls!Ended, EndedIn
<1>6. f = [db EXCEPT !.token = token, !.pending = pending, !.log = log]
  BY <1>1, <1>5 DEF Calls!Finished, Rows
<1>7. /\ Calls!Records => i \notin pending
      /\ (Calls!Records /\ ~EndedIn(db.log, i)) => log = Append(db.log, Calls!Event(kind, i))
      /\ ~(Calls!Records /\ ~EndedIn(db.log, i)) => log = db.log
  OBVIOUS
<1> HIDE DEF token, pending, log
<1> DEFINE u == [db EXCEPT !.token = token, !.pending = pending]
           v == [u EXCEPT !.log = log]
<1>8. /\ u \in Rows /\ u.made = db.made /\ u.pending = pending /\ u.log = db.log /\ u.token = token
      /\ u.epoch = db.epoch
  BY <1>1, <1>3 DEF Rows
<1>9. /\ f \in Rows /\ f.made = db.made /\ f.pending = pending /\ f.log = log /\ f.token = token
      /\ f.epoch = db.epoch
  <2>1. f = v
    BY <1>1, <1>6 DEF Rows
  <2> HIDE DEF u
  <2>2. /\ v \in Rows /\ v.made = u.made /\ v.pending = u.pending /\ v.log = log /\ v.token = u.token
        /\ v.epoch = u.epoch
    BY <1>4, <1>8 DEF Rows
  <2> HIDE DEF v
  <2> QED BY <1>8, <2>1, <2>2
<1>10. token = [db.token EXCEPT ![i] = 0]
  BY DEF token
<1> QED BY <1>3, <1>7, <1>9, <1>10

(* The end of an invocation *)
LEMMA FinishedRows ==
  ASSUME InvocationInv, NEW i \in db.made, NEW kind \in Calls!Kinds,
         db' = db \/ db' = Calls!Finished(i, kind)
  PROVE  /\ Timeline(db)' /\ db'.made = db.made /\ db'.epoch = db.epoch /\ db'.pending \subseteq db.pending
         /\ \A j \in Invocations : /\ db.token[j] = 0 => db'.token[j] = 0
                                   /\ EndedIn(db'.log, j) => EndedIn(db.log, j) \/ j = i
                                   /\ CompleteIn(db.log, j) => CompleteIn(db'.log, j)
         /\ \A j, x : InvokedIn(db.log, j, x) => InvokedIn(db'.log, j, x)
         /\ holder # Free => db'.log = db.log
         /\ i \in Invocations
<1>1. Timeline(db) /\ db \in Rows /\ i \in Invocations /\ kind \in EventKinds
  BY DEF InvocationInv, Timeline, Rows, EventKinds
<1>2. CASE db' = db
  <2>1. Timeline(db)'
    BY <1>1, <1>2 DEF Timeline
  <2> QED BY <1>1, <1>2, <2>1
<1>3. CASE db' = Calls!Finished(i, kind)
  <2>1. /\ db' \in Rows /\ db'.made = db.made /\ db'.epoch = db.epoch /\ db'.pending \subseteq db.pending
        /\ db'.token = [db.token EXCEPT ![i] = 0]
        /\ (Calls!Records => i \notin db'.pending)
        /\ (Calls!Records /\ ~EndedIn(db.log, i) => db'.log = Append(db.log, Calls!Event(kind, i)))
        /\ (~(Calls!Records /\ ~EndedIn(db.log, i)) => db'.log = db.log)
    BY <1>1, <1>3, FinishedIs
  <2>2. \A j \in Invocations : db'.token[j] = IF j = i THEN 0 ELSE db.token[j]
    BY <1>1, <2>1 DEF Rows
  <2>3. CASE Calls!Records /\ ~EndedIn(db.log, i)
    <3>1. PICK e \in Events : /\ db'.log = Append(db.log, e)
                              /\ e.kind = kind /\ e.of = i /\ e.epoch = db.epoch
      BY <1>1, <2>1, <2>3, EventIs
    <3>2. kind # "callback" /\ kind # "function.invoke"
      BY DEF Calls!Kinds
    <3>3. db.log \in Seq(Events)
      BY <1>1 DEF Rows
    <3>4. /\ \A j : EndedIn(db'.log, j) => EndedIn(db.log, j) \/ (e.of = j /\ e.kind \in Calls!Kinds)
          /\ \A j, x : InvokedIn(db.log, j, x) /\ (e.of = j /\ e.kind = "function.invoke" => e.epoch = x)
                       => InvokedIn(db'.log, j, x)
          /\ \A j : CompleteIn(db.log, j) \/ (e.of = j /\ e.kind = "function.complete") => CompleteIn(db'.log, j)
      BY <3>1, <3>3, AppendedSays
    <3>5. LastIn(db'.log)
      BY <1>1, <2>3, <3>1, <3>3, LastKept DEF Timeline
    <3>6. SameEpochIn(db'.log)
      BY <1>1, <3>1, <3>2, <3>3, SameEpochKept DEF Timeline
    <3>7. \A n \in DOMAIN db'.log : db'.log[n].of \in db'.made
      <4>1. \A n \in DOMAIN db'.log : (n \in DOMAIN db.log /\ db'.log[n] = db.log[n]) \/ db'.log[n] = e
        BY <3>1, <3>3, LogAppended
      <4> QED BY <1>1, <2>1, <3>1, <4>1 DEF Timeline
    <3>8. \A j \in Invocations : db'.token[j] # 0 =>
            ~EndedIn(db'.log, j) /\ InvokedIn(db'.log, j, db'.token[j])
      BY <1>1, <2>2, <3>1, <3>2, <3>4 DEF Timeline
    <3>9. Timeline(db)'
      BY <2>1, <3>5, <3>6, <3>7, <3>8 DEF Timeline
    <3>10. holder = Free
      BY <2>3 DEF Calls!Records
    <3> QED BY <1>1, <2>1, <2>2, <3>1, <3>2, <3>4, <3>9, <3>10
  <2>4. CASE ~(Calls!Records /\ ~EndedIn(db.log, i))
    <3>1. db'.log = db.log
      BY <2>1, <2>4
    <3>2. Timeline(db)'
      BY <1>1, <2>1, <2>2, <3>1 DEF Timeline
    <3> QED BY <1>1, <2>1, <2>2, <3>1, <3>2
  <2> QED BY <2>3, <2>4
<1> QED BY <1>2, <1>3

LEMMA RecordedIs ==
  Calls!AnswerRecorded <=>
    \A i \in Invocations : calls[i].answer = "ok" =>
      db.token[i] = 0 /\ i \notin db.pending /\ CompleteIn(db.log, i)
BY DEF Calls!AnswerRecorded, CompleteIn

LEMMA FinishingKeeps ==
  ASSUME InvocationInv, NEW i \in db.made, NEW kind \in Calls!Kinds,
         db' = db \/ db' = Calls!Finished(i, kind), UNCHANGED <<backup, age, holder>>,
         calls' \in [Invocations -> CallRecords],
         \A j \in Invocations : j # i => calls'[j] = calls[j],
         calls'[i].step # "idle",
         calls'[i].step \in {"run", "finish"} => age[i] # "overdue" /\ ~EndedIn(db'.log, i),
         calls'[i].answer = "ok" =>
           /\ calls'[i].step = "gone"
           /\ calls[i].answer = "ok" \/ (db'.token[i] = 0 /\ i \notin db'.pending /\ CompleteIn(db'.log, i)),
         Passing(pass)', pass'.runs \subseteq pass.runs
  PROVE  InvocationInv'
<1>1. /\ Timeline(db)' /\ db'.made = db.made /\ db'.epoch = db.epoch /\ db'.pending \subseteq db.pending
      /\ \A j \in Invocations : /\ db.token[j] = 0 => db'.token[j] = 0
                                /\ EndedIn(db'.log, j) => EndedIn(db.log, j) \/ j = i
                                /\ CompleteIn(db.log, j) => CompleteIn(db'.log, j)
      /\ \A j, x : InvokedIn(db.log, j, x) => InvokedIn(db'.log, j, x)
      /\ holder # Free => db'.log = db.log
      /\ i \in Invocations
  BY FinishedRows
<1>2. backup' \in Seq(Rows) /\ Len(backup') <= 1 /\ (backup' # <<>> => Timeline(backup[1])')
  BY DEF InvocationInv, Timeline
<1>3. Passing(pass)' /\ pass'.runs \subseteq {j \in Invocations : age'[j] = "overdue"} /\ age' \in [Invocations -> Ages]
  BY DEF InvocationInv
<1>4. ASSUME NEW j \in Invocations PROVE Serves(j)'
  <2>1. Serves(j)
    BY DEF InvocationInv
  <2>2. CASE j = i
    BY <2>2 DEF Serves, Calls!At
  <2>3. CASE j # i
    BY <1>1, <2>1, <2>3 DEF Serves, Calls!At
  <2> QED BY <2>2, <2>3
<1>5. ASSUME NEW j \in Invocations PROVE Holds(j)'
  <2>1. Holds(j) /\ (holder = j => holder # Free)
    BY InvocationConstants DEF InvocationInv
  <2> QED BY <1>1, <2>1 DEF Holds
<1>6. Calls!AnswerRecorded'
  <2>1. ASSUME NEW j \in Invocations, calls'[j].answer = "ok"
        PROVE  db'.token[j] = 0 /\ j \notin db'.pending /\ CompleteIn(db'.log, j)
    <3>1. calls[j].answer = "ok" => db.token[j] = 0 /\ j \notin db.pending /\ CompleteIn(db.log, j)
      BY RecordedIs DEF InvocationInv
    <3> QED BY <1>1, <2>1, <3>1
  <2> QED BY <2>1 DEF Calls!AnswerRecorded, CompleteIn
<1> QED BY <1>1, <1>2, <1>3, <1>4, <1>5, <1>6 DEF InvocationInv

-----------------------------------------------------------------------------
(* The steps of Invocation *)

LEMMA InvokeTypes ==
  ASSUME InvocationInv
  PROVE  /\ Timeline(db) /\ db \in Rows /\ db.log \in Seq(Events) /\ db.epoch \in Nat \ {0}
         /\ calls \in [Invocations -> CallRecords] /\ age \in [Invocations -> Ages]
         /\ \A i \in Invocations : Serves(i) /\ Holds(i) /\ calls[i] \in CallRecords
BY DEF InvocationInv, Timeline, Rows

LEMMA CallsWith ==
  ASSUME calls \in [Invocations -> CallRecords], NEW i \in Invocations, NEW w \in CallRecords,
         calls' = [calls EXCEPT ![i] = w]
  PROVE  /\ calls' \in [Invocations -> CallRecords] /\ calls'[i] = w
         /\ \A j \in Invocations : j # i => calls'[j] = calls[j]
OBVIOUS

LEMMA CallGone ==
  ASSUME NEW answer \in {"none", "ok", "error"}
  PROVE  LET w == Calls!Gone(answer) IN
         w \in CallRecords /\ w.step = "gone" /\ w.answer = answer
<1>1. Calls!Resting \in CallRecords
  BY DEF Calls!Resting, CallRecords, Calls!Kinds
<1> DEFINE r == Calls!Resting
           w == [r EXCEPT !.step = "gone", !.answer = answer]
<1>2. Calls!Gone(answer) = w
  BY DEF Calls!Gone
<1> HIDE DEF r
<1>3. w \in CallRecords /\ w.step = "gone" /\ w.answer = answer
  BY <1>1 DEF CallRecords, r
<1> HIDE DEF w
<1> QED BY <1>2, <1>3

LEMMA CallsCreate ==
  ASSUME InvocationInv, NEW i \in Invocations, NEW answered \in BOOLEAN, Calls!Create(i, answered)
  PROVE  InvocationInv'
<1>1. /\ Calls!At(i, "idle") /\ i \notin db.made /\ holder = Free /\ UNCHANGED <<backup, age, holder, pass>>
  BY DEF Calls!Create
<1>2. /\ Timeline(db) /\ db \in Rows /\ db.log \in Seq(Events) /\ db.epoch \in Nat \ {0}
      /\ calls \in [Invocations -> CallRecords] /\ Serves(i) /\ calls[i] \in CallRecords
  BY InvokeTypes
<1>3. PICK e \in Events : /\ e = Calls!Event("function.invoke", i)
                          /\ e.kind = "function.invoke" /\ e.of = i /\ e.epoch = db.epoch
  <2>1. "function.invoke" \in EventKinds
    BY DEF EventKinds
  <2> QED BY <1>2, <2>1, EventIs
<1> DEFINE token == [j \in Invocations |->
                       IF j = i THEN db.epoch ELSE IF age[j] = "new" THEN db.token[j] ELSE 0]
           log == Append(db.log, e)
<1>4. token \in [Invocations -> Nat]
  BY <1>2 DEF Rows
<1>5. log \in Seq(Events)
  BY <1>2, AppendProperties
<1>6. db' = [db EXCEPT !.made = db.made \cup {i}, !.pending = db.pending \cup {i},
                       !.log = log, !.token = token]
  BY <1>2, <1>3 DEF Calls!Create, Rows
<1>7. \A j \in Invocations : token[j] # 0 => (j = i /\ token[j] = db.epoch) \/ token[j] = db.token[j]
  OBVIOUS
<1>8. token[i] = db.epoch /\ \A j \in Invocations : j # i => token[j] = db.token[j] \/ token[j] = 0
  OBVIOUS
<1> HIDE DEF token
<1>9. PICK made \in SUBSET Invocations : made = db.made \cup {i}
  BY <1>2 DEF Rows
<1>10. PICK pending \in SUBSET Invocations : pending = db.pending \cup {i}
  BY <1>2 DEF Rows
<1> HIDE DEF log
<1>11. /\ db' \in Rows /\ db'.made = db.made \cup {i} /\ db'.pending = db.pending \cup {i}
       /\ db'.log = log /\ db'.token = token /\ db'.epoch = db.epoch
  <2>1. db' = [db EXCEPT !.made = made, !.pending = pending, !.log = log, !.token = token]
    BY <1>6, <1>9, <1>10
  <2>2. /\ db' \in Rows /\ db'.made = made /\ db'.pending = pending /\ db'.log = log
        /\ db'.token = token /\ db'.epoch = db.epoch
    <3> DEFINE u == [db EXCEPT !.made = made, !.pending = pending]
               v == [u EXCEPT !.log = log, !.token = token]
    <3>1. /\ u \in Rows /\ u.made = made /\ u.pending = pending /\ u.epoch = db.epoch
      BY <1>2 DEF Rows
    <3>2. db' = v
      BY <1>2, <2>1 DEF Rows
    <3> HIDE DEF u
    <3>3. /\ v \in Rows /\ v.made = u.made /\ v.pending = u.pending /\ v.log = log /\ v.token = token
          /\ v.epoch = u.epoch
      BY <1>4, <1>5, <3>1 DEF Rows
    <3> HIDE DEF v
    <3> QED BY <3>1, <3>2, <3>3
  <2> QED BY <1>9, <1>10, <2>2
<1>12. /\ \A j : EndedIn(log, j) => EndedIn(db.log, j) \/ (e.of = j /\ e.kind \in Calls!Kinds)
       /\ \A j, x : InvokedIn(db.log, j, x) /\ (e.of = j /\ e.kind = "function.invoke" => e.epoch = x)
                    => InvokedIn(log, j, x)
       /\ \A j : CompleteIn(db.log, j) \/ (e.of = j /\ e.kind = "function.complete") => CompleteIn(log, j)
  BY <1>2, AppendedSays DEF log
<1>13. \A n \in DOMAIN db.log : db.log[n].of # i
  BY <1>1, <1>2 DEF Timeline
<1>14. ~EndedIn(db.log, i) /\ \A x : InvokedIn(db.log, i, x)
  BY <1>13 DEF EndedIn, InvokedIn
<1>15. e.kind \notin Calls!Kinds /\ e.kind # "callback"
  BY <1>3 DEF Calls!Kinds
<1>16. LastIn(log)
  <2>1. LastIn(db.log) /\ ~EndedIn(db.log, e.of)
    BY <1>2, <1>3, <1>14 DEF Timeline
  <2> QED BY <1>2, <2>1, LastKept DEF log
<1>17. SameEpochIn(log)
  <2>1. SameEpochIn(db.log) /\ e.kind # "callback" /\ \A n \in DOMAIN db.log : db.log[n].of # e.of
    BY <1>2, <1>3, <1>13, <1>15 DEF Timeline
  <2> QED BY <1>2, <2>1, SameEpochKept DEF log
<1>18. \A n \in DOMAIN log : log[n].of \in db'.made
  <2>1. \A n \in DOMAIN log : (n \in DOMAIN db.log /\ log[n] = db.log[n]) \/ log[n] = e
    BY <1>2, LogAppended DEF log
  <2> QED BY <1>2, <1>3, <1>11, <2>1 DEF Timeline
<1>19. ASSUME NEW j \in Invocations, token[j] # 0
       PROVE  ~EndedIn(log, j) /\ InvokedIn(log, j, token[j])
  <2>1. CASE j = i
    BY <1>3, <1>8, <1>12, <1>14, <1>15, <2>1
  <2>2. CASE j # i
    BY <1>2, <1>3, <1>8, <1>12, <1>15, <1>19, <2>2 DEF Timeline
  <2> QED BY <2>1, <2>2
<1>20. Timeline(db)'
  BY <1>11, <1>16, <1>17, <1>18, <1>19 DEF Timeline
<1>21. PICK step \in {"run", "gone"} : calls' = [calls EXCEPT ![i].step = step]
  BY DEF Calls!Create
<1> DEFINE w == [calls[i] EXCEPT !.step = step]
<1>22. w \in CallRecords /\ w.step = step /\ w.answer = calls[i].answer
  BY <1>2 DEF CallRecords
<1>23. calls' = [calls EXCEPT ![i] = w]
  BY <1>21
<1> HIDE DEF w
<1>24. /\ calls' \in [Invocations -> CallRecords] /\ calls'[i] = w
       /\ \A j \in Invocations : j # i => calls'[j] = calls[j]
  BY <1>2, <1>22, <1>23, CallsWith
<1>25. calls[i].answer # "ok"
  BY <1>1, <1>2 DEF Serves, Calls!At
<1>26. ASSUME NEW j \in Invocations PROVE Serves(j)'
  <2>1. CASE j = i
    BY <1>1, <1>2, <1>3, <1>11, <1>12, <1>14, <1>15, <1>22, <1>24, <1>25, <2>1 DEF Serves, Calls!At
  <2>2. CASE j # i
    <3>1. Serves(j)
      BY DEF InvocationInv
    <3> QED BY <1>1, <1>3, <1>11, <1>12, <1>15, <1>24, <2>2, <3>1 DEF Serves, Calls!At
  <2> QED BY <2>1, <2>2
<1>27. \A j \in Invocations : Holds(j)'
  BY <1>1, InvocationConstants DEF Holds
<1>28. Calls!AnswerRecorded'
  <2>1. ASSUME NEW j \in Invocations, calls'[j].answer = "ok"
        PROVE  db'.token[j] = 0 /\ j \notin db'.pending /\ CompleteIn(db'.log, j)
    <3>1. j # i /\ calls[j].answer = "ok"
      BY <1>22, <1>24, <1>25, <2>1
    <3>2. db.token[j] = 0 /\ j \notin db.pending /\ CompleteIn(db.log, j)
      BY <3>1, RecordedIs DEF InvocationInv
    <3> QED BY <1>8, <1>11, <1>12, <3>1, <3>2
  <2> QED BY <2>1 DEF Calls!AnswerRecorded, CompleteIn
<1>29. backup' \in Seq(Rows) /\ Len(backup') <= 1 /\ (backup' # <<>> => Timeline(backup[1])')
  BY <1>1 DEF InvocationInv, Timeline
<1>30. /\ Passing(pass)' /\ pass'.runs \subseteq {j \in Invocations : age'[j] = "overdue"}
       /\ age' \in [Invocations -> Ages]
  BY <1>1 DEF InvocationInv, Passing
<1> QED BY <1>20, <1>24, <1>26, <1>27, <1>28, <1>29, <1>30 DEF InvocationInv

(* A callback that has the lock writes its event, or leaves it. *)
LEMMA CallsCallback ==
  ASSUME InvocationInv, NEW i \in Invocations, Calls!Callback(i)
  PROVE  InvocationInv'
<1>1. holder = i /\ holder' = Free /\ UNCHANGED <<calls, pass, backup, age>>
  BY DEF Calls!Callback, Calls!world
<1>2. /\ Timeline(db) /\ db \in Rows /\ db.log \in Seq(Events) /\ db.epoch \in Nat \ {0}
      /\ i \in db.made /\ ~EndedIn(db.log, i) /\ InvokedIn(db.log, i, db.epoch)
  BY <1>1, InvokeTypes DEF Holds
<1>3. /\ Timeline(db)' /\ db'.made = db.made /\ db'.token = db.token /\ db'.pending = db.pending
      /\ \A j : EndedIn(db'.log, j) => EndedIn(db.log, j)
      /\ \A j : CompleteIn(db.log, j) => CompleteIn(db'.log, j)
  <2>1. CASE db' = db
    BY <1>2, <2>1 DEF Timeline
  <2>2. CASE db' # db
    <3>1. PICK e \in Events : /\ e = Calls!Event("callback", i)
                              /\ e.kind = "callback" /\ e.of = i /\ e.epoch = db.epoch
      <4>1. "callback" \in EventKinds
        BY DEF EventKinds
      <4> QED BY <1>2, <4>1, EventIs
    <3> DEFINE log == Append(db.log, e)
    <3>2. log \in Seq(Events)
      BY <1>2, AppendProperties
    <3>3. db' = [db EXCEPT !.log = log]
      BY <1>2, <2>2, <3>1 DEF Calls!Callback
    <3> HIDE DEF log
    <3>4. /\ db' \in Rows /\ db'.log = log /\ db'.made = db.made /\ db'.token = db.token
          /\ db'.pending = db.pending
      BY <1>2, <3>2, <3>3 DEF Rows
    <3>5. /\ \A j : EndedIn(log, j) => EndedIn(db.log, j) \/ (e.of = j /\ e.kind \in Calls!Kinds)
          /\ \A j, x : InvokedIn(db.log, j, x) /\ (e.of = j /\ e.kind = "function.invoke" => e.epoch = x)
                       => InvokedIn(log, j, x)
          /\ \A j : CompleteIn(db.log, j) \/ (e.of = j /\ e.kind = "function.complete") => CompleteIn(log, j)
      BY <1>2, AppendedSays DEF log
    <3>6. e.kind \notin Calls!Kinds /\ e.kind # "function.invoke"
      BY <3>1 DEF Calls!Kinds
    <3>7. LastIn(log) /\ SameEpochIn(log)
      BY <1>2, <3>1, LastKept, SameEpochKept DEF Timeline, log
    <3>8. \A n \in DOMAIN log : log[n].of \in db'.made
      <4>1. \A n \in DOMAIN log : (n \in DOMAIN db.log /\ log[n] = db.log[n]) \/ log[n] = e
        BY <1>2, LogAppended DEF log
      <4> QED BY <1>2, <3>1, <3>4, <4>1 DEF Timeline
    <3>9. \A j \in Invocations : db'.token[j] # 0 =>
            ~EndedIn(log, j) /\ InvokedIn(log, j, db'.token[j])
      BY <1>2, <3>4, <3>5, <3>6 DEF Timeline
    <3>10. Timeline(db)'
      BY <3>4, <3>7, <3>8, <3>9 DEF Timeline
    <3> QED BY <3>4, <3>5, <3>6, <3>10
  <2> QED BY <2>1, <2>2
<1>4. \A j \in Invocations : Serves(j)'
  <2>1. \A j \in Invocations : Serves(j)
    BY DEF InvocationInv
  <2> QED BY <1>1, <1>3, <2>1 DEF Serves, Calls!At
<1>5. \A j \in Invocations : Holds(j)'
  BY <1>1, InvocationConstants DEF Holds
<1>6. Calls!AnswerRecorded'
  <2>1. ASSUME NEW j \in Invocations, calls'[j].answer = "ok"
        PROVE  db'.token[j] = 0 /\ j \notin db'.pending /\ CompleteIn(db'.log, j)
    BY <1>1, <1>3, <2>1, RecordedIs DEF InvocationInv
  <2> QED BY <2>1 DEF Calls!AnswerRecorded, CompleteIn
<1>7. backup' \in Seq(Rows) /\ Len(backup') <= 1 /\ (backup' # <<>> => Timeline(backup[1])')
  BY <1>1 DEF InvocationInv, Timeline
<1>8. /\ Passing(pass)' /\ pass'.runs \subseteq {j \in Invocations : age'[j] = "overdue"}
      /\ age' \in [Invocations -> Ages] /\ calls' \in [Invocations -> CallRecords]
  BY <1>1 DEF InvocationInv, Passing
<1> QED BY <1>3, <1>4, <1>5, <1>6, <1>7, <1>8 DEF InvocationInv

LEMMA PassStays ==
  ASSUME InvocationInv, UNCHANGED pass
  PROVE  Passing(pass)' /\ pass'.runs \subseteq pass.runs
BY DEF InvocationInv, Passing

(* The end of an execution, and of an invocation *)
LEMMA CallsReturn ==
  ASSUME InvocationInv, NEW i \in Invocations, NEW kind \in Calls!Kinds, Calls!Return(i, kind)
  PROVE  InvocationInv'
<1>1. /\ Calls!At(i, "run") /\ UNCHANGED <<db, holder, pass, backup, age>>
      /\ calls' = [calls EXCEPT ![i].step = "finish", ![i].kind = kind, ![i].left = Attempts]
  BY DEF Calls!Return, Calls!world
<1>2. calls \in [Invocations -> CallRecords] /\ Serves(i) /\ calls[i] \in CallRecords
  BY InvokeTypes
<1> DEFINE v == [calls[i] EXCEPT !.step = "finish", !.kind = kind]
           w == [v EXCEPT !.left = Attempts]
<1>3. v \in CallRecords /\ v.step = "finish" /\ v.answer = calls[i].answer
  BY <1>2 DEF CallRecords
<1>4. calls' = [calls EXCEPT ![i] = calls'[i]] /\ calls'[i] = w
  BY <1>1, <1>2 DEF CallRecords
<1> HIDE DEF v
<1>5. w \in CallRecords /\ w.step = "finish" /\ w.answer = calls[i].answer
  BY <1>3, InvocationConstants DEF CallRecords
<1> HIDE DEF w
<1>6. /\ calls' \in [Invocations -> CallRecords] /\ calls'[i] = w
      /\ \A j \in Invocations : j # i => calls'[j] = calls[j]
  BY <1>2, <1>4, <1>5, CallsWith
<1>7. calls[i].answer # "ok" /\ age[i] # "overdue" /\ ~EndedIn(db.log, i)
  BY <1>1, <1>2 DEF Serves, Calls!At
<1>8. ASSUME NEW j \in Invocations PROVE Serves(j)'
  <2>1. Serves(j)
    BY DEF InvocationInv
  <2>2. CASE j = i
    BY <1>1, <1>5, <1>6, <1>7, <2>2 DEF Serves, Calls!At
  <2>3. CASE j # i
    BY <1>1, <1>6, <2>1, <2>3 DEF Serves, Calls!At
  <2> QED BY <2>2, <2>3
<1>9. \A j \in Invocations : Holds(j)'
  BY <1>1 DEF InvocationInv, Holds
<1>10. Calls!AnswerRecorded'
  BY <1>1, <1>5, <1>6, <1>7 DEF InvocationInv, Calls!AnswerRecorded
<1>11. /\ Timeline(db)' /\ backup' \in Seq(Rows) /\ Len(backup') <= 1
       /\ (backup' # <<>> => Timeline(backup[1])')
  BY <1>1 DEF InvocationInv, Timeline
<1>12. /\ Passing(pass)' /\ pass'.runs \subseteq {j \in Invocations : age'[j] = "overdue"}
       /\ age' \in [Invocations -> Ages]
  BY <1>1 DEF InvocationInv, Passing
<1> QED BY <1>6, <1>8, <1>9, <1>10, <1>11, <1>12 DEF InvocationInv

LEMMA CallsFinish ==
  ASSUME InvocationInv, NEW i \in Invocations, Calls!Finish(i)
  PROVE  InvocationInv'
<1>1. /\ Calls!At(i, "finish") /\ i \in db.made /\ UNCHANGED <<holder, pass, backup, age>>
      /\ db' = Calls!Finished(i, calls[i].kind)
  BY DEF Calls!Finish, Calls!world
<1>2. /\ calls \in [Invocations -> CallRecords] /\ Serves(i) /\ calls[i] \in CallRecords
      /\ Timeline(db) /\ db \in Rows
  BY InvokeTypes
<1>3. PICK kind \in Calls!Kinds : kind = calls[i].kind
  BY <1>2 DEF CallRecords
<1>4. calls[i].answer # "ok" /\ age[i] # "overdue" /\ ~EndedIn(db.log, i)
  BY <1>1, <1>2 DEF Serves, Calls!At
<1>5. /\ (Calls!Records => i \notin db'.pending)
      /\ (Calls!Records /\ ~EndedIn(db.log, i) => db'.log = Append(db.log, Calls!Event(kind, i)))
      /\ (~(Calls!Records /\ ~EndedIn(db.log, i)) => db'.log = db.log)
      /\ db'.token = [db.token EXCEPT ![i] = 0]
  BY <1>1, <1>2, <1>3, FinishedIs
<1>6. Calls!Complete(i, db') <=> db'.token[i] = 0 /\ EndedIn(db'.log, i)
  BY DEF Calls!Complete, EndedIn
<1>7. db'.token[i] = 0
  BY <1>2, <1>5 DEF Rows
<1>8. /\ Calls!Records => /\ EndedIn(db'.log, i)
                          /\ kind = "function.complete" => CompleteIn(db'.log, i)
      /\ ~Calls!Records => ~EndedIn(db'.log, i)
  <2>1. CASE Calls!Records
    <3>1. kind \in EventKinds /\ db.log \in Seq(Events)
      BY <1>2 DEF EventKinds, Rows
    <3>2. PICK e \in Events : e = Calls!Event(kind, i) /\ e.kind = kind /\ e.of = i
      BY <1>2, <3>1, EventIs
    <3>3. db'.log = Append(db.log, e)
      BY <1>4, <1>5, <2>1, <3>2
    <3>4. /\ Len(db.log) + 1 \in DOMAIN db'.log /\ db'.log[Len(db.log) + 1] = e
      BY <3>1, <3>3, LogAppended
    <3> QED BY <2>1, <3>2, <3>4 DEF EndedIn, CompleteIn
  <2>2. CASE ~Calls!Records
    BY <1>4, <1>5, <2>2
  <2> QED BY <2>1, <2>2
<1>9. CASE Calls!Records
  <2>1. PICK answer \in {"ok", "error"} :
          calls' = [calls EXCEPT ![i] = Calls!Gone(answer)] /\ (answer = "ok" => kind = "function.complete")
    <3>1. Calls!Complete(i, db')
      BY <1>6, <1>7, <1>8, <1>9
    <3>2. calls' = [calls EXCEPT ![i] = Calls!Gone(Calls!Answer(i))]
      BY <3>1 DEF Calls!Finish
    <3> QED BY <1>3, <3>2 DEF Calls!Answer
  <2> DEFINE w == Calls!Gone(answer)
  <2>2. w \in CallRecords /\ w.step = "gone" /\ w.answer = answer
    BY CallGone
  <2>3. calls' = [calls EXCEPT ![i] = w]
    BY <2>1
  <2> HIDE DEF w
  <2>4. /\ calls' \in [Invocations -> CallRecords] /\ calls'[i] = w
        /\ \A j \in Invocations : j # i => calls'[j] = calls[j]
    BY <1>2, <2>2, <2>3, CallsWith
  <2>5. calls'[i].answer = "ok" => i \notin db'.pending /\ CompleteIn(db'.log, i)
    BY <1>5, <1>8, <1>9, <2>1, <2>2, <2>4
  <2> QED BY <1>1, <1>3, <1>7, <2>2, <2>4, <2>5, PassStays, FinishingKeeps
<1>10. CASE ~Calls!Records
  <2>1. ~Calls!Complete(i, db')
    BY <1>6, <1>8, <1>10
  <2>2. PICK w \in CallRecords :
          calls' = [calls EXCEPT ![i] = w] /\ w.step \in {"finish", "gone"} /\ w.answer # "ok"
    <3>1. CASE calls[i].left = 1
      <4>1. calls' = [calls EXCEPT ![i] = Calls!Gone("error")]
        BY <2>1, <3>1 DEF Calls!Finish
      <4>2. PICK w : w = Calls!Gone("error")
        OBVIOUS
      <4>3. w \in CallRecords /\ w.step = "gone" /\ w.answer = "error"
        BY <4>2, CallGone
      <4> QED BY <4>1, <4>2, <4>3
    <3>2. CASE calls[i].left # 1
      <4>1. calls' = [calls EXCEPT ![i].left = @ - 1]
        BY <2>1, <3>2 DEF Calls!Finish
      <4>2. PICK w : w = [calls[i] EXCEPT !.left = calls[i].left - 1]
        OBVIOUS
      <4>3. w \in CallRecords /\ w.step = calls[i].step /\ w.answer = calls[i].answer
        BY <1>2, <4>2 DEF CallRecords
      <4>4. calls' = [calls EXCEPT ![i] = w]
        BY <4>1, <4>2
      <4> QED BY <1>1, <1>4, <4>3, <4>4 DEF Calls!At
    <3> QED BY <3>1, <3>2
  <2>3. /\ calls' \in [Invocations -> CallRecords] /\ calls'[i] = w
        /\ \A j \in Invocations : j # i => calls'[j] = calls[j]
    BY <1>2, <2>2, CallsWith
  <2>4. calls'[i].step \in {"run", "finish"} => age[i] # "overdue" /\ ~EndedIn(db'.log, i)
    BY <1>4, <1>8, <1>10
  <2> QED BY <1>1, <1>3, <2>2, <2>3, <2>4, PassStays, FinishingKeeps
<1> QED BY <1>9, <1>10

LEMMA CallsFinishFails ==
  ASSUME InvocationInv, NEW i \in Invocations, Calls!FinishFails(i)
  PROVE  InvocationInv'
<1>1. /\ Calls!At(i, "finish") /\ UNCHANGED <<backup, age, holder, pass>>
      /\ calls' = [calls EXCEPT ![i] = Calls!Gone("error")]
  BY DEF Calls!FinishFails
<1>2. /\ calls \in [Invocations -> CallRecords] /\ Serves(i) /\ calls[i] \in CallRecords
  BY InvokeTypes
<1>3. PICK w : w = Calls!Gone("error")
  OBVIOUS
<1>4. w \in CallRecords /\ w.step = "gone" /\ w.answer = "error"
  BY <1>3, CallGone
<1>5. /\ calls' \in [Invocations -> CallRecords] /\ calls'[i] = w
      /\ \A j \in Invocations : j # i => calls'[j] = calls[j]
  BY <1>1, <1>2, <1>3, <1>4, CallsWith
<1>6. CASE i \in db.made
  <2>1. PICK kind \in Calls!Kinds : kind = calls[i].kind
    BY <1>2 DEF CallRecords
  <2>2. db' = db \/ db' = Calls!Finished(i, kind)
    BY <1>6, <2>1 DEF Calls!FinishFails
  <2> QED BY <1>1, <1>4, <1>5, <1>6, <2>2, PassStays, FinishingKeeps
<1>7. CASE i \notin db.made
  <2>1. UNCHANGED db
    BY <1>7 DEF Calls!FinishFails
  <2>2. ASSUME NEW j \in Invocations PROVE Serves(j)'
    <3>1. Serves(j)
      BY DEF InvocationInv
    <3> QED BY <1>1, <1>4, <1>5, <2>1, <3>1 DEF Serves, Calls!At
  <2>3. \A j \in Invocations : Holds(j)'
    BY <1>1, <2>1 DEF InvocationInv, Holds
  <2>4. Calls!AnswerRecorded'
    BY <1>4, <1>5, <2>1 DEF InvocationInv, Calls!AnswerRecorded
  <2>5. /\ Timeline(db)' /\ backup' \in Seq(Rows) /\ Len(backup') <= 1
        /\ (backup' # <<>> => Timeline(backup[1])')
    BY <1>1, <2>1 DEF InvocationInv, Timeline
  <2>6. /\ Passing(pass)' /\ pass'.runs \subseteq {j \in Invocations : age'[j] = "overdue"}
         /\ age' \in [Invocations -> Ages]
    BY <1>1 DEF InvocationInv, Passing
  <2> QED BY <1>5, <2>2, <2>3, <2>4, <2>5, <2>6 DEF InvocationInv
<1> QED BY <1>6, <1>7

LEMMA CallsReconcile ==
  ASSUME InvocationInv, Calls!Reconcile
  PROVE  InvocationInv'
<1>1. UNCHANGED <<holder, calls, backup, age>>
  BY DEF Calls!Reconcile, Calls!world
<1>2. PICK i \in pass.runs :
        IF i \in db.made
        THEN /\ db' = Calls!Finished(i, "function.fail")
             /\ pass' = IF Calls!Complete(i, db') \/ pass.left = 1 THEN Calls!After(i)
                        ELSE [pass EXCEPT !.left = @ - 1]
        ELSE UNCHANGED db /\ pass' = Calls!After(i)
  BY DEF Calls!Reconcile
<1>3. i \in Invocations /\ age[i] = "overdue"
  BY DEF InvocationInv
<1>4. /\ calls \in [Invocations -> CallRecords] /\ Serves(i) /\ calls[i] \in CallRecords
  BY <1>3, InvokeTypes
<1>5. Passing(pass)' /\ pass'.runs \subseteq pass.runs
  <2>1. pass = [runs |-> pass.runs, left |-> pass.left, full |-> pass.full, on |-> pass.on,
                cursor |-> pass.cursor]
    BY DEF InvocationInv, Passing
  <2>2. CASE pass' = Calls!After(i)
    <3>1. pass' = [runs |-> pass.runs \ {i}, left |-> Attempts, full |-> pass.full, on |-> pass.on,
                   cursor |-> i]
      BY <2>1, <2>2 DEF Calls!After
    <3> QED BY <3>1 DEF Passing
  <2>3. CASE pass' = [pass EXCEPT !.left = @ - 1]
    <3>1. pass' = [runs |-> pass.runs, left |-> pass.left - 1, full |-> pass.full, on |-> pass.on,
                   cursor |-> pass.cursor]
      BY <2>1, <2>3
    <3> QED BY <3>1 DEF Passing
  <2> QED BY <1>2, <2>2, <2>3
<1>6. CASE i \in db.made
  <2>1. db' = Calls!Finished(i, "function.fail") /\ "function.fail" \in Calls!Kinds
    BY <1>2, <1>6 DEF Calls!Kinds
  <2>2. calls[i].step \notin {"idle", "run", "finish"} /\ (calls[i].answer = "ok" => calls[i].step = "gone")
    BY <1>3, <1>4, <1>6 DEF Serves, Calls!At
  <2> QED BY <1>1, <1>4, <1>5, <1>6, <2>1, <2>2, FinishingKeeps
<1>7. CASE i \notin db.made
  <2>1. UNCHANGED db
    BY <1>2, <1>7
  <2>2. \A j \in Invocations : Serves(j)' /\ Holds(j)'
    BY <1>1, <2>1 DEF InvocationInv, Serves, Holds, Calls!At
  <2>3. Calls!AnswerRecorded'
    BY <1>1, <2>1 DEF InvocationInv, Calls!AnswerRecorded
  <2>4. /\ Timeline(db)' /\ backup' \in Seq(Rows) /\ Len(backup') <= 1
        /\ (backup' # <<>> => Timeline(backup[1])')
    BY <1>1, <2>1 DEF InvocationInv, Timeline
  <2>5. /\ Passing(pass)' /\ pass'.runs \subseteq {j \in Invocations : age'[j] = "overdue"}
         /\ age' \in [Invocations -> Ages]
    BY <1>1, <1>5 DEF InvocationInv, Passing
  <2> QED BY <1>1, <1>4, <2>2, <2>3, <2>4, <2>5 DEF InvocationInv
<1> QED BY <1>6, <1>7

-----------------------------------------------------------------------------
(* Steps that leave the rows and the requests alone *)
LEMMA RowsStay ==
  ASSUME InvocationInv, UNCHANGED <<db, backup, calls, age>>,
         \A i \in Invocations : Holds(i)',
         Passing(pass)', pass'.runs \subseteq {i \in Invocations : age[i] = "overdue"}
  PROVE  InvocationInv'
<1>1. \A i \in Invocations : Serves(i)'
  BY DEF InvocationInv, Serves, Calls!At
<1>2. Calls!AnswerRecorded'
  BY DEF InvocationInv, Calls!AnswerRecorded
<1>3. /\ Timeline(db)' /\ backup' \in Seq(Rows) /\ Len(backup') <= 1
      /\ (backup' # <<>> => Timeline(backup[1])')
  BY DEF InvocationInv, Timeline
<1>4. /\ calls' \in [Invocations -> CallRecords] /\ age' \in [Invocations -> Ages]
      /\ pass'.runs \subseteq {i \in Invocations : age'[i] = "overdue"}
  BY DEF InvocationInv
<1> QED BY <1>1, <1>2, <1>3, <1>4 DEF InvocationInv

LEMMA PassOverdue ==
  ASSUME InvocationInv, UNCHANGED pass
  PROVE  Passing(pass)' /\ pass'.runs \subseteq {i \in Invocations : age[i] = "overdue"}
BY DEF InvocationInv, Passing

(* A callback binds its context: its token is of this epoch. *)
LEMMA CallsBind ==
  ASSUME InvocationInv, NEW i \in Invocations, Calls!Bind(i)
  PROVE  InvocationInv'
<1>1. /\ UNCHANGED <<db, backup, calls, age, pass>> /\ holder' = i
      /\ i \in db.made /\ db.token[i] = db.epoch
  BY DEF Calls!Bind, Calls!Binds, Calls!world
<1>2. Timeline(db) /\ db.epoch # 0
  BY InvokeTypes
<1>3. ~EndedIn(db.log, i) /\ InvokedIn(db.log, i, db.epoch)
  BY <1>1, <1>2 DEF Timeline
<1>4. \A j \in Invocations : Holds(j)'
  BY <1>1, <1>3 DEF Holds
<1> QED BY <1>1, <1>4, PassOverdue, RowsStay

LEMMA CallsLock ==
  ASSUME InvocationInv, Calls!Busy \/ Calls!Leave
  PROVE  InvocationInv'
<1>1. UNCHANGED <<db, backup, calls, age, pass>> /\ holder' \in {Free, Stranger}
  BY DEF Calls!Busy, Calls!Leave, Calls!world
<1>2. \A j \in Invocations : Holds(j)'
  BY <1>1, InvocationConstants DEF Holds
<1> QED BY <1>1, <1>2, PassOverdue, RowsStay

LEMMA CallsPass ==
  ASSUME InvocationInv, Calls!Begin \/ Calls!EndPass \/ Calls!CutPass
  PROVE  InvocationInv'
<1>1. UNCHANGED <<db, backup, calls, age, holder>>
  BY DEF Calls!Begin, Calls!EndPass, Calls!CutPass, Calls!world
<1>2. \A j \in Invocations : Holds(j)'
  BY <1>1 DEF InvocationInv, Holds
<1>3. db.pending \subseteq Invocations
  BY InvokeTypes DEF Rows
<1>4. Calls!Page \subseteq {i \in Invocations : age[i] = "overdue"}
  BY <1>3 DEF Calls!Page, Calls!Due
<1>5. pass = [runs |-> pass.runs, left |-> pass.left, full |-> pass.full, on |-> pass.on,
              cursor |-> pass.cursor]
  BY DEF InvocationInv, Passing
<1>6. CASE Calls!Begin
  <2>2. PICK full :
          pass' = [pass EXCEPT !.on = TRUE, !.runs = Calls!Page, !.left = Attempts, !.full = full]
    BY <1>6 DEF Calls!Begin
  <2>3. pass' = [runs |-> Calls!Page, left |-> Attempts, full |-> full, on |-> TRUE,
                 cursor |-> pass.cursor]
    BY <1>5, <2>2
  <2>4. Passing(pass)' /\ pass'.runs = Calls!Page
    BY <2>3 DEF Passing
  <2> QED BY <1>1, <1>2, <1>4, <2>4, RowsStay
<1>7. CASE Calls!EndPass \/ Calls!CutPass
  <2>1. PICK cursor : pass' = [Calls!Idle EXCEPT !.cursor = cursor]
    BY <1>7 DEF Calls!EndPass, Calls!CutPass
  <2>2. pass' = [runs |-> {}, left |-> 0, full |-> FALSE, on |-> FALSE, cursor |-> cursor]
    BY <2>1 DEF Calls!Idle
  <2>3. Passing(pass)' /\ pass'.runs = {}
    BY <2>2 DEF Passing
  <2> QED BY <1>1, <1>2, <2>3, RowsStay
<1> QED BY <1>6, <1>7

(* Time passes: only what was recorded expires, and nothing in the hands   *)
(* of the server is overdue.                                               *)
LEMMA CallsAge ==
  ASSUME InvocationInv, NEW i \in Invocations, Calls!Expire(i) \/ Calls!Overdue(i)
  PROVE  InvocationInv'
<1>1. UNCHANGED <<db, backup, holder, calls, pass>>
  BY DEF Calls!Expire, Calls!Overdue
<1>2. PICK a \in {"expired", "overdue"} : age' = [age EXCEPT ![i] = a]
  BY DEF Calls!Expire, Calls!Overdue
<1>3. age \in [Invocations -> Ages]
  BY InvokeTypes
<1>4. /\ age' \in [Invocations -> Ages] /\ age'[i] = a
      /\ \A j \in Invocations : j # i => age'[j] = age[j]
  BY <1>2, <1>3 DEF Ages
<1>5. ~Calls!At(i, "idle")
  BY <1>3, InvokeTypes DEF Serves, Calls!Expire, Calls!Overdue
<1>6. calls[i].step \in {"run", "finish"} => age'[i] # "overdue"
  <2>1. CASE Calls!Expire(i)
    BY <1>3, <2>1 DEF Calls!Expire
  <2>2. CASE Calls!Overdue(i)
    BY <2>2 DEF Calls!Overdue
  <2> QED BY <2>1, <2>2
<1>7. age[i] # "overdue"
  BY DEF Calls!Expire, Calls!Overdue
<1>8. ASSUME NEW j \in Invocations PROVE Serves(j)'
  <2>1. Serves(j)
    BY DEF InvocationInv
  <2>2. CASE j = i
    BY <1>1, <1>5, <1>6, <2>1, <2>2 DEF Serves, Calls!At
  <2>3. CASE j # i
    BY <1>1, <1>4, <2>1, <2>3 DEF Serves, Calls!At
  <2> QED BY <2>2, <2>3
<1>9. \A j \in Invocations : Holds(j)'
  BY <1>1 DEF InvocationInv, Holds
<1>10. Calls!AnswerRecorded'
  BY <1>1 DEF InvocationInv, Calls!AnswerRecorded
<1>11. /\ Timeline(db)' /\ backup' \in Seq(Rows) /\ Len(backup') <= 1
       /\ (backup' # <<>> => Timeline(backup[1])')
  BY <1>1 DEF InvocationInv, Timeline
<1>12. Passing(pass)' /\ pass'.runs \subseteq {j \in Invocations : age'[j] = "overdue"}
  BY <1>1, <1>4, <1>7, PassOverdue
<1> QED BY <1>1, <1>4, <1>8, <1>9, <1>10, <1>11, <1>12 DEF InvocationInv

(* The server dies; the function may go on. *)
LEMMA CallsCrash ==
  ASSUME InvocationInv, Calls!Crash
  PROVE  InvocationInv'
<1>1. /\ UNCHANGED <<db, backup, age>> /\ holder' = Free /\ pass' = Calls!Idle
      /\ calls' = [i \in Invocations |->
                     IF calls[i].step \in {"run", "finish"} THEN Calls!Gone("none") ELSE calls[i]]
  BY DEF Calls!Crash
<1>2. PICK w : w = Calls!Gone("none")
  OBVIOUS
<1>3. w \in CallRecords /\ w.step = "gone" /\ w.answer = "none"
  BY <1>2, CallGone
<1>4. \A i \in Invocations : calls'[i] = calls[i] \/ calls'[i] = w
  BY <1>1, <1>2
<1>5. \A i \in Invocations : calls'[i] \in CallRecords
  BY <1>3, <1>4, InvokeTypes
<1>6. calls' \in [Invocations -> CallRecords]
  BY <1>1, <1>5
<1>7. ASSUME NEW j \in Invocations PROVE Serves(j)'
  <2>1. Serves(j)
    BY DEF InvocationInv
  <2> QED BY <1>1, <1>3, <1>4, <2>1 DEF Serves, Calls!At
<1>8. \A j \in Invocations : Holds(j)'
  BY <1>1, InvocationConstants DEF Holds
<1>9. Calls!AnswerRecorded'
  BY <1>1, <1>3, <1>4 DEF InvocationInv, Calls!AnswerRecorded
<1>10. /\ Timeline(db)' /\ backup' \in Seq(Rows) /\ Len(backup') <= 1
       /\ (backup' # <<>> => Timeline(backup[1])')
  BY <1>1 DEF InvocationInv, Timeline
<1>11. Passing(pass)' /\ pass'.runs = {} /\ age' \in [Invocations -> Ages]
  BY <1>1 DEF InvocationInv, Passing, Calls!Idle
<1> QED BY <1>6, <1>7, <1>8, <1>9, <1>10, <1>11 DEF InvocationInv

(* The copy is of a timeline, and what was not recorded then is not in it. *)
LEMMA CallsBackup ==
  ASSUME InvocationInv, Calls!Backup
  PROVE  InvocationInv'
<1>1. UNCHANGED <<db, holder, age, calls, pass>> /\ backup' = <<db>>
  BY DEF Calls!Backup
<1>2. Timeline(db) /\ db \in Rows
  BY InvokeTypes
<1>3. backup' \in Seq(Rows) /\ Len(backup') = 1 /\ backup'[1] = db
  BY <1>1, <1>2
<1>4. Timeline(backup[1])' /\ Timeline(db)'
  BY <1>1, <1>2, <1>3 DEF Timeline
<1>5. ASSUME NEW j \in Invocations PROVE Serves(j)'
  <2>1. Serves(j)
    BY DEF InvocationInv
  <2> QED BY <1>1, <1>3, <2>1 DEF Serves, Calls!At
<1>6. \A j \in Invocations : Holds(j)'
  BY <1>1 DEF InvocationInv, Holds
<1>7. Calls!AnswerRecorded'
  BY <1>1 DEF InvocationInv, Calls!AnswerRecorded
<1>8. /\ Passing(pass)' /\ pass'.runs \subseteq {j \in Invocations : age'[j] = "overdue"}
      /\ age' \in [Invocations -> Ages] /\ calls' \in [Invocations -> CallRecords]
  BY <1>1 DEF InvocationInv, Passing
<1> QED BY <1>3, <1>4, <1>5, <1>6, <1>7, <1>8 DEF InvocationInv

(* Of the timeline that a restore brings back no request knows anything. *)
LEMMA CallsRestore ==
  ASSUME InvocationInv, Calls!Restore
  PROVE  InvocationInv'
<1>1. /\ UNCHANGED <<backup, age>> /\ holder' = Free /\ pass' = Calls!Idle /\ backup # <<>>
      /\ db' = [backup[1] EXCEPT !.gate = TRUE, !.epoch = db.epoch + 1]
      /\ calls' = [i \in Invocations |->
                     [Calls!Resting EXCEPT !.step = IF Calls!At(i, "idle") THEN "idle" ELSE "gone"]]
  BY DEF Calls!Restore
<1>2. Timeline(backup[1]) /\ db.epoch \in Nat \ {0}
  BY <1>1, InvokeTypes DEF InvocationInv
<1>3. PICK b \in Rows : b = backup[1] /\ Timeline(b)
  BY <1>2 DEF Timeline
<1>4. PICK epoch \in Nat \ {0} : epoch = db.epoch + 1
  BY <1>2
<1>5. /\ db' \in Rows /\ db'.token = b.token /\ db'.made = b.made /\ db'.pending = b.pending
      /\ db'.log = b.log
  <2>1. db' = [b EXCEPT !.gate = TRUE, !.epoch = epoch]
    BY <1>1, <1>3, <1>4
  <2> QED BY <2>1 DEF Rows
<1>6. Timeline(db)'
  BY <1>3, <1>5 DEF Timeline
<1>7. Calls!Resting \in CallRecords /\ Calls!Resting.answer = "none"
  BY DEF Calls!Resting, CallRecords, Calls!Kinds
<1>8. PICK r \in CallRecords : r = Calls!Resting /\ r.answer = "none"
  BY <1>7
<1>9. ASSUME NEW j \in Invocations
      PROVE  /\ calls'[j] \in CallRecords /\ calls'[j].answer = "none"
             /\ calls'[j].step \in {"idle", "gone"}
             /\ calls'[j].step = "idle" => Calls!At(j, "idle")
  <2>1. PICK step \in {"idle", "gone"} :
          /\ step = IF Calls!At(j, "idle") THEN "idle" ELSE "gone"
    OBVIOUS
  <2>2. calls'[j] = [r EXCEPT !.step = step]
    BY <1>1, <1>8, <2>1
  <2>3. calls'[j] \in CallRecords /\ calls'[j].answer = "none" /\ calls'[j].step = step
    BY <1>8, <2>2 DEF CallRecords
  <2> QED BY <2>1, <2>3
<1>10. calls' \in [Invocations -> CallRecords]
  BY <1>1, <1>9
<1>11. ASSUME NEW j \in Invocations PROVE Serves(j)'
  <2>1. Serves(j)
    BY DEF InvocationInv
  <2> QED BY <1>1, <1>3, <1>5, <1>9, <2>1 DEF Serves, Calls!At
<1>12. \A j \in Invocations : Holds(j)'
  BY <1>1, InvocationConstants DEF Holds
<1>13. Calls!AnswerRecorded'
  BY <1>9 DEF Calls!AnswerRecorded
<1>14. backup' \in Seq(Rows) /\ Len(backup') <= 1 /\ (backup' # <<>> => Timeline(backup[1])')
  BY <1>1 DEF InvocationInv, Timeline
<1>15. Passing(pass)' /\ pass'.runs = {} /\ age' \in [Invocations -> Ages]
  BY <1>1 DEF InvocationInv, Passing, Calls!Idle
<1> QED BY <1>6, <1>10, <1>11, <1>12, <1>13, <1>14, <1>15 DEF InvocationInv

LEMMA CallsOpen ==
  ASSUME InvocationInv, Calls!Open
  PROVE  InvocationInv'
<1>1. UNCHANGED <<backup, holder, age, calls, pass>> /\ db' = [db EXCEPT !.gate = FALSE]
  BY DEF Calls!Open, Calls!world
<1>2. Timeline(db) /\ db \in Rows
  BY InvokeTypes
<1>3. /\ db' \in Rows /\ db'.token = db.token /\ db'.made = db.made /\ db'.pending = db.pending
      /\ db'.log = db.log /\ db'.epoch = db.epoch
  BY <1>1, <1>2 DEF Rows
<1>4. Timeline(db)'
  BY <1>2, <1>3 DEF Timeline
<1>5. \A j \in Invocations : Serves(j)' /\ Holds(j)'
  BY <1>1, <1>3 DEF InvocationInv, Serves, Holds, Calls!At
<1>6. Calls!AnswerRecorded'
  BY <1>1, <1>3 DEF InvocationInv, Calls!AnswerRecorded
<1>7. backup' \in Seq(Rows) /\ Len(backup') <= 1 /\ (backup' # <<>> => Timeline(backup[1])')
  BY <1>1 DEF InvocationInv, Timeline
<1>8. /\ Passing(pass)' /\ pass'.runs \subseteq {j \in Invocations : age'[j] = "overdue"}
      /\ age' \in [Invocations -> Ages] /\ calls' \in [Invocations -> CallRecords]
  BY <1>1 DEF InvocationInv, Passing
<1> QED BY <1>4, <1>5, <1>6, <1>7, <1>8 DEF InvocationInv

-----------------------------------------------------------------------------
LEMMA InvocationInit == Calls!Init => InvocationInv
<1> SUFFICES ASSUME Calls!Init PROVE InvocationInv
  OBVIOUS
<1>1. /\ db = Calls!NoRows /\ backup = <<>> /\ holder = Free /\ pass = Calls!Idle
      /\ age = [i \in Invocations |-> "new"] /\ calls = [i \in Invocations |-> Calls!Resting]
  BY DEF Calls!Init
<1>2. /\ db \in Rows /\ db.log = <<>> /\ db.made = {} /\ db.token = [i \in Invocations |-> 0]
  <2>1. <<>> \in Seq(Events) /\ [i \in Invocations |-> 0] \in [Invocations -> Nat]
    OBVIOUS
  <2> QED BY <1>1, <2>1 DEF Calls!NoRows, Rows
<1>3. DOMAIN db.log = {}
  BY <1>2
<1>4. Timeline(db)
  BY <1>2, <1>3 DEF Timeline, LastIn, SameEpochIn
<1>5. PICK r \in CallRecords : r = Calls!Resting /\ r.step = "idle" /\ r.answer = "none"
  <2>1. Calls!Resting \in CallRecords /\ Calls!Resting.step = "idle" /\ Calls!Resting.answer = "none"
    BY DEF Calls!Resting, CallRecords, Calls!Kinds
  <2> QED BY <2>1
<1>6. calls \in [Invocations -> CallRecords] /\ \A i \in Invocations : calls[i] = r
  BY <1>1, <1>5
<1>7. \A i \in Invocations : Serves(i)
  BY <1>1, <1>2, <1>5, <1>6 DEF Serves, Calls!At
<1>8. \A i \in Invocations : Holds(i)
  BY <1>1, InvocationConstants DEF Holds
<1>9. Calls!AnswerRecorded
  BY <1>5, <1>6 DEF Calls!AnswerRecorded
<1>10. backup \in Seq(Rows) /\ Len(backup) <= 1 /\ backup = <<>>
  BY <1>1
<1>11. Passing(pass) /\ pass.runs = {} /\ age \in [Invocations -> Ages]
  BY <1>1 DEF Passing, Calls!Idle, Ages
<1> QED BY <1>4, <1>6, <1>7, <1>8, <1>9, <1>10, <1>11 DEF InvocationInv

LEMMA InvocationNext == InvocationInv /\ [Calls!Next]_(Calls!vars) => InvocationInv'
<1> SUFFICES ASSUME InvocationInv, [Calls!Next]_(Calls!vars) PROVE InvocationInv'
  OBVIOUS
<1>1. CASE UNCHANGED Calls!vars
  <2>1. UNCHANGED <<db, backup, holder, age, calls, pass>>
    BY <1>1 DEF Calls!vars
  <2>2. \A j \in Invocations : Holds(j)'
    BY <2>1 DEF InvocationInv, Holds
  <2> QED BY <2>1, <2>2, PassOverdue, RowsStay
<1>2. CASE \E i \in Invocations, answered \in BOOLEAN : Calls!Create(i, answered)
  BY <1>2, CallsCreate
<1>3. CASE \E i \in Invocations : Calls!Bind(i) \/ Calls!Callback(i)
  BY <1>3, CallsBind, CallsCallback
<1>4. CASE \E i \in Invocations : Calls!Finish(i) \/ Calls!FinishFails(i)
  BY <1>4, CallsFinish, CallsFinishFails
<1>5. CASE \E i \in Invocations : Calls!Expire(i) \/ Calls!Overdue(i)
  BY <1>5, CallsAge
<1>6. CASE \E i \in Invocations, kind \in Calls!Kinds : Calls!Return(i, kind)
  BY <1>6, CallsReturn
<1>7. CASE Calls!Busy \/ Calls!Leave
  BY <1>7, CallsLock
<1>8. CASE Calls!Begin \/ Calls!EndPass \/ Calls!CutPass
  BY <1>8, CallsPass
<1>9. CASE Calls!Reconcile
  BY <1>9, CallsReconcile
<1>10. CASE Calls!Crash \/ Calls!Backup \/ Calls!Restore \/ Calls!Open
  BY <1>10, CallsCrash, CallsBackup, CallsRestore, CallsOpen
<1> QED BY <1>1, <1>2, <1>3, <1>4, <1>5, <1>6, <1>7, <1>8, <1>9, <1>10 DEF Calls!Next

LEMMA InvocationConcludes == InvocationInv => LogConcludes
<1> SUFFICES ASSUME InvocationInv PROVE LogConcludes
  OBVIOUS
<1>1. LastIn(db.log) /\ SameEpochIn(db.log)
  BY DEF InvocationInv, Timeline
<1>2. Calls!LastWord
  BY <1>1 DEF Calls!LastWord, LastIn
<1>3. Calls!NoOldAuthority
  BY <1>1 DEF Calls!NoOldAuthority, SameEpochIn
<1> QED BY <1>2, <1>3 DEF InvocationInv, LogConcludes, Calls!LogConcludes

(* However the requests, the callbacks, reconciliation, crashes and        *)
(* restores interleave, what the log says of an invocation can be relied   *)
(* on: one terminal event, the last of its events, with what the caller    *)
(* was told, and no callback by authority of a timeline that was lost.     *)
THEOREM WordIsLast == Calls!Spec => []LogConcludes
<1>1. InvocationInv /\ [Calls!Next]_(Calls!vars) => InvocationInv'
  BY InvocationNext
<1> QED BY <1>1, InvocationInit, InvocationConcludes, PTL DEF Calls!Spec
=============================================================================
