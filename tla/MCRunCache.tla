----------------------------- MODULE MCRunCache -----------------------------
(***************************************************************************)
(* Finite instances of RunCache, and of TalkDigest.  The two share no      *)
(* state: a behaviour is one of the first or one of the second.  Inode     *)
(* numbers are numbers, so that a freed one can be given out again.        *)
(***************************************************************************)
EXTENDS RunCache

CONSTANTS Processes, Nobody, Claims, Summaries, MaxLeases, MaxDeploys, MaxDeaths

VARIABLES
  part,   \* the module whose behaviour this is
  prepared, source, delivery, receipt, files_, active, invoked, claims, proofs, locks, procs, deaths

digestVars == <<prepared, source, delivery, receipt, files_, active, invoked, claims, proofs,
                locks, procs, deaths>>
Digest == INSTANCE TalkDigest WITH files <- files_, lock <- locks, proc <- procs
ASSUME DigestGiven == Digest!DigestAssumption

MCInit == part \in {"cache", "digest"} /\ Init /\ Digest!Init

Cached(A) == part = "cache" /\ A /\ UNCHANGED digestVars /\ UNCHANGED part
MCNext == Cached(Next) \/ (part = "digest" /\ Digest!Next /\ UNCHANGED vars /\ UNCHANGED part)

MCVars == <<part, vars, digestVars>>
(* The fairness of RunCache, for its behaviours. *)
MCFairness ==
  \A c \in Commands : /\ WF_MCVars(Cached(Begin(c))) /\ WF_MCVars(Cached(Walk(c)))
                      /\ SF_MCVars(Cached(Look(c, TRUE)))
MCSpec == MCInit /\ [][MCNext]_MCVars /\ MCFairness

(* TalkDigest: a completion that stopped can be finished by repeating it,  *)
(* and a proof is of the result that was committed.                        *)
Completed == Digest!Completed
=============================================================================
