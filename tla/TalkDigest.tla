----------------------------- MODULE TalkDigest -----------------------------
(***************************************************************************)
(* The talk-digest example (examples/talk-digest): a consumer whose        *)
(* commands may die or lose an answer at any call and are simply repeated. *)
(* A collector stores a transcript and hands one source over; analysts     *)
(* claim its Message, complete it in one transaction of SQL and ack, and   *)
(* write a proof; a Function of theirs reads the result.                   *)
(*                                                                         *)
(* The server is what modules Transactions, DeliveryLedger and Blobs       *)
(* promise: a transaction is all or nothing, its receipt answers a repeat, *)
(* a lease excludes, a file's key is taken once.  Every claim file is of   *)
(* one Principal and has its own Run, lock and proof.  Nobody edits a      *)
(* claim file; the summary given may differ from one run to the next.      *)
(***************************************************************************)
EXTENDS Naturals, FiniteSets

CONSTANTS
  Processes, Nobody,
  Claims,      \* claim files: sessions with a Run each
  Summaries,
  MaxLeases,   \* bound: grants of the Message
  MaxDeploys,  \* bound: deployments
  MaxDeaths    \* bound: processes that die

None == "none"
\* Assumed of the constants, by the module that gives them values.
DigestAssumption ==
  /\ Nobody \notin Processes /\ None \notin Claims \cup Summaries
  /\ {MaxLeases, MaxDeploys, MaxDeaths} \subseteq Nat

VARIABLES
  prepared,  \* the collector's manifest, and whether the transcript is stored
  source,    \* the row of talk_sources joined with talk_digests
  delivery,  \* its Message: receipts granted, the claim that holds the last
  receipt,   \* transaction_receipts at the digest key: what was submitted
  files,     \* the page and the proof: each key once
  active,    \* the active deployment; deployments made
  invoked,   \* the deployment in the invocation file
  claims, proofs,   \* private files
  lock,      \* [Claims -> [claim, proof]]: the process whose directory it is
  proc, deaths

vars == <<prepared, source, delivery, receipt, files, active, invoked, claims, proofs, lock, proc, deaths>>
server == <<prepared, source, delivery, receipt, files, active, invoked>>
disk == <<claims, proofs>>

Content == [claim : Claims, summary : Summaries]
NoContent == [claim |-> None, summary |-> None]
NoClaim == [receipt |-> 0, evidence |-> FALSE]
NoBody == [receipt |-> 0, content |-> NoContent]
Keys == {"page", "proof"}
NoProof == [of |-> NoContent, file |-> NoContent, function |-> 0, invocation |-> 0]
Idle == [step |-> "idle"]
Ended == [step |-> "dead"]

-----------------------------------------------------------------------------
(* The collector *)

Stored == prepared.file
Ready == prepared.manifest = "whole"
Torn == prepared.manifest = "torn"

(* The key of a stored transcript is taken: a repeat names the file.  The  *)
(* manifest is not written at once; a torn one refuses every command.      *)
Prepare ==
  /\ prepared.manifest = "absent"
  /\ \/ ~Stored /\ prepared' = [prepared EXCEPT !.file = TRUE]
     \/ Stored /\ \E m \in {"whole", "torn"} : prepared' = [prepared EXCEPT !.manifest = m]
  /\ UNCHANGED <<source, delivery, receipt, files, active, invoked, disk, lock, proc, deaths>>

Discard ==
  /\ Torn /\ prepared' = [prepared EXCEPT !.manifest = "absent"]
  /\ UNCHANGED <<source, delivery, receipt, files, active, invoked, disk, lock, proc, deaths>>

(* Row and Message in one transaction; a repeat is answered by its receipt.*)
Handoff ==
  /\ Ready /\ source.state = "absent"
  /\ source' = [state |-> "pending", digest |-> NoContent]
  /\ delivery' = [delivery EXCEPT !.state = "ready"]
  /\ UNCHANGED <<prepared, receipt, files, active, invoked, disk, lock, proc, deaths>>

-----------------------------------------------------------------------------
(* withPrivateLock *)

Verbs == {"claim", "renew", "complete", "deploy", "publish"}
(* Mutant: renew does without the lock of the claim. *)
RenewFree(cmd) ==
  IF cmd = "complete" THEN {"claim", "proof"} ELSE
  IF cmd = "claim" THEN {"claim"} ELSE IF cmd = "renew" THEN {} ELSE {"proof"}
Locks(cmd) ==
  IF cmd = "complete" THEN {"claim", "proof"} ELSE
  IF cmd \in {"claim", "renew"} THEN {"claim"} ELSE {"proof"}

Taken(p, c, names) == lock' = [lock EXCEPT ![c] = [n \in DOMAIN @ |-> IF n \in names THEN p ELSE @[n]]]
Freed(p) == lock' = [c \in Claims |-> [n \in DOMAIN lock[c] |-> IF lock[c][n] = p THEN Nobody ELSE lock[c][n]]]

(* A lock that is held refuses the command: nothing happened.  complete    *)
(* takes the claim's first and may die before it has the other.            *)
Begin(p, cmd, c, s) ==
  /\ proc[p] = Idle /\ \A n \in Locks(cmd) : lock[c][n] = Nobody
  /\ \E held \in {Locks(cmd), Locks(cmd) \cap {"claim"}} :
       /\ Taken(p, c, held)
       /\ proc' = [proc EXCEPT ![p] = IF held # Locks(cmd) THEN Ended ELSE
                     [step |-> cmd, c |-> c, s |-> s, state |-> claims[c], proof |-> proofs[c],
                      completed |-> FALSE, got |-> 0]]
       /\ IF held # Locks(cmd) THEN deaths < MaxDeaths /\ deaths' = deaths + 1 ELSE UNCHANGED deaths
  /\ UNCHANGED <<server, disk>>

At(p, step) == proc[p].step = step
My(p) == proc[p]
Mine(p) == [claim |-> My(p).c, summary |-> My(p).s]
Go(p, step) == proc' = [proc EXCEPT ![p].step = step]
Done(p) == proc' = [proc EXCEPT ![p] = Idle] /\ Freed(p)

(* A refusal, a failed call, a lost answer: the finally releases the lock. *)
Fail(p) ==
  /\ proc[p] \notin {Idle, Ended}
  /\ Done(p)
  /\ UNCHANGED <<server, disk, deaths>>
Die(p) ==
  /\ proc[p] \notin {Idle, Ended} /\ deaths < MaxDeaths
  /\ proc' = [proc EXCEPT ![p] = Ended] /\ deaths' = deaths + 1
  /\ UNCHANGED <<server, disk, lock>>

(* By hand, once the command is known to have stopped. *)
Unlock(p) ==
  /\ proc[p] = Ended /\ Done(p)
  /\ UNCHANGED <<server, disk, deaths>>

-----------------------------------------------------------------------------
(* claim, renew *)

Holds(st) == delivery.state = "leased" /\ delivery.granted = st.receipt

Claim(p) ==
  /\ At(p, "claim") /\ delivery.state = "ready" /\ delivery.granted < MaxLeases
  /\ delivery' = [state |-> "leased", granted |-> delivery.granted + 1]
  /\ proc' = [proc EXCEPT ![p].step = "keep", ![p].got = delivery.granted + 1]
  /\ UNCHANGED <<prepared, source, receipt, files, active, invoked, disk, lock, deaths>>

(* The file is created: an existing one is not replaced. *)
Keep(p) ==
  /\ At(p, "keep") /\ claims[My(p).c] = NoClaim
  /\ claims' = [claims EXCEPT ![My(p).c] = [NoClaim EXCEPT !.receipt = My(p).got]]
  /\ Done(p)
  /\ UNCHANGED <<server, proofs, deaths>>

Expire ==
  /\ delivery.state = "leased" /\ delivery' = [delivery EXCEPT !.state = "ready"]
  /\ UNCHANGED <<prepared, source, receipt, files, active, invoked, disk, lock, proc, deaths>>

(* liveReceipt, of renew and of complete: what was read is written back    *)
(* with the new expiry, unless there is time left.                         *)
LiveReceipt(p) ==
  /\ \/ At(p, "renew") /\ Go(p, "write")
     \/ At(p, "pending") /\ (Go(p, "rewrite") \/ Go(p, "trial"))
  /\ Holds(My(p).state)
  /\ UNCHANGED <<server, disk, lock, deaths>>

WriteBack(p) ==
  /\ \/ At(p, "write") /\ Done(p)
     \/ At(p, "rewrite") /\ Go(p, "trial") /\ UNCHANGED lock
  /\ claims' = [claims EXCEPT ![My(p).c] = My(p).state]
  /\ UNCHANGED <<server, proofs, deaths>>

-----------------------------------------------------------------------------
(* complete *)

(* The row is this claim's result; anything else than that or pending is a *)
(* mismatch and stops the command.                                         *)
IsLeased == delivery.state = "leased"
Matches(p) == source = [state |-> "complete", digest |-> Mine(p)]

Decide(p) ==
  /\ At(p, "complete") /\ My(p).state # NoClaim
  /\ \/ source.state = "pending" /\ Go(p, "pending") /\ UNCHANGED lock
     \/ /\ Matches(p) /\ My(p).proof = NoProof
        /\ proc' = [proc EXCEPT ![p].step = "evidence", ![p].completed = TRUE] /\ UNCHANGED lock
     \/ Matches(p) /\ My(p).proof # NoProof /\ Done(p)
  /\ UNCHANGED <<server, disk, deaths>>

(* The wrong expectRows fails in every state and undoes its update; after  *)
(* it the row is pending and the Delivery leased, to whomever.             *)
Trial(p) ==
  /\ At(p, "trial") /\ source.state = "pending" /\ IsLeased
  /\ proc' = [proc EXCEPT ![p].step = "save", ![p].state.evidence = TRUE]
  /\ UNCHANGED <<server, disk, lock, deaths>>

(* Mutant: the evidence is only written with the proof. *)
SaveLater(p) == claims
SaveEvidence(p) == [claims EXCEPT ![My(p).c] = My(p).state]
Save(p) ==
  /\ At(p, "save") /\ claims' = SaveEvidence(p) /\ Go(p, "evidence")
  /\ UNCHANGED <<server, proofs, lock, deaths>>

Evidence(p) ==
  /\ At(p, "evidence") /\ My(p).state.evidence
  /\ Go(p, "commit")
  /\ UNCHANGED <<server, disk, lock, deaths>>

(* Update, insert and ack; a recorded body is answered, another refused. *)
Body(p) == [receipt |-> My(p).state.receipt, content |-> Mine(p)]
Commit(p) ==
  /\ At(p, "commit")
  /\ \/ receipt = Body(p) /\ UNCHANGED <<source, delivery, receipt>>
     \/ /\ receipt = NoBody /\ source.state = "pending" /\ Holds(My(p).state)
        /\ source' = [state |-> "complete", digest |-> Mine(p)]
        /\ delivery' = [delivery EXCEPT !.state = "succeeded"]
        /\ receipt' = Body(p)
  /\ Go(p, "check")
  /\ UNCHANGED <<prepared, files, active, invoked, disk, lock, deaths>>

(* Mutant: the page is left to the next run. *)
Unpublished(p) == "prove"
AfterCheck(p) == "page"
Check(p) ==
  /\ At(p, "check") /\ Matches(p) /\ Go(p, AfterCheck(p))
  /\ UNCHANGED <<server, disk, lock, deaths>>

Recovered(p) == My(p).completed /\ files["page"] = Mine(p)
(* A repetition looks for the page among the uploads of its Run (and may   *)
(* fail to read it); a key that is taken refuses.                          *)
Page(p) ==
  /\ At(p, "page")
  /\ \/ Recovered(p) /\ UNCHANGED files
     \/ files["page"] = NoContent /\ files' = [files EXCEPT !["page"] = Mine(p)]
  /\ Go(p, "prove")
  /\ UNCHANGED <<prepared, source, delivery, receipt, active, invoked, disk, lock, deaths>>

Prove(p) ==
  /\ At(p, "prove") /\ proofs[My(p).c] = NoProof
  /\ proofs' = [proofs EXCEPT ![My(p).c] = [NoProof EXCEPT !.of = Mine(p), !.file = files["page"]]]
  /\ Done(p)
  /\ UNCHANGED <<server, claims, deaths>>

-----------------------------------------------------------------------------
(* deploy, publish, and the invocation by the collector *)

(* The user names the deployment that is active. *)
Deploy(p) ==
  /\ At(p, "deploy") /\ My(p).proof # NoProof /\ active < MaxDeploys
  /\ active' = active + 1
  /\ proc' = [proc EXCEPT ![p].step = "record", ![p].proof.function = active']
  /\ UNCHANGED <<prepared, source, delivery, receipt, files, invoked, disk, lock, deaths>>

Invoke ==
  /\ active # 0 /\ source.state = "complete" /\ invoked' = active
  /\ UNCHANGED <<prepared, source, delivery, receipt, files, active, disk, lock, proc, deaths>>

Publish(p) ==
  /\ At(p, "publish") /\ My(p).proof # NoProof
  /\ invoked # 0 /\ invoked = My(p).proof.function
  /\ proc' = [proc EXCEPT ![p].step = "record", ![p].proof.invocation = invoked]
  /\ UNCHANGED <<server, disk, lock, deaths>>

Record(p) ==
  /\ At(p, "record")
  /\ proofs' = [proofs EXCEPT ![My(p).c] = My(p).proof]
  /\ IF My(p).proof.invocation = 0 THEN Done(p) ELSE Go(p, "upload") /\ UNCHANGED lock
  /\ UNCHANGED <<server, claims, deaths>>

Upload(p) ==
  /\ At(p, "upload") /\ files["proof"] = NoContent
  /\ files' = [files EXCEPT !["proof"] = My(p).proof.of]
  /\ Done(p)
  /\ UNCHANGED <<prepared, source, delivery, receipt, active, invoked, disk, deaths>>

-----------------------------------------------------------------------------
Init ==
  /\ prepared = [file |-> FALSE, manifest |-> "absent"]
  /\ source = [state |-> "absent", digest |-> NoContent]
  /\ delivery = [state |-> "absent", granted |-> 0] /\ receipt = NoBody
  /\ files = [k \in Keys |-> NoContent] /\ active = 0 /\ invoked = 0
  /\ claims = [c \in Claims |-> NoClaim] /\ proofs = [c \in Claims |-> NoProof]
  /\ lock = [c \in Claims |-> [claim |-> Nobody, proof |-> Nobody]]
  /\ proc = [p \in Processes |-> Idle] /\ deaths = 0

Next ==
  \/ Prepare \/ Discard \/ Handoff \/ Expire \/ Invoke
  \/ \E p \in Processes :
       \/ \E cmd \in Verbs, c \in Claims, s \in Summaries : Begin(p, cmd, c, s)
       \/ Fail(p) \/ Die(p) \/ Unlock(p)
       \/ Claim(p) \/ Keep(p) \/ LiveReceipt(p) \/ WriteBack(p)
       \/ Decide(p) \/ Trial(p) \/ Save(p) \/ Evidence(p) \/ Commit(p) \/ Check(p) \/ Page(p) \/ Prove(p)
       \/ Deploy(p) \/ Publish(p) \/ Record(p) \/ Upload(p)

Spec == Init /\ [][Next]_vars

-----------------------------------------------------------------------------
(* Properties *)

(* Whatever a completion that stopped after its commit needs to be         *)
(* finished by the same command is there, whoever else worked on the       *)
(* claim: the evidence of the rollback, the body that was submitted, and   *)
(* no other page at its key (analyst.ts:295, README "If completion stopped *)
(* before the proof was written, repeat the same command").                *)
Finishable ==
  source.state = "complete" =>
    LET d == source.digest
    IN  /\ claims[d.claim].evidence
        /\ receipt = [receipt |-> claims[d.claim].receipt, content |-> d]
        /\ files["page"] \in {NoContent, d}

(* A proof is of the result that was committed, its page is stored, and    *)
(* the Delivery was acknowledged with it.                                  *)
ProofTrue ==
  \A c \in Claims : proofs[c] # NoProof =>
    /\ proofs[c].of = source.digest /\ source.digest.claim = c
    /\ proofs[c].file = source.digest /\ files["page"] = source.digest
    /\ delivery.state = "succeeded"

(* What a completion has begun is true at each step, and can be finished.  *)
Completed == Finishable /\ ProofTrue
=============================================================================
