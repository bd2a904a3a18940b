------------------------------ MODULE SendRetry ------------------------------
(***************************************************************************)
(* A producer beside the ledger: it sends a message, may lose the answer,  *)
(* and sends it again under the same idempotency key and body while        *)
(* consumers and Users go on working (POST .../queues/:queue/messages).    *)
(***************************************************************************)
EXTENDS DeliveryLedger

VARIABLE answer    \* the last answer to a repeated send of each message

Answers == {"none", "original", "idempotency_conflict", "delivery_conflict"}

(* sendMessageIn for a known key: queue.send_message finds the message, or *)
(* refuses another body; queue.ensure_delivery then refuses a message that *)
(* has an effect, and the refusal undoes and answers the whole request.    *)
AnswerTo(m, h) ==
  IF messages[m].hash # h THEN "idempotency_conflict"
  ELSE IF effects[m].key # NoKey THEN "delivery_conflict"
  ELSE "original"

Resend(r, m, h) ==
  /\ Context(r)
  /\ Sent(m)
  /\ answer' = [answer EXCEPT ![m] = AnswerTo(m, h)]
  /\ deliveries' = IF AnswerTo(m, h) = "original" /\ ~HasRow(m)
                   THEN [deliveries EXCEPT ![m] = <<NewRow(messages[m].pid, 1, 1)>>]
                   ELSE deliveries
  /\ UNCHANGED <<messages, copies, effects, reconciled, status, gate, restores>>

RetryInit == Init /\ answer = [m \in Messages |-> "none"]
RetryNext ==
  \/ Next /\ UNCHANGED answer
  \/ \E r \in Runs, m \in Messages, h \in Payloads : Resend(r, m, h)
RetrySpec == RetryInit /\ [][RetryNext]_<<vars, answer>>

(* A send that is repeated with the same key and body is answered with the *)
(* original message whoever repeats it and whatever became of the message: *)
(* send-message.test.ts repeats a send from another Principal and expects  *)
(* status 200 and the message of the first answer, and the skill file      *)
(* tells agents to reuse the original key and body when retrying.          *)
ResendAnsweredWithOriginal ==
  [][\A r \in Runs, m \in Messages :
       Resend(r, m, messages[m].hash) => answer'[m] = "original"]_<<vars, answer>>
=============================================================================
