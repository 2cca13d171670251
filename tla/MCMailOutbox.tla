---------------------------- MODULE MCMailOutbox ----------------------------
(* A small instance of MailOutbox for TLC. *)
EXTENDS MailOutbox

CONSTANTS w1, w2, c1

\* Two executions run under one worker_id, as one MailWorker running two batches.
OneName == [w \in Workers |-> "mail-worker"]
OwnDigest == [x \in Contents |-> x]
=============================================================================
