----------------------------- MODULE MCSyncJob -----------------------------
(* Small instances of SyncJob for TLC. *)
EXTENDS SyncJob

CONSTANTS w1, w2, j1, m1

\* Two executions run under one worker_id, as one MailWorker running two batches.
OneName == [w \in Workers |-> "mail-worker"]

VARIABLE steady  \* TRUE in the behaviours of LiveSpec, FALSE in those of Spec

jobsVars == <<steady, vars>>

JobsInit == Init /\ steady \in BOOLEAN

SteadyPart == steady /\ SteadyNext /\ UNCHANGED steady
UnsteadyPart == ~steady /\ Next /\ UNCHANGED steady

JobsNext == SteadyPart \/ UnsteadyPart

JobsSpec ==
  /\ JobsInit /\ [][JobsNext]_jobsVars
  /\ \A w \in Workers : WF_vars(steady /\ SyncProgress(w))

\* ClaimingSpec.
ClaimsSpec == JobsInit /\ ~steady /\ [][JobsNext]_jobsVars /\ Claiming

\* Where no execution dies, a cancellation that is accepted while the execution of the job
\* is at work is answered by it (CancelIsAnswered of run_sync_job).
CancelIsAnsweredWhenSteady == steady => CancelIsAnswered
=============================================================================
