------------------------------ MODULE SyncJob ------------------------------
(***************************************************************************)
(* Mailbox synchronisation: durable sync jobs (MailService.run_sync_job,   *)
(* cancel_sync_job, the repository's claim, cancel and complete calls),    *)
(* the synchronisation they run (_sync_connection) and the direct calls of *)
(* sync_connection that have no job, over one folder of one connection:    *)
(* its cursor and its stored message projections.                          *)
(*                                                                         *)
(* Every await of a handler that touches shared state is a step. The       *)
(* provider's feed is the sequence of changes a cursor is a position of.   *)
(***************************************************************************)
EXTENDS Integers, Sequences, FiniteSets

CONSTANTS
  Jobs,           \* sync jobs of the connection
  Backfills,      \* those enqueued with mode "backfill"
  Workers,        \* concurrent executions of run_sync_job or sync_connection
  WorkerId,       \* worker_id under which an execution runs
  NoOne,          \* lease_owner = None
  NoJob,          \* the job of a direct sync_connection
  Messages,       \* messages of the mailbox
  RollsBack,      \* a claim that ends in an exception leaves no trace (PostgreSQL)
  TimelyWorkers,  \* a lease outlives the work done under it, crashes apart
  MaxAttempts,    \* _SYNC_RETRY_MAX_ATTEMPTS (5 in the code)
  PageLimit,      \* requested_limit of a sync
  MaxFence        \* bound: claims of one job

ASSUME JobAssumption == NoJob \notin Jobs /\ Backfills \subseteq Jobs
ASSUME WorkerIdAssumption == NoOne \notin {WorkerId[w] : w \in Workers}
ASSUME SwitchAssumption == RollsBack \in BOOLEAN /\ TimelyWorkers \in BOOLEAN
ASSUME BoundAssumption ==
  MaxAttempts \in Nat \ {0} /\ PageLimit \in Nat \ {0} /\ MaxFence \in Nat

VARIABLES
  job,     \* the sync_jobs table
  cursor,  \* cursor_value of the folder, as a position of the feed
  feed,    \* what happened in the mailbox at the provider
  stored,  \* message projections of the connection
  sync,    \* local state of each execution
  overlapped \* history: did an execution begin a page while another worked on one?

vars == <<job, cursor, feed, stored, sync, overlapped>>

-----------------------------------------------------------------------------
FinalStatus == {"succeeded", "failed", "cancelled"}
HeldStatus == {"running", "cancelling"}
JobStatus == {"none", "queued", "retry_wait"} \cup HeldStatus \cup FinalStatus

\* transition_sync_job
Successors ==
  [s \in JobStatus |->
     CASE s = "queued" -> {"running", "cancelled"}
       [] s = "running" -> {"queued", "retry_wait", "cancelling"} \cup FinalStatus
       [] s = "retry_wait" -> {"queued", "cancelled"}
       [] s = "cancelling" -> {"cancelled"}
       [] OTHER -> {}]

Owners == {WorkerId[w] : w \in Workers} \cup {NoOne}
Change == [kind : {"added", "removed"}, msg : Messages]

JobRecord == [status : JobStatus, owner : Owners, fence : 0 .. MaxFence,
              expired : BOOLEAN, attempts : Nat, after : Nat]

NewJob == [status |-> "none", owner |-> NoOne, fence |-> 0, expired |-> FALSE,
           attempts |-> 0, after |-> 0]

Checks == {"check_start", "check_work"}
OnPage == {"fetch", "check_work", "work"}
Syncing == Checks \cup {"read_cursor"} \cup OnPage
SyncPc == {"idle", "synced", "completing", "cancelled", "failed", "closing"} \cup Syncing

SyncRecord == [pc : SyncPc, job : Jobs \cup {NoJob}, token : 0 .. MaxFence,
               tries : Nat, from : Nat, upto : Nat,
               adds : SUBSET Messages, removes : SUBSET Messages,
               retryable : BOOLEAN, target : FinalStatus \cup {"retry_wait"}]

IdleSync == [pc |-> "idle", job |-> NoJob, token |-> 0, tries |-> 0, from |-> 0,
             upto |-> 0, adds |-> {}, removes |-> {}, retryable |-> FALSE,
             target |-> "failed"]

TypeOK ==
  /\ job \in [Jobs -> JobRecord]
  /\ cursor \in Nat
  /\ feed \in Seq(Change)
  /\ stored \in SUBSET Messages
  /\ sync \in [Workers -> SyncRecord]
  /\ overlapped \in BOOLEAN

Init ==
  /\ job = [j \in Jobs |-> NewJob]
  /\ cursor = 0
  /\ feed = <<>>
  /\ stored = {}
  /\ sync = [w \in Workers |-> IdleSync]
  /\ overlapped = FALSE

-----------------------------------------------------------------------------
(* The mailbox.                                                            *)

Happened(kind, m) == \E i \in DOMAIN feed : feed[i] = [kind |-> kind, msg |-> m]
Present == {m \in Messages : Happened("added", m) /\ ~Happened("removed", m)}

\* A message arrives, or is deleted by the owner; a provider id is not used twice.
MailboxChanges(m) ==
  /\ \/ /\ ~Happened("added", m)
        /\ feed' = Append(feed, [kind |-> "added", msg |-> m])
     \/ /\ m \in Present
        /\ feed' = Append(feed, [kind |-> "removed", msg |-> m])
  /\ UNCHANGED <<job, cursor, stored, sync, overlapped>>

Changed(kind, from, upto) ==
  {m \in Messages : \E i \in from + 1 .. upto : feed[i] = [kind |-> kind, msg |-> m]}

PageEnd(from) == IF Len(feed) - from > PageLimit THEN from + PageLimit ELSE Len(feed)

-----------------------------------------------------------------------------
(* Jobs: the API and the clock.                                            *)

EnqueueSyncJob(j) ==
  /\ job[j].status = "none"
  /\ job' = [job EXCEPT ![j].status = "queued"]
  /\ UNCHANGED <<cursor, feed, stored, sync, overlapped>>

\* A running job keeps its lease until its worker, or its expiry, ends it.
CancelSyncJob(j) ==
  /\ job[j].status \in {"queued", "retry_wait", "running"}
  /\ job' = [job EXCEPT ![j].status =
               IF @ = "running" THEN "cancelling" ELSE "cancelled"]
  /\ UNCHANGED <<cursor, feed, stored, sync, overlapped>>

Busy(j) ==
  \E w \in Workers : sync[w].pc # "idle" /\ sync[w].job = j /\ sync[w].token = job[j].fence

LeaseExpires(j) ==
  /\ job[j].status \in HeldStatus /\ ~job[j].expired
  /\ TimelyWorkers => ~Busy(j)
  /\ job' = [job EXCEPT ![j].expired = TRUE]
  /\ UNCHANGED <<cursor, feed, stored, sync, overlapped>>

\* claim_sync_job on a cancelling job whose lease has expired: the job is
\* cancelled and the claim is refused. The refusal is an exception, with
\* which the PostgreSQL repository's transaction is rolled back.
FinalizeExpiredCancel(j) ==
  /\ job[j].status = "cancelling" /\ job[j].expired
  /\ ~RollsBack
  /\ job' = [job EXCEPT ![j].status = "cancelled", ![j].owner = NoOne,
                        ![j].expired = FALSE]
  /\ UNCHANGED <<cursor, feed, stored, sync, overlapped>>

-----------------------------------------------------------------------------
(* Executions.                                                             *)

\* A running job whose lease has expired is requeued by the claim itself; a
\* job in retry_wait may be due at any time.
Claimable(j) ==
  \/ job[j].status \in {"queued", "retry_wait"}
  \/ job[j].status = "running" /\ job[j].expired

ClaimSyncJob(w, j) ==
  /\ sync[w].pc = "idle"
  /\ Claimable(j)
  /\ job[j].fence < MaxFence
  /\ job' = [job EXCEPT ![j].status = "running", ![j].owner = WorkerId[w],
                        ![j].fence = @ + 1, ![j].expired = FALSE]
  /\ sync' = [sync EXCEPT ![w] =
       [IdleSync EXCEPT !.pc = "check_start", !.job = j, !.token = job[j].fence + 1,
                        !.tries = job[j].attempts]]
  /\ UNCHANGED <<cursor, feed, stored, overlapped>>

\* sync_connection called by the API or by an autonomy run: no job, no
\* cancellation check.
StartDirectSync(w) ==
  /\ sync[w].pc = "idle"
  /\ sync' = [sync EXCEPT ![w] = [IdleSync EXCEPT !.pc = "read_cursor"]]
  /\ UNCHANGED <<job, cursor, feed, stored, overlapped>>

\* cancellation_requested reads the job's status, whoever holds it by now.
CancelRequested(w) == sync[w].job # NoJob /\ job[sync[w].job].status = "cancelling"

AfterCheck(w) == IF sync[w].pc = "check_start" THEN "read_cursor" ELSE "work"

\* Asked before the provider is called, after it answered, before every
\* message and every deletion, and before the cursor is committed.
CheckCancelled(w) ==
  /\ sync[w].pc \in Checks
  /\ sync' = [sync EXCEPT ![w].pc = IF CancelRequested(w) THEN "cancelled" ELSE AfterCheck(w)]
  /\ UNCHANGED <<job, cursor, feed, stored, overlapped>>

ReadCursor(w) ==
  /\ sync[w].pc = "read_cursor"
  /\ sync' = [sync EXCEPT ![w].pc = "fetch",
                          ![w].from = IF sync[w].job \in Backfills THEN 0 ELSE cursor]
  /\ overlapped' = (overlapped \/ \E v \in Workers \ {w} : sync[v].pc \in OnPage)
  /\ UNCHANGED <<job, cursor, feed, stored>>

\* The provider answers: the next page of the feed, or, to a backfill, some of
\* the messages in the mailbox (its filters and limit choose which).
FetchPage(w) ==
  /\ sync[w].pc = "fetch"
  /\ LET from == sync[w].from
         upto == PageEnd(from)
     IN IF sync[w].job \in Backfills
        THEN \E found \in SUBSET Present :
               /\ Cardinality(found) <= PageLimit
               /\ sync' = [sync EXCEPT ![w].pc = "check_work", ![w].adds = found]
        ELSE sync' = [sync EXCEPT ![w].pc = "check_work", ![w].upto = upto,
                                  ![w].adds = Changed("added", from, upto),
                                  ![w].removes = Changed("removed", from, upto)]
  /\ UNCHANGED <<job, cursor, feed, stored, overlapped>>

SaveMessage(w, m) ==
  /\ sync[w].pc = "work" /\ m \in sync[w].adds
  /\ stored' = stored \cup {m}
  /\ sync' = [sync EXCEPT ![w].pc = "check_work", ![w].adds = @ \ {m}]
  /\ UNCHANGED <<job, cursor, feed, overlapped>>

\* Mutation of DeleteMessage: messages and deletions in any order.
DeleteMessageFirst(w, m) ==
  /\ sync[w].pc = "work" /\ m \in sync[w].removes
  /\ stored' = stored \ {m}
  /\ sync' = [sync EXCEPT ![w].pc = "check_work", ![w].removes = @ \ {m}]
  /\ UNCHANGED <<job, cursor, feed, overlapped>>

\* Deletions follow the messages of the page.
DeleteMessage(w, m) ==
  /\ sync[w].pc = "work" /\ sync[w].adds = {} /\ m \in sync[w].removes
  /\ stored' = stored \ {m}
  /\ sync' = [sync EXCEPT ![w].pc = "check_work", ![w].removes = @ \ {m}]
  /\ UNCHANGED <<job, cursor, feed, overlapped>>

\* Mutation of PageApplied: the cursor is committed before the page is applied.
PageFetched(w) == sync[w].pc = "work"

PageApplied(w) ==
  sync[w].pc = "work" /\ sync[w].adds = {} /\ sync[w].removes = {}

\* commit_cursor compares and sets; a conflict is an error that is not retried.
CommitCursor(w) ==
  /\ PageApplied(w) /\ sync[w].job \notin Backfills
  /\ IF cursor = sync[w].from
     THEN /\ cursor' = sync[w].upto
          /\ sync' = [sync EXCEPT ![w].pc = "synced"]
     ELSE /\ sync' = [sync EXCEPT ![w].pc = "failed", ![w].retryable = FALSE]
          /\ UNCHANGED cursor
  /\ UNCHANGED <<job, feed, stored, overlapped>>

\* A backfill leaves the cursor alone.
FinishBackfill(w) ==
  /\ PageApplied(w) /\ sync[w].job \in Backfills
  /\ sync' = [sync EXCEPT ![w].pc = "synced"]
  /\ UNCHANGED <<job, cursor, feed, stored, overlapped>>

\* The quota (before the first check) or the provider refuses for now; any
\* other error of a port or the repository ends the job.
SyncFails(w) ==
  /\ sync[w].pc \in Syncing \cup {"synced"}
  /\ \E transient \in IF sync[w].pc \in {"check_start", "fetch"} THEN BOOLEAN ELSE {FALSE} :
       sync' = [sync EXCEPT ![w].pc = "failed", ![w].retryable = transient]
  /\ UNCHANGED <<job, cursor, feed, stored, overlapped>>

\* sync_connection returns or raises to a caller that has no job.
DirectSyncEnds(w) ==
  /\ sync[w].job = NoJob /\ sync[w].pc \in {"synced", "failed"}
  /\ sync' = [sync EXCEPT ![w] = IdleSync]
  /\ UNCHANGED <<job, cursor, feed, stored, overlapped>>

-----------------------------------------------------------------------------
(* The end of run_sync_job.                                                *)

\* The page is applied: what is the job to become? Read before it is written.
ReadOutcome(w) ==
  /\ sync[w].pc = "synced" /\ sync[w].job # NoJob
  /\ sync' = [sync EXCEPT ![w].pc = "completing",
                          ![w].target = IF CancelRequested(w) THEN "cancelled" ELSE "succeeded"]
  /\ UNCHANGED <<job, cursor, feed, stored, overlapped>>

Owned(w) ==
  job[sync[w].job].owner = WorkerId[w] /\ job[sync[w].job].fence = sync[w].token

\* Mutation of MayComplete: the transition is not validated.
MayCompleteAnything(w) == Owned(w)

MayComplete(w) ==
  Owned(w) /\ sync[w].target \in Successors[job[sync[w].job].status]

\* complete_sync_job; only a cancellation noticed on the way is not an attempt.
CompletedJob(w, after, attempts) ==
  [job EXCEPT ![sync[w].job] =
     [@ EXCEPT !.status = sync[w].target, !.owner = NoOne, !.expired = FALSE,
               !.after = after, !.attempts = attempts]]

\* A refused completion is an error like any other, handled below.
CompleteSyncJob(w) ==
  /\ sync[w].pc = "completing"
  /\ IF MayComplete(w)
     THEN /\ job' = CompletedJob(w, sync[w].upto, job[sync[w].job].attempts + 1)
          /\ sync' = [sync EXCEPT ![w] = IdleSync]
     ELSE /\ sync' = [sync EXCEPT ![w].pc = "failed", ![w].retryable = FALSE]
          /\ UNCHANGED job
  /\ UNCHANGED <<cursor, feed, stored, overlapped>>

\* except SyncCancelledError
HandleCancelled(w) ==
  /\ sync[w].pc = "cancelled"
  /\ sync' = IF job[sync[w].job].status = "cancelled"
             THEN [sync EXCEPT ![w] = IdleSync]
             ELSE [sync EXCEPT ![w].pc = "closing", ![w].target = "cancelled"]
  /\ UNCHANGED <<job, cursor, feed, stored, overlapped>>

RetryAllowed(w) == sync[w].retryable /\ sync[w].tries + 1 < MaxAttempts

\* Mutation of HandleFailure: a failure is decided on without a look at the job.
HandleFailureBlindly(w) ==
  /\ sync[w].pc = "failed" /\ sync[w].job # NoJob
  /\ sync' = [sync EXCEPT ![w].pc = "closing",
                 ![w].target = IF RetryAllowed(w) THEN "retry_wait" ELSE "failed"]
  /\ UNCHANGED <<job, cursor, feed, stored, overlapped>>

\* except Exception
HandleFailure(w) ==
  /\ sync[w].pc = "failed" /\ sync[w].job # NoJob
  /\ sync' =
       IF job[sync[w].job].status = "cancelled"
       THEN [sync EXCEPT ![w] = IdleSync]
       ELSE [sync EXCEPT ![w].pc = "closing",
               ![w].target = IF CancelRequested(w) THEN "cancelled"
                             ELSE IF RetryAllowed(w) THEN "retry_wait" ELSE "failed"]
  /\ UNCHANGED <<job, cursor, feed, stored, overlapped>>

\* complete_sync_job in a handler: a refusal reaches the caller of the worker.
CloseSyncJob(w) ==
  /\ sync[w].pc = "closing"
  /\ job' = IF ~MayComplete(w) THEN job
            ELSE CompletedJob(w, 0, job[sync[w].job].attempts
                                      + (IF sync[w].target = "cancelled" THEN 0 ELSE 1))
  /\ sync' = [sync EXCEPT ![w] = IdleSync]
  /\ UNCHANGED <<cursor, feed, stored, overlapped>>

Crash(w) ==
  /\ sync[w].pc # "idle"
  /\ sync' = [sync EXCEPT ![w] = IdleSync]
  /\ UNCHANGED <<job, cursor, feed, stored, overlapped>>

-----------------------------------------------------------------------------
SyncProgress(w) ==
  \/ CheckCancelled(w) \/ ReadCursor(w) \/ FetchPage(w)
  \/ \E m \in Messages : SaveMessage(w, m) \/ DeleteMessage(w, m)
  \/ CommitCursor(w) \/ FinishBackfill(w) \/ SyncFails(w) \/ DirectSyncEnds(w)
  \/ ReadOutcome(w) \/ CompleteSyncJob(w)
  \/ HandleCancelled(w) \/ HandleFailure(w) \/ CloseSyncJob(w)

SyncStep(w) ==
  \/ SyncProgress(w) \/ StartDirectSync(w) \/ Crash(w)
  \/ \E j \in Jobs : ClaimSyncJob(w, j)

JobStep(j) ==
  EnqueueSyncJob(j) \/ CancelSyncJob(j) \/ LeaseExpires(j) \/ FinalizeExpiredCancel(j)

Next ==
  \/ \E w \in Workers : SyncStep(w)
  \/ \E j \in Jobs : JobStep(j)
  \/ \E m \in Messages : MailboxChanges(m)

Spec == Init /\ [][Next]_vars

\* No execution dies, and the repository answers it.
SteadyNext ==
  \/ \E w \in Workers : SyncProgress(w) \/ StartDirectSync(w)
  \/ \E w \in Workers, j \in Jobs : ClaimSyncJob(w, j)
  \/ \E j \in Jobs : JobStep(j)
  \/ \E m \in Messages : MailboxChanges(m)

\* What an execution awaits ends; nobody has to claim a job again.
LiveSpec == Init /\ [][SteadyNext]_vars /\ \A w \in Workers : WF_vars(SyncProgress(w))

\* The documents' own terms: leases run out, and somebody goes on claiming the jobs that are
\* not final. Nothing in the repository does; the more is refuted by what fails all the same.
Claiming ==
  /\ \A w \in Workers : WF_vars(SyncProgress(w))
  /\ \A j \in Jobs : WF_vars(LeaseExpires(j)) /\ WF_vars(FinalizeExpiredCancel(j))

ClaimingSpec == Spec /\ Claiming

-----------------------------------------------------------------------------
(* Properties.                                                             *)

\* Nothing behind the cursor is lost: what the committed cursor has passed was
\* saved, or is gone from the mailbox. Two executions may apply the same page,
\* die half way or lose the race for the cursor (commit_cursor comes last).
NothingSkipped ==
  \A i \in 1 .. cursor :
    feed[i].kind = "added" => feed[i].msg \in stored \/ Happened("removed", feed[i].msg)

\* The cursor never goes back to changes it has passed, however late the
\* execution that read it (the compare-and-set of commit_cursor).
CursorOnlyAdvances == [][cursor <= cursor']_cursor

\* A deletion the cursor has passed is not undone: no projection of a deleted
\* message comes back, as long as no two executions have worked on the folder at
\* once (delete_message_by_provider_ref releases the identity, so the save_message of
\* an execution that was overtaken recreates the message).
DeletionsStand ==
  ~overlapped => \A i \in 1 .. cursor : feed[i].kind = "removed" => feed[i].msg \notin stored

\* Of the executions of one job, at most one can still end it.
OneCompleter ==
  \A v, w \in Workers :
    /\ sync[v].pc # "idle" /\ sync[w].pc # "idle"
    /\ sync[v].job = sync[w].job /\ sync[v].job # NoJob
    /\ Owned(v) /\ Owned(w)
    => v = w

\* A job's outcome is given once, and a job whose cancellation was accepted
\* ends cancelled, whatever its worker still does (transition_sync_job).
OutcomeStands ==
  [][\A j \in Jobs :
       /\ job[j].status \in FinalStatus => job'[j] = job[j]
       /\ job[j].status = "cancelling" => job'[j].status \in {"cancelling", "cancelled"}]_job

\* A job that reports success has had its page committed: cursor_after is
\* behind the folder's cursor, and an incremental job has never only fetched.
SuccessIsCommitted ==
  \A j \in Jobs : job[j].status = "succeeded" => job[j].after <= cursor

\* Provider failures of one job are bounded by the retry budget, the current
\* and the terminal call included (run_sync_job).
RetryBudget ==
  \A j \in Jobs :
    /\ job[j].attempts <= MaxAttempts
    /\ job[j].status = "retry_wait" => job[j].attempts < MaxAttempts

\* The execution that holds a job and has not closed it yet, or is to close it as cancelled:
\* one that has read the job and decided otherwise is refused, and leaves it as it is.
WillCancel(w, j) ==
  /\ sync[w].pc # "idle" /\ sync[w].job = j /\ Owned(w)
  /\ sync[w].pc = "closing" => sync[w].target = "cancelled"

\* A cancellation that is accepted while the execution is at work is answered by it, from
\* wherever it is: before or after a check, about to succeed, failing, or past its lease.
CancelIsAnswered ==
  \A j \in Jobs :
    job[j].status = "cancelling" /\ (\E w \in Workers : WillCancel(w, j))
      ~> job[j].status = "cancelled"

\* An accepted cancellation is eventually final, with the worker or without it
\* (migration 0019: "an expired cancelling lease is finalized as cancelled").
CancelEnds == \A j \in Jobs : job[j].status = "cancelling" ~> job[j].status = "cancelled"

=============================================================================
