--------------------------- MODULE SyncJobProofs ---------------------------
(***************************************************************************)
(* Proofs about SyncJob, for every set of jobs, workers and messages, any  *)
(* assignment of worker ids, and over both repositories: what the cursor   *)
(* says of the stored messages, who may end a job, and, for executions     *)
(* that did not overlap, that what was deleted stays deleted.              *)
(***************************************************************************)
EXTENDS SyncJob, TLAPS

-----------------------------------------------------------------------------
(* Types.                                                                  *)

LEMMA Constants ==
  /\ NoJob \notin Jobs /\ Backfills \subseteq Jobs
  /\ MaxAttempts \in Nat \ {0} /\ PageLimit \in Nat \ {0} /\ MaxFence \in Nat
  /\ RollsBack \in BOOLEAN /\ TimelyWorkers \in BOOLEAN
BY JobAssumption, BoundAssumption, SwitchAssumption

\* The states a handler and a job pass through.
LEMMA States ==
  /\ "idle" \in SyncPc /\ "check_start" \in SyncPc /\ "read_cursor" \in SyncPc
  /\ "fetch" \in SyncPc /\ "check_work" \in SyncPc /\ "work" \in SyncPc
  /\ "synced" \in SyncPc /\ "completing" \in SyncPc /\ "cancelled" \in SyncPc
  /\ "failed" \in SyncPc /\ "closing" \in SyncPc
  /\ {"queued", "running", "cancelling", "cancelled", "none"} \subseteq JobStatus
  /\ {"succeeded", "cancelled", "failed"} \subseteq FinalStatus
  /\ FinalStatus \cup {"retry_wait"} \subseteq JobStatus
  /\ NoOne \in Owners /\ \A w \in Workers : WorkerId[w] \in Owners
BY DEF SyncPc, Syncing, OnPage, Checks, JobStatus, HeldStatus, FinalStatus, Owners

\* An execution record rewritten with typed fields.
LEMMA SyncTyped ==
  ASSUME TypeOK, NEW w \in Workers, NEW r \in SyncRecord,
         sync' = [sync EXCEPT ![w] = r]
  PROVE  sync' \in [Workers -> SyncRecord]
BY DEF TypeOK

LEMMA PcTyped ==
  ASSUME TypeOK, NEW w \in Workers, NEW p \in SyncPc, sync' = [sync EXCEPT ![w].pc = p]
  PROVE  sync' \in [Workers -> SyncRecord]
<1>1. sync[w] \in SyncRecord
  BY DEF TypeOK
<1>2. [sync[w] EXCEPT !.pc = p] \in SyncRecord
  BY <1>1 DEF SyncRecord
<1>3. sync' = [sync EXCEPT ![w] = [sync[w] EXCEPT !.pc = p]]
  BY DEF TypeOK
<1>. QED  BY <1>2, <1>3, SyncTyped

LEMMA TargetTyped ==
  ASSUME TypeOK, NEW w \in Workers, NEW p \in SyncPc,
         NEW t \in FinalStatus \cup {"retry_wait"},
         sync' = [sync EXCEPT ![w].pc = p, ![w].target = t]
  PROVE  sync' \in [Workers -> SyncRecord]
<1>1. sync[w] \in SyncRecord
  BY DEF TypeOK
<1>2. [sync[w] EXCEPT !.pc = p, !.target = t] \in SyncRecord
  BY <1>1 DEF SyncRecord
<1>3. sync' = [sync EXCEPT ![w] = [sync[w] EXCEPT !.pc = p, !.target = t]]
  BY DEF TypeOK
<1>. QED  BY <1>2, <1>3, SyncTyped

LEMMA FailureTyped ==
  ASSUME TypeOK, NEW w \in Workers, NEW b \in BOOLEAN,
         sync' = [sync EXCEPT ![w].pc = "failed", ![w].retryable = b]
  PROVE  sync' \in [Workers -> SyncRecord]
<1>1. sync[w] \in SyncRecord /\ "failed" \in SyncPc
  BY States DEF TypeOK
<1>2. [sync[w] EXCEPT !.pc = "failed", !.retryable = b] \in SyncRecord
  BY <1>1 DEF SyncRecord
<1>3. sync' = [sync EXCEPT ![w] = [sync[w] EXCEPT !.pc = "failed", !.retryable = b]]
  BY DEF TypeOK
<1>. QED  BY <1>2, <1>3, SyncTyped

LEMMA IdleTyped == IdleSync \in SyncRecord
BY Constants DEF IdleSync, SyncRecord, SyncPc, FinalStatus

LEMMA TypeInit == Init => TypeOK
<1>. SUFFICES ASSUME Init PROVE TypeOK OBVIOUS
<1>1. NewJob \in JobRecord BY Constants DEF NewJob, JobRecord, JobStatus, Owners
<1>2. job \in [Jobs -> JobRecord] BY <1>1 DEF Init
<1>3. sync \in [Workers -> SyncRecord] BY IdleTyped DEF Init
<1>4. feed \in Seq(Change) BY DEF Init
<1>5. cursor \in Nat /\ stored \in SUBSET Messages /\ overlapped \in BOOLEAN BY DEF Init
<1>. QED  BY <1>2, <1>3, <1>4, <1>5 DEF TypeOK

\* The fields of a well-typed table row and of a well-typed execution.
LEMMA Rows ==
  ASSUME TypeOK, NEW j \in Jobs
  PROVE  /\ job[j] \in JobRecord /\ job[j].status \in JobStatus
         /\ job[j].fence \in 0 .. MaxFence /\ job[j].attempts \in Nat
         /\ job[j].after \in Nat
BY DEF TypeOK, JobRecord

LEMMA Executions ==
  ASSUME TypeOK, NEW w \in Workers
  PROVE  /\ sync[w] \in SyncRecord /\ sync[w].pc \in SyncPc
         /\ sync[w].job \in Jobs \cup {NoJob} /\ sync[w].token \in 0 .. MaxFence
         /\ sync[w].tries \in Nat /\ sync[w].from \in Nat /\ sync[w].upto \in Nat
         /\ sync[w].adds \in SUBSET Messages /\ sync[w].removes \in SUBSET Messages
BY DEF TypeOK, SyncRecord

\* A row rewritten with typed fields.
LEMMA JobTyped ==
  ASSUME TypeOK, NEW j \in Jobs, NEW s \in JobStatus, NEW o \in Owners,
         NEW f \in 0 .. MaxFence, NEW e \in BOOLEAN, NEW n \in Nat, NEW a \in Nat,
         job' = [job EXCEPT ![j] = [@ EXCEPT !.status = s, !.owner = o, !.fence = f,
                                             !.expired = e, !.attempts = n, !.after = a]]
  PROVE  job' \in [Jobs -> JobRecord]
BY DEF TypeOK, JobRecord

LEMMA PageTyped ==
  ASSUME TypeOK, NEW w \in Workers
  PROVE  PageEnd(sync[w].from) \in Nat
<1>1. Len(feed) \in Nat /\ sync[w].from \in Nat
  BY Executions DEF TypeOK
<1>. QED  BY <1>1, Constants DEF PageEnd

LEMMA TypeNext == TypeOK /\ [Next]_vars => TypeOK'
<1>. SUFFICES ASSUME TypeOK, [Next]_vars PROVE TypeOK'
  OBVIOUS
<1>1. CASE UNCHANGED vars
  BY <1>1 DEF TypeOK, vars
<1>2. ASSUME NEW m \in Messages, MailboxChanges(m) PROVE TypeOK'
  <2>1. [kind |-> "added", msg |-> m] \in Change /\ [kind |-> "removed", msg |-> m] \in Change
    BY DEF Change
  <2>2. feed' \in Seq(Change)
    <3>1. feed \in Seq(Change)
      BY DEF TypeOK
    <3>2. PICK c \in Change : feed' = Append(feed, c)
      BY <1>2, <2>1 DEF MailboxChanges
    <3>. QED  BY <3>1, <3>2
  <2>. QED  BY <1>2, <2>2 DEF MailboxChanges, TypeOK
<1>3. ASSUME NEW j \in Jobs, JobStep(j) PROVE TypeOK'
  <2>1. job' \in [Jobs -> JobRecord]
    <3>1. CASE EnqueueSyncJob(j)
      BY <3>1, States DEF EnqueueSyncJob, TypeOK, JobRecord
    <3>2. CASE CancelSyncJob(j)
      <4>1. PICK s \in {"cancelling", "cancelled"} : job' = [job EXCEPT ![j].status = s]
        BY <3>2 DEF CancelSyncJob
      <4>2. [job[j] EXCEPT !.status = s] \in JobRecord
        BY Rows, States DEF JobRecord
      <4>. QED  BY <4>1, <4>2 DEF TypeOK
    <3>3. CASE LeaseExpires(j)
      BY <3>3 DEF LeaseExpires, TypeOK, JobRecord
    <3>4. CASE FinalizeExpiredCancel(j)
      <4>1. job' = [job EXCEPT ![j] = [job[j] EXCEPT !.status = "cancelled", !.owner = NoOne,
                                                     !.expired = FALSE]]
        BY <3>4 DEF FinalizeExpiredCancel, TypeOK
      <4>2. [job[j] EXCEPT !.status = "cancelled", !.owner = NoOne, !.expired = FALSE] \in JobRecord
        BY Rows, States DEF JobRecord, Owners
      <4>. QED  BY <4>1, <4>2 DEF TypeOK
    <3>. QED  BY <1>3, <3>1, <3>2, <3>3, <3>4 DEF JobStep
  <2>2. UNCHANGED <<cursor, feed, stored, sync, overlapped>>
    BY <1>3 DEF JobStep, EnqueueSyncJob, CancelSyncJob, LeaseExpires, FinalizeExpiredCancel
  <2>. QED  BY <2>1, <2>2 DEF TypeOK
<1>4. ASSUME NEW w \in Workers, SyncStep(w) PROVE TypeOK'
  <2>. USE Executions, Rows
  <2>1. ASSUME NEW j \in Jobs, ClaimSyncJob(w, j) PROVE TypeOK'
    <3>1. job[j].fence + 1 \in 0 .. MaxFence
      BY <2>1, Constants DEF ClaimSyncJob
    <3>2. job' \in [Jobs -> JobRecord]
      <4>1. [job[j] EXCEPT !.status = "running", !.owner = WorkerId[w],
                           !.fence = job[j].fence + 1, !.expired = FALSE] \in JobRecord
        BY <3>1, States DEF JobRecord
      <4>2. job' = [job EXCEPT ![j] =
              [job[j] EXCEPT !.status = "running", !.owner = WorkerId[w],
                             !.fence = job[j].fence + 1, !.expired = FALSE]]
        BY <2>1 DEF ClaimSyncJob, TypeOK
      <4>. QED  BY <4>1, <4>2 DEF TypeOK
    <3>3. sync' \in [Workers -> SyncRecord]
      BY <2>1, <3>1, IdleTyped, States DEF ClaimSyncJob, TypeOK, SyncRecord
    <3>. QED  BY <2>1, <3>2, <3>3 DEF ClaimSyncJob, TypeOK
  <2>2. CASE StartDirectSync(w)
    BY <2>2, IdleTyped, States DEF StartDirectSync, TypeOK, SyncRecord
  <2>3. CASE Crash(w)
    BY <2>3, IdleTyped DEF Crash, TypeOK
  <2>4. CASE CheckCancelled(w)
    <3>1. PICK p \in SyncPc : sync' = [sync EXCEPT ![w].pc = p]
      BY <2>4, States DEF CheckCancelled, AfterCheck
    <3>. QED  BY <2>4, <3>1, PcTyped DEF CheckCancelled, TypeOK
  <2>5. CASE ReadCursor(w)
    <3>1. PICK f \in Nat : sync' = [sync EXCEPT ![w].pc = "fetch", ![w].from = f]
      BY <2>5 DEF ReadCursor, TypeOK
    <3>2. [sync[w] EXCEPT !.pc = "fetch", !.from = f] \in SyncRecord
      BY States DEF SyncRecord
    <3>3. sync' = [sync EXCEPT ![w] = [sync[w] EXCEPT !.pc = "fetch", !.from = f]]
      BY <3>1 DEF TypeOK
    <3>. QED  BY <2>5, <3>2, <3>3, SyncTyped DEF ReadCursor, TypeOK
  <2>6. CASE FetchPage(w)
    <3>1. Present \in SUBSET Messages
      BY DEF Present
    <3>2. \A k, a, b : Changed(k, a, b) \in SUBSET Messages
      BY DEF Changed
    <3>3. CASE sync[w].job \in Backfills
      <4>1. PICK found \in SUBSET Messages :
              sync' = [sync EXCEPT ![w].pc = "check_work", ![w].adds = found]
        BY <2>6, <3>1, <3>3 DEF FetchPage
      <4>2. [sync[w] EXCEPT !.pc = "check_work", !.adds = found] \in SyncRecord
        BY States DEF SyncRecord
      <4>3. sync' = [sync EXCEPT ![w] = [sync[w] EXCEPT !.pc = "check_work", !.adds = found]]
        BY <4>1 DEF TypeOK
      <4>. QED  BY <2>6, <4>2, <4>3, SyncTyped DEF FetchPage, TypeOK
    <3>4. CASE sync[w].job \notin Backfills
      <4>1. PICK u \in Nat, a \in SUBSET Messages, r \in SUBSET Messages :
              sync' = [sync EXCEPT ![w].pc = "check_work", ![w].upto = u,
                                   ![w].adds = a, ![w].removes = r]
        BY <2>6, <3>2, <3>4, PageTyped DEF FetchPage
      <4> DEFINE read == [sync[w] EXCEPT !.pc = "check_work", !.upto = u, !.adds = a,
                                         !.removes = r]
      <4>2. read \in SyncRecord
        BY States DEF SyncRecord
      <4>3. sync' = [sync EXCEPT ![w] = read]
        BY <4>1 DEF TypeOK
      <4>. QED  BY <2>6, <4>2, <4>3, SyncTyped DEF FetchPage, TypeOK
    <3>. QED  BY <3>3, <3>4
  <2>7. ASSUME NEW m \in Messages, SaveMessage(w, m) PROVE TypeOK'
    BY <2>7, States DEF SaveMessage, TypeOK, SyncRecord
  <2>8. ASSUME NEW m \in Messages, DeleteMessage(w, m) PROVE TypeOK'
    <3>1. [sync[w] EXCEPT !.pc = "check_work", !.removes = sync[w].removes \ {m}] \in SyncRecord
      BY States DEF SyncRecord
    <3>2. sync' = [sync EXCEPT ![w] =
            [sync[w] EXCEPT !.pc = "check_work", !.removes = sync[w].removes \ {m}]]
      BY <2>8 DEF DeleteMessage, TypeOK
    <3>3. sync' \in [Workers -> SyncRecord]
      BY <3>1, <3>2, SyncTyped
    <3>. QED  BY <2>8, <3>3 DEF DeleteMessage, TypeOK
  <2>9. CASE CommitCursor(w)
    <3>1. CASE cursor = sync[w].from
      BY <2>9, <3>1, PcTyped, States DEF CommitCursor, TypeOK
    <3>2. CASE cursor # sync[w].from
      BY <2>9, <3>2, FailureTyped DEF CommitCursor, TypeOK
    <3>. QED  BY <3>1, <3>2
  <2>10. CASE FinishBackfill(w)
    BY <2>10, PcTyped, States DEF FinishBackfill, TypeOK
  <2>11. CASE SyncFails(w)
    <3>1. PICK b \in BOOLEAN : sync' = [sync EXCEPT ![w].pc = "failed", ![w].retryable = b]
      BY <2>11 DEF SyncFails
    <3>. QED  BY <2>11, <3>1, FailureTyped DEF SyncFails, TypeOK
  <2>12. CASE DirectSyncEnds(w)
    BY <2>12, IdleTyped DEF DirectSyncEnds, TypeOK
  <2>13. CASE ReadOutcome(w)
    <3>1. PICK t \in FinalStatus \cup {"retry_wait"} :
            sync' = [sync EXCEPT ![w].pc = "completing", ![w].target = t]
      BY <2>13, States DEF ReadOutcome
    <3>. QED  BY <2>13, <3>1, States, TargetTyped DEF ReadOutcome, TypeOK
  <2>14. CASE HandleCancelled(w)
    <3>1. sync' \in [Workers -> SyncRecord]
      <4>1. CASE sync' = [sync EXCEPT ![w] = IdleSync]
        BY <4>1, IdleTyped, SyncTyped
      <4>2. CASE sync' = [sync EXCEPT ![w].pc = "closing", ![w].target = "cancelled"]
        BY <4>2, States, TargetTyped
      <4>. QED  BY <2>14, <4>1, <4>2 DEF HandleCancelled
    <3>. QED  BY <2>14, <3>1 DEF HandleCancelled, TypeOK
  <2>15. CASE HandleFailure(w)
    <3>1. sync' \in [Workers -> SyncRecord]
      <4>1. CASE sync' = [sync EXCEPT ![w] = IdleSync]
        BY <4>1, IdleTyped, SyncTyped
      <4>2. ASSUME NEW t \in FinalStatus \cup {"retry_wait"},
                   sync' = [sync EXCEPT ![w].pc = "closing", ![w].target = t]
            PROVE  sync' \in [Workers -> SyncRecord]
        BY <4>2, States, TargetTyped
      <4>. QED  BY <2>15, <4>1, <4>2, States DEF HandleFailure
    <3>. QED  BY <2>15, <3>1 DEF HandleFailure, TypeOK
  <2>16. CASE CompleteSyncJob(w) \/ CloseSyncJob(w)
    <3>1. sync' \in [Workers -> SyncRecord]
      <4>1. CASE sync' = [sync EXCEPT ![w] = IdleSync]
        BY <4>1, IdleTyped, SyncTyped
      <4>2. CASE sync' = [sync EXCEPT ![w].pc = "failed", ![w].retryable = FALSE]
        BY <4>2, FailureTyped
      <4>. QED  BY <2>16, <4>1, <4>2 DEF CompleteSyncJob, CloseSyncJob
    <3>2. job' \in [Jobs -> JobRecord]
      <4>1. CASE job' = job
        BY <4>1 DEF TypeOK
      <4>2. ASSUME NEW a \in Nat, NEW n \in Nat, job' = CompletedJob(w, a, n)
            PROVE  job' \in [Jobs -> JobRecord]
        <5>1. sync[w].target \in JobStatus /\ NoOne \in Owners
          BY DEF TypeOK, SyncRecord, JobStatus, Owners
        <5>2. ASSUME NEW j \in Jobs
              PROVE  [job[j] EXCEPT !.status = sync[w].target, !.owner = NoOne, !.expired = FALSE,
                                    !.after = a, !.attempts = n] \in JobRecord
          BY <5>1, Rows DEF JobRecord
        <5>. QED  BY <4>2, <5>2 DEF CompletedJob, TypeOK
      <4>3. CASE sync[w].job = NoJob
        <5>1. \A a, n : CompletedJob(w, a, n) = job
          BY <4>3, Constants DEF CompletedJob, TypeOK
        <5>. QED  BY <2>16, <5>1, <4>1 DEF CompleteSyncJob, CloseSyncJob
      <4>4. CASE sync[w].job \in Jobs
        <5>1. job[sync[w].job].attempts \in Nat
          BY <4>4
        <5>2. job[sync[w].job].attempts + 1 \in Nat /\ job[sync[w].job].attempts + 0 \in Nat
          BY <5>1
        <5>3. CASE CompleteSyncJob(w)
          BY <5>2, <5>3, <4>1, <4>2 DEF CompleteSyncJob
        <5>4. CASE CloseSyncJob(w)
          BY <5>2, <5>4, <4>1, <4>2 DEF CloseSyncJob
        <5>. QED  BY <2>16, <5>3, <5>4
      <4>. QED  BY <4>3, <4>4
    <3>. QED  BY <2>16, <3>1, <3>2 DEF CompleteSyncJob, CloseSyncJob, TypeOK
  <2>. QED  BY <1>4, <2>1, <2>2, <2>3, <2>4, <2>5, <2>6, <2>7, <2>8, <2>9, <2>10, <2>11,
               <2>12, <2>13, <2>14, <2>15, <2>16 DEF SyncStep, SyncProgress
<1>. QED  BY <1>1, <1>2, <1>3, <1>4 DEF Next

\* Rows, cursor, feed, projections and execution records keep their types
\* (the columns of sync_jobs and the local variables of run_sync_job).
THEOREM TypeCorrect == Spec => []TypeOK
BY TypeInit, TypeNext, PTL DEF Spec

-----------------------------------------------------------------------------
(* The cursor and the projections.                                         *)

\* What a page covers is already stored, gone from the mailbox, or still to
\* be saved by the execution that fetched it.
PageCovered(w) ==
  /\ sync[w].from <= sync[w].upto
  /\ \A i \in sync[w].from + 1 .. sync[w].upto :
       feed[i].kind = "added" =>
         feed[i].msg \in sync[w].adds \cup stored \/ Happened("removed", feed[i].msg)

ExecutionInv(w) ==
  /\ sync[w].from <= cursor
  /\ sync[w].upto <= Len(feed)
  /\ \A m \in sync[w].removes : Happened("removed", m)
  /\ sync[w].job \in Backfills => sync[w].upto = 0
  /\ sync[w].pc \in {"check_work", "work"} /\ sync[w].job \notin Backfills => PageCovered(w)
  /\ sync[w].pc \in {"synced", "completing"} => sync[w].upto <= cursor

CursorInv ==
  /\ TypeOK
  /\ cursor <= Len(feed)
  /\ NothingSkipped
  /\ SuccessIsCommitted
  /\ \A w \in Workers : ExecutionInv(w)

\* What every step does to the feed and what no step takes from the store.
FeedGrows ==
  /\ Len(feed) <= Len(feed')
  /\ \A i \in 1 .. Len(feed) : feed'[i] = feed[i]
StoreKept == \A m \in stored : m \in stored' \/ Happened("removed", m)'

LEMMA HappenedStays ==
  ASSUME TypeOK, TypeOK', FeedGrows, NEW k, NEW m, Happened(k, m)
  PROVE  Happened(k, m)'
BY DEF FeedGrows, Happened, TypeOK

LEMMA CoverStays ==
  ASSUME TypeOK, TypeOK', FeedGrows, StoreKept, NEW i \in 1 .. Len(feed),
         feed[i].msg \in stored \/ Happened("removed", feed[i].msg)
  PROVE  feed'[i].msg \in stored' \/ Happened("removed", feed[i].msg)'
<1>1. feed'[i] = feed[i]
  BY DEF FeedGrows
<1>2. CASE Happened("removed", feed[i].msg)
  <2>1. PICK k \in DOMAIN feed : feed[k] = [kind |-> "removed", msg |-> feed[i].msg]
    BY <1>2 DEF Happened
  <2>2. k \in DOMAIN feed' /\ feed'[k] = feed[k]
    <3>1. /\ DOMAIN feed = 1 .. Len(feed) /\ DOMAIN feed' = 1 .. Len(feed')
          /\ Len(feed) \in Nat /\ Len(feed') \in Nat
      BY DEF TypeOK
    <3>. QED  BY <2>1, <3>1 DEF FeedGrows
  <2>. QED  BY <1>1, <2>1, <2>2 DEF Happened
<1>3. CASE feed[i].msg \in stored
  <2>1. \/ feed[i].msg \in stored'
        \/ \E k \in DOMAIN feed' : feed'[k] = [kind |-> "removed", msg |-> feed[i].msg]
    BY <1>3 DEF StoreKept, Happened
  <2>. QED  BY <1>1, <2>1 DEF Happened
<1>. QED  BY <1>2, <1>3

\* An execution that does not move keeps its invariant while others work.
LEMMA Bystander ==
  ASSUME CursorInv, TypeOK', FeedGrows, StoreKept, cursor <= cursor',
         NEW w \in Workers, sync'[w] = sync[w]
  PROVE  ExecutionInv(w)'
<1>. USE DEF CursorInv
<1>1. ExecutionInv(w) /\ sync[w].from \in Nat /\ sync[w].upto \in Nat
  BY Executions
<1>2. cursor \in Nat /\ cursor' \in Nat /\ Len(feed) \in Nat /\ Len(feed') \in Nat
  BY DEF TypeOK
<1>3. sync'[w].from <= cursor' /\ sync'[w].upto <= Len(feed')
  BY <1>1, <1>2 DEF ExecutionInv, FeedGrows
<1>4. \A m \in sync'[w].removes : Happened("removed", m)'
  BY <1>1, HappenedStays DEF ExecutionInv
<1>5. sync'[w].pc \in {"synced", "completing"} => sync'[w].upto <= cursor'
  BY <1>1, <1>2 DEF ExecutionInv
<1>6. ASSUME PageCovered(w) PROVE PageCovered(w)'
  <2>1. ASSUME NEW i \in sync[w].from + 1 .. sync[w].upto, feed'[i].kind = "added"
        PROVE  feed'[i].msg \in sync[w].adds \cup stored' \/ Happened("removed", feed[i].msg)'
    <3>1. i \in 1 .. Len(feed)
      BY <1>1, <1>2 DEF ExecutionInv
    <3>2. feed[i].kind = "added"
      BY <2>1, <3>1 DEF FeedGrows
    <3>3. feed'[i].msg = feed[i].msg
      BY <3>1 DEF FeedGrows
    <3>4. feed[i].msg \in sync[w].adds \/ feed[i].msg \in stored \/ Happened("removed", feed[i].msg)
      BY <1>6, <3>2 DEF PageCovered
    <3>. QED  BY <3>1, <3>3, <3>4, CoverStays
  <2>. QED  BY <1>6, <2>1 DEF PageCovered
<1>. QED  BY <1>1, <1>3, <1>4, <1>5, <1>6 DEF ExecutionInv

\* The invariant is kept by steps that leave the cursor and finished jobs alone.
LEMMA CursorStays ==
  ASSUME CursorInv, TypeOK', FeedGrows, StoreKept, cursor' = cursor,
         SuccessIsCommitted',
         \A w \in Workers : sync'[w] = sync[w] \/ ExecutionInv(w)'
  PROVE  CursorInv'
<1>. USE DEF CursorInv
<1>1. cursor \in Nat /\ Len(feed) \in Nat /\ Len(feed') \in Nat
  BY DEF TypeOK
<1>2. cursor' <= Len(feed')
  BY <1>1 DEF FeedGrows
<1>3. NothingSkipped'
  <2>1. ASSUME NEW i \in 1 .. cursor, feed'[i].kind = "added"
        PROVE  feed'[i].msg \in stored' \/ Happened("removed", feed[i].msg)'
    <3>1. i \in 1 .. Len(feed)
      BY <1>1
    <3>2. feed[i].kind = "added"
      BY <2>1, <3>1 DEF FeedGrows
    <3>3. feed[i].msg \in stored \/ Happened("removed", feed[i].msg)
      BY <3>2 DEF NothingSkipped
    <3>. QED  BY <3>1, <3>3, CoverStays
  <2>. QED  BY <2>1 DEF NothingSkipped
<1>4. \A w \in Workers : ExecutionInv(w)'
  BY <1>1, Bystander
<1>. QED  BY <1>2, <1>3, <1>4

LEMMA CursorInit == Init => CursorInv
<1>. SUFFICES ASSUME Init PROVE CursorInv
  OBVIOUS
<1>1. TypeOK
  BY TypeInit
<1>2. cursor = 0 /\ feed = <<>> /\ Len(feed) = 0
  BY DEF Init
<1>3. NothingSkipped /\ SuccessIsCommitted
  BY <1>2 DEF NothingSkipped, SuccessIsCommitted, Init, NewJob
<1>4. \A w \in Workers : ExecutionInv(w)
  BY <1>2 DEF ExecutionInv, Init, IdleSync
<1>. QED  BY <1>1, <1>2, <1>3, <1>4 DEF CursorInv

\* Idle executions satisfy their invariant trivially.
LEMMA IdleExecution ==
  ASSUME TypeOK', NEW w \in Workers, sync'[w] = IdleSync
  PROVE  ExecutionInv(w)'
<1>1. cursor' \in Nat /\ Len(feed') \in Nat
  BY DEF TypeOK
<1>. QED  BY <1>1 DEF ExecutionInv, IdleSync

\* So do those that only changed where they are, to a place that promises nothing.
LEMMA MovedOn ==
  ASSUME CursorInv, TypeOK', UNCHANGED <<cursor, feed, stored>>, NEW w \in Workers,
         sync'[w].from = sync[w].from, sync'[w].upto = sync[w].upto,
         sync'[w].adds = sync[w].adds, sync'[w].removes = sync[w].removes,
         sync'[w].job = sync[w].job,
         \/ sync'[w].pc \notin {"check_work", "work", "synced", "completing"}
         \/ sync[w].pc \in {"check_work", "work"} /\ sync'[w].pc \in {"check_work", "work"}
         \/ sync[w].pc \in {"synced", "completing"} /\ sync'[w].pc \in {"synced", "completing"}
  PROVE  ExecutionInv(w)'
<1>1. ExecutionInv(w)
  BY DEF CursorInv
<1>2. ASSUME NEW k, NEW m PROVE Happened(k, m)' <=> Happened(k, m)
  BY DEF Happened
<1>3. PageCovered(w) => PageCovered(w)'
  BY <1>2 DEF PageCovered
<1>. QED  BY <1>1, <1>2, <1>3 DEF ExecutionInv

LEMMA Fields ==
  ASSUME TypeOK, NEW w \in Workers
  PROVE  DOMAIN sync[w] = {"pc", "job", "token", "tries", "from", "upto", "adds", "removes",
                           "retryable", "target"}
<1>1. sync[w] \in SyncRecord
  BY DEF TypeOK
<1>. QED  BY <1>1 DEF SyncRecord

LEMMA Failed ==
  ASSUME CursorInv, TypeOK', UNCHANGED <<cursor, feed, stored>>, NEW w \in Workers, NEW b,
         sync' = [sync EXCEPT ![w].pc = "failed", ![w].retryable = b]
  PROVE  ExecutionInv(w)'
<1>1. sync'[w] = [sync[w] EXCEPT !.pc = "failed", !.retryable = b]
  BY DEF CursorInv, TypeOK
<1>2. /\ sync'[w].pc = "failed" /\ sync'[w].job = sync[w].job
      /\ sync'[w].from = sync[w].from /\ sync'[w].upto = sync[w].upto
      /\ sync'[w].adds = sync[w].adds /\ sync'[w].removes = sync[w].removes
  <2>1. DOMAIN sync[w] = {"pc", "job", "token", "tries", "from", "upto", "adds", "removes",
                          "retryable", "target"}
    BY Fields, SMTT(60) DEF CursorInv
  <2>. QED  BY <1>1, <2>1, ZenonT(60)
<1>3. sync'[w].pc \notin {"check_work", "work", "synced", "completing"}
  BY <1>2
<1>. QED  BY <1>2, <1>3, MovedOn

LEMMA Closing ==
  ASSUME CursorInv, TypeOK', UNCHANGED <<cursor, feed, stored>>, NEW w \in Workers, NEW t,
         sync' = [sync EXCEPT ![w].pc = "closing", ![w].target = t]
  PROVE  ExecutionInv(w)'
<1>1. sync'[w] = [sync[w] EXCEPT !.pc = "closing", !.target = t]
  BY DEF CursorInv, TypeOK
<1>2. /\ sync'[w].pc = "closing" /\ sync'[w].job = sync[w].job
      /\ sync'[w].from = sync[w].from /\ sync'[w].upto = sync[w].upto
      /\ sync'[w].adds = sync[w].adds /\ sync'[w].removes = sync[w].removes
  <2>1. DOMAIN sync[w] = {"pc", "job", "token", "tries", "from", "upto", "adds", "removes",
                          "retryable", "target"}
    BY Fields, SMTT(60) DEF CursorInv
  <2>. QED  BY <1>1, <2>1, ZenonT(60)
<1>3. sync'[w].pc \notin {"check_work", "work", "synced", "completing"}
  BY <1>2
<1>. QED  BY <1>2, <1>3, MovedOn

LEMMA CompletingFields ==
  ASSUME TypeOK, NEW w \in Workers, NEW t,
         sync' = [sync EXCEPT ![w].pc = "completing", ![w].target = t]
  PROVE  /\ sync'[w].pc = "completing" /\ sync'[w].job = sync[w].job
         /\ sync'[w].from = sync[w].from /\ sync'[w].upto = sync[w].upto
         /\ sync'[w].adds = sync[w].adds /\ sync'[w].removes = sync[w].removes
<1>1. sync'[w] = [sync[w] EXCEPT !.pc = "completing", !.target = t]
  BY DEF TypeOK
<1>2. DOMAIN sync[w] = {"pc", "job", "token", "tries", "from", "upto", "adds", "removes",
                        "retryable", "target"}
  BY Fields, SMTT(60)
<1>. QED  BY <1>1, <1>2, ZenonT(60)

LEMMA Completing ==
  ASSUME CursorInv, TypeOK', UNCHANGED <<cursor, feed, stored>>, NEW w \in Workers, NEW t,
         sync[w].pc = "synced",
         sync' = [sync EXCEPT ![w].pc = "completing", ![w].target = t]
  PROVE  ExecutionInv(w)'
<1>1. TypeOK
  BY DEF CursorInv
<1>2. sync'[w].pc = "completing"
  BY <1>1, CompletingFields
<1>3. /\ sync'[w].from = sync[w].from /\ sync'[w].upto = sync[w].upto
      /\ sync'[w].adds = sync[w].adds /\ sync'[w].removes = sync[w].removes
      /\ sync'[w].job = sync[w].job
  BY <1>1, CompletingFields
<1>4. sync[w].pc \in {"synced", "completing"} /\ sync'[w].pc \in {"synced", "completing"}
  BY <1>2
<1>. QED  BY <1>3, <1>4, MovedOn

\* A step that leaves the feed and the store alone.
LEMMA NothingMoves ==
  ASSUME TypeOK, UNCHANGED <<feed, stored>>
  PROVE  FeedGrows /\ StoreKept
BY DEF FeedGrows, StoreKept, TypeOK

\* A new result keeps the cursor's promise if it is a success of a committed page.
LEMMA OutcomeKept ==
  ASSUME CursorInv, TypeOK', cursor <= cursor',
         \A j \in Jobs : \/ job'[j].status # "succeeded"
                         \/ job'[j].status = job[j].status /\ job'[j].after = job[j].after
                         \/ job'[j].after <= cursor
  PROVE  SuccessIsCommitted'
<1>1. SUFFICES ASSUME NEW j \in Jobs, job'[j].status = "succeeded"
               PROVE  job'[j].after <= cursor'
  BY DEF SuccessIsCommitted
<1>2. cursor \in Nat /\ cursor' \in Nat /\ job[j].after \in Nat /\ job'[j].after \in Nat
  BY DEF CursorInv, TypeOK, JobRecord
<1>3. CASE job'[j].status = job[j].status /\ job'[j].after = job[j].after
  BY <1>1, <1>2, <1>3 DEF CursorInv, SuccessIsCommitted
<1>4. CASE job'[j].after <= cursor
  BY <1>2, <1>4
<1>. QED  BY <1>1, <1>3, <1>4

LEMMA MailboxKeeps ==
  ASSUME CursorInv, TypeOK', NEW m \in Messages, MailboxChanges(m)
  PROVE  CursorInv' /\ cursor <= cursor'
<1>. USE DEF CursorInv
<1>1. UNCHANGED <<job, cursor, stored, sync>> /\ cursor \in Nat
  BY DEF MailboxChanges, TypeOK
<1>2. PICK c \in Change : feed' = Append(feed, c)
  BY DEF MailboxChanges, Change
<1>3. FeedGrows
  BY <1>2 DEF FeedGrows, TypeOK
<1>4. StoreKept
  BY <1>1 DEF StoreKept
<1>5. SuccessIsCommitted'
  BY <1>1 DEF SuccessIsCommitted
<1>. QED  BY <1>1, <1>3, <1>4, <1>5, CursorStays

LEMMA JobStepKeeps ==
  ASSUME CursorInv, TypeOK', NEW j \in Jobs, JobStep(j)
  PROVE  CursorInv' /\ cursor <= cursor'
<1>. USE DEF CursorInv
<1>1. UNCHANGED <<cursor, feed, stored, sync>> /\ cursor \in Nat
  BY DEF JobStep, EnqueueSyncJob, CancelSyncJob, LeaseExpires, FinalizeExpiredCancel, TypeOK
<1>2. FeedGrows /\ StoreKept
  BY <1>1, NothingMoves
<1>3. \A i \in Jobs : job'[i].status # "succeeded"
                       \/ (job'[i].status = job[i].status /\ job'[i].after = job[i].after)
  <2>1. CASE EnqueueSyncJob(j)
    BY <2>1 DEF EnqueueSyncJob, TypeOK, JobRecord
  <2>2. CASE CancelSyncJob(j)
    BY <2>2 DEF CancelSyncJob, TypeOK, JobRecord
  <2>3. CASE LeaseExpires(j)
    BY <2>3 DEF LeaseExpires, TypeOK, JobRecord
  <2>4. CASE FinalizeExpiredCancel(j)
    BY <2>4 DEF FinalizeExpiredCancel, TypeOK, JobRecord
  <2>. QED  BY <2>1, <2>2, <2>3, <2>4 DEF JobStep
<1>4. SuccessIsCommitted'
  BY <1>1, <1>3, OutcomeKept
<1>. QED  BY <1>1, <1>2, <1>4, CursorStays

\* Steps of an execution that write neither the job's result, nor the store,
\* nor the cursor.
LEMMA QuietKeeps ==
  ASSUME CursorInv, TypeOK', NEW w \in Workers, UNCHANGED <<cursor, feed, stored>>,
         SuccessIsCommitted', ExecutionInv(w)',
         \A v \in Workers \ {w} : sync'[v] = sync[v]
  PROVE  CursorInv' /\ cursor <= cursor'
<1>1. FeedGrows /\ StoreKept /\ cursor \in Nat
  BY NothingMoves DEF CursorInv, TypeOK
<1>. QED  BY <1>1, CursorStays

LEMMA ClaimKeeps ==
  ASSUME CursorInv, TypeOK', NEW w \in Workers, NEW j \in Jobs, ClaimSyncJob(w, j)
  PROVE  CursorInv' /\ cursor <= cursor'
<1>. USE DEF CursorInv
<1>1. UNCHANGED <<cursor, feed, stored>> /\ cursor \in Nat
  BY DEF ClaimSyncJob, TypeOK
<1>2. \A i \in Jobs : job'[i].status # "succeeded" \/ job'[i] = job[i]
  BY DEF ClaimSyncJob, TypeOK, JobRecord
<1>3. SuccessIsCommitted'
  BY <1>1, <1>2, OutcomeKept
<1>4. sync'[w] = [IdleSync EXCEPT !.pc = "check_start", !.job = j, !.token = job[j].fence + 1,
                                  !.tries = job[j].attempts]
  BY DEF ClaimSyncJob, TypeOK
<1>5. ExecutionInv(w)'
  <2>1. Len(feed) \in Nat
    BY DEF TypeOK
  <2>. QED  BY <1>1, <1>4, <2>1 DEF ExecutionInv, IdleSync
<1>6. \A v \in Workers \ {w} : sync'[v] = sync[v]
  BY DEF ClaimSyncJob, TypeOK
<1>. QED  BY <1>1, <1>3, <1>5, <1>6, QuietKeeps

\* ReadCursor and FetchPage open a page.
LEMMA ReadCursorKeeps ==
  ASSUME CursorInv, TypeOK', NEW w \in Workers, ReadCursor(w)
  PROVE  ExecutionInv(w)'
<1>. USE DEF CursorInv
<1>1. ExecutionInv(w) /\ UNCHANGED <<cursor, feed, stored>>
  BY DEF ReadCursor
<1>2. cursor \in Nat /\ Len(feed) \in Nat
  BY DEF TypeOK
<1>3. /\ sync'[w].pc = "fetch" /\ sync'[w].from \in {0, cursor}
      /\ sync'[w].upto = sync[w].upto /\ sync'[w].removes = sync[w].removes
      /\ sync'[w].job = sync[w].job
  BY DEF ReadCursor, TypeOK, SyncRecord
<1>4. \A m : Happened("removed", m)' <=> Happened("removed", m)
  BY <1>1 DEF Happened
<1>. QED  BY <1>1, <1>2, <1>3, <1>4 DEF ExecutionInv

LEMMA FetchKeeps ==
  ASSUME CursorInv, TypeOK', NEW w \in Workers, FetchPage(w)
  PROVE  ExecutionInv(w)'
<1>. USE DEF CursorInv
<1>1. ExecutionInv(w) /\ UNCHANGED <<cursor, feed, stored>>
  BY DEF FetchPage
<1>2. /\ cursor \in Nat /\ Len(feed) \in Nat /\ sync[w].from \in Nat
      /\ sync[w].from <= cursor /\ cursor <= Len(feed)
  BY <1>1, Executions DEF TypeOK, ExecutionInv
<1>3. \A m : Happened("removed", m)' <=> Happened("removed", m)
  BY <1>1 DEF Happened
<1>4. CASE sync[w].job \in Backfills
  <2>1. /\ sync'[w].pc = "check_work" /\ sync'[w].from = sync[w].from
        /\ sync'[w].upto = sync[w].upto /\ sync'[w].removes = sync[w].removes
        /\ sync'[w].job = sync[w].job
    BY <1>4 DEF FetchPage, TypeOK, SyncRecord
  <2>. QED  BY <1>1, <1>2, <1>3, <1>4, <2>1 DEF ExecutionInv
<1>5. CASE sync[w].job \notin Backfills
  <2> DEFINE upto == PageEnd(sync[w].from)
  <2>1. /\ sync'[w].pc = "check_work" /\ sync'[w].from = sync[w].from
        /\ sync'[w].upto = upto /\ sync'[w].job = sync[w].job
        /\ sync'[w].adds = Changed("added", sync[w].from, upto)
        /\ sync'[w].removes = Changed("removed", sync[w].from, upto)
    BY <1>5 DEF FetchPage, TypeOK, SyncRecord
  <2>2. upto \in Nat /\ sync[w].from <= upto /\ upto <= Len(feed)
    BY <1>2, Constants DEF PageEnd
  <2>3. \A m \in Changed("removed", sync[w].from, upto) : Happened("removed", m)
    <3>1. \A i \in sync[w].from + 1 .. upto : i \in DOMAIN feed
      BY <1>2, <2>2 DEF TypeOK
    <3>. QED  BY <3>1 DEF Changed, Happened
  <2>4. ASSUME NEW i \in sync[w].from + 1 .. upto, feed[i].kind = "added"
        PROVE  feed[i].msg \in Changed("added", sync[w].from, upto)
    <3>1. i \in 1 .. Len(feed)
      BY <1>2, <2>2
    <3>2. feed[i] \in Change
      BY <3>1 DEF TypeOK
    <3>3. feed[i] = [kind |-> "added", msg |-> feed[i].msg] /\ feed[i].msg \in Messages
      BY <2>4, <3>2 DEF Change
    <3>. QED  BY <3>3 DEF Changed
  <2>5. PageCovered(w)'
    BY <1>1, <2>1, <2>2, <2>4 DEF PageCovered
  <2>. QED  BY <1>1, <1>2, <1>3, <1>5, <2>1, <2>2, <2>3, <2>5 DEF ExecutionInv
<1>. QED  BY <1>4, <1>5

\* SaveMessage and DeleteMessage apply it, one item at a time.
LEMMA ApplyKeeps ==
  ASSUME CursorInv, TypeOK', NEW w \in Workers, NEW m \in Messages,
         SaveMessage(w, m) \/ DeleteMessage(w, m)
  PROVE  CursorInv' /\ cursor <= cursor'
<1>. USE DEF CursorInv
<1>1. UNCHANGED <<job, cursor, feed>> /\ cursor \in Nat
  BY DEF SaveMessage, DeleteMessage, TypeOK
<1>2. FeedGrows
  BY <1>1 DEF FeedGrows, TypeOK
<1>3. ExecutionInv(w)
  OBVIOUS
<1>4. \A k, n : Happened(k, n)' <=> Happened(k, n)
  BY <1>1 DEF Happened
<1>5. StoreKept
  BY <1>3, <1>4 DEF SaveMessage, DeleteMessage, StoreKept, ExecutionInv
<1>6. SuccessIsCommitted'
  BY <1>1 DEF SuccessIsCommitted
<1>7. /\ sync[w].pc = "work" /\ sync'[w].pc = "check_work" /\ sync'[w].from = sync[w].from
      /\ sync'[w].upto = sync[w].upto /\ sync'[w].job = sync[w].job
      /\ sync'[w].removes \subseteq sync[w].removes
  <2>1. CASE SaveMessage(w, m)
    BY <2>1 DEF SaveMessage, TypeOK, SyncRecord
  <2>2. CASE DeleteMessage(w, m)
    BY <2>2 DEF DeleteMessage, TypeOK, SyncRecord
  <2>. QED  BY <2>1, <2>2
<1>8. CASE SaveMessage(w, m)
  <2>1. stored' = stored \cup {m} /\ sync'[w].adds = sync[w].adds \ {m}
    BY <1>8 DEF SaveMessage, TypeOK, SyncRecord
  <2>2. PageCovered(w) => PageCovered(w)'
    BY <1>1, <1>4, <1>7, <2>1 DEF PageCovered
  <2>3. ExecutionInv(w)'
    BY <1>1, <1>3, <1>4, <1>7, <2>2 DEF ExecutionInv
  <2>4. \A v \in Workers \ {w} : sync'[v] = sync[v]
    BY <1>8 DEF SaveMessage, TypeOK
  <2>. QED  BY <1>1, <1>2, <1>5, <1>6, <2>3, <2>4, CursorStays
<1>9. CASE DeleteMessage(w, m)
  <2>1. /\ stored' = stored \ {m} /\ sync'[w].adds = sync[w].adds
        /\ Happened("removed", m)
    BY <1>3, <1>9 DEF DeleteMessage, TypeOK, SyncRecord, ExecutionInv
  <2>2. PageCovered(w) => PageCovered(w)'
    <3>1. \A i \in sync[w].from + 1 .. sync[w].upto :
            feed[i].msg \in sync[w].adds \cup stored \/ Happened("removed", feed[i].msg)
            => feed[i].msg \in sync[w].adds \cup stored' \/ Happened("removed", feed[i].msg)
      BY <2>1
    <3>. QED  BY <1>1, <1>4, <1>7, <2>1, <3>1 DEF PageCovered
  <2>3. ExecutionInv(w)'
    BY <1>1, <1>3, <1>4, <1>7, <2>2 DEF ExecutionInv
  <2>4. \A v \in Workers \ {w} : sync'[v] = sync[v]
    BY <1>9 DEF DeleteMessage, TypeOK
  <2>. QED  BY <1>1, <1>2, <1>5, <1>6, <2>3, <2>4, CursorStays
<1>. QED  BY <1>8, <1>9

\* The cursor moves over a page that was applied.
LEMMA CommitKeeps ==
  ASSUME CursorInv, TypeOK', NEW w \in Workers, CommitCursor(w)
  PROVE  CursorInv' /\ cursor <= cursor'
<1>. USE DEF CursorInv
<1>1. UNCHANGED <<job, feed, stored>>
  BY DEF CommitCursor
<1>2. FeedGrows /\ StoreKept
  BY <1>1, NothingMoves
<1>3. \A v \in Workers \ {w} : sync'[v] = sync[v]
  BY DEF CommitCursor, TypeOK
<1>4. ExecutionInv(w) /\ sync[w].upto \in Nat /\ cursor \in Nat /\ Len(feed) \in Nat
  BY Executions DEF TypeOK
<1>5. CASE cursor # sync[w].from
  <2>1. UNCHANGED cursor /\ sync' = [sync EXCEPT ![w].pc = "failed", ![w].retryable = FALSE]
    BY <1>5 DEF CommitCursor
  <2>2. ExecutionInv(w)'
    BY <1>1, <2>1, Failed
  <2>3. SuccessIsCommitted'
    BY <1>1, <2>1 DEF SuccessIsCommitted
  <2>. QED  BY <1>1, <1>3, <2>1, <2>2, <2>3, QuietKeeps
<1>6. CASE cursor = sync[w].from
  <2>1. cursor' = sync[w].upto /\ sync' = [sync EXCEPT ![w].pc = "synced"]
    BY <1>6 DEF CommitCursor
  <2>2. PageCovered(w) /\ sync[w].adds = {}
    BY <1>4 DEF CommitCursor, PageApplied, ExecutionInv
  <2>3. cursor <= cursor' /\ cursor' <= Len(feed)
    BY <1>4, <1>6, <2>1, <2>2 DEF PageCovered, ExecutionInv
  <2>4. \A k, n : Happened(k, n)' <=> Happened(k, n)
    BY <1>1 DEF Happened
  <2>5. NothingSkipped'
    <3>1. ASSUME NEW i \in 1 .. sync[w].upto, feed[i].kind = "added"
          PROVE  feed[i].msg \in stored \/ Happened("removed", feed[i].msg)
      <4>1. CASE i \in 1 .. cursor
        BY <3>1, <4>1 DEF NothingSkipped
      <4>2. CASE i \in sync[w].from + 1 .. sync[w].upto
        BY <2>2, <3>1, <4>2 DEF PageCovered
      <4>. QED  BY <1>4, <1>6, <4>1, <4>2
    <3>. QED  BY <1>1, <2>1, <2>4, <3>1 DEF NothingSkipped
  <2>6. SuccessIsCommitted'
    BY <1>1, <2>3, OutcomeKept
  <2>7. ExecutionInv(w)'
    <3>1. /\ sync'[w].pc = "synced" /\ sync'[w].from = sync[w].from
          /\ sync'[w].upto = sync[w].upto /\ sync'[w].job = sync[w].job
          /\ sync'[w].removes = sync[w].removes
      BY <2>1 DEF TypeOK, SyncRecord
    <3>2. sync[w].from \in Nat /\ cursor' \in Nat
      BY Executions DEF TypeOK
    <3>3. sync'[w].from <= cursor' /\ sync'[w].upto <= cursor' /\ sync'[w].upto <= Len(feed')
      BY <1>1, <1>4, <2>1, <2>3, <3>1, <3>2 DEF ExecutionInv
    <3>. QED  BY <1>4, <2>4, <3>1, <3>3 DEF ExecutionInv
  <2>8. \A v \in Workers : ExecutionInv(v)'
    BY <1>2, <1>3, <2>3, <2>7, Bystander
  <2>. QED  BY <1>1, <2>3, <2>5, <2>6, <2>8
<1>. QED  BY <1>5, <1>6

\* The end of a job: only a page behind the cursor is reported as success.
LEMMA CompletionKeeps ==
  ASSUME CursorInv, TypeOK', NEW w \in Workers, CompleteSyncJob(w) \/ CloseSyncJob(w)
  PROVE  CursorInv' /\ cursor <= cursor'
<1>. USE DEF CursorInv
<1>1. UNCHANGED <<cursor, feed, stored>> /\ cursor \in Nat
  BY DEF CompleteSyncJob, CloseSyncJob, TypeOK
<1>2. ExecutionInv(w)
  OBVIOUS
<1>3. ASSUME NEW j \in Jobs
      PROVE  \/ job'[j].status # "succeeded"
             \/ job'[j].status = job[j].status /\ job'[j].after = job[j].after
             \/ job'[j].after <= cursor
  <2>1. CASE job'[j] = job[j]
    BY <2>1
  <2>2. CASE job'[j] # job[j]
    <3>1. CASE CompleteSyncJob(w)
      <4>1. job'[j].after = sync[w].upto
        <5>1. PICK n : job' = CompletedJob(w, sync[w].upto, n)
          BY <2>2, <3>1 DEF CompleteSyncJob
        <5>2. j = sync[w].job
          BY <2>2, <5>1 DEF CompletedJob, TypeOK
        <5>. QED  BY <5>1, <5>2 DEF CompletedJob, TypeOK, JobRecord
      <4>2. sync[w].upto <= cursor
        BY <1>2, <3>1 DEF CompleteSyncJob, ExecutionInv
      <4>. QED  BY <4>1, <4>2
    <3>2. CASE CloseSyncJob(w)
      <4>1. job'[j].after = 0
        BY <2>2, <3>2 DEF CloseSyncJob, CompletedJob, TypeOK, JobRecord
      <4>. QED  BY <1>1, <4>1
    <3>. QED  BY <3>1, <3>2
  <2>. QED  BY <2>1, <2>2
<1>4. SuccessIsCommitted'
  BY <1>1, <1>3, OutcomeKept
<1>5. \A v \in Workers \ {w} : sync'[v] = sync[v]
  BY DEF CompleteSyncJob, CloseSyncJob, TypeOK
<1>6. ExecutionInv(w)'
  <2>1. CASE sync' = [sync EXCEPT ![w] = IdleSync]
    <3>1. sync'[w] = IdleSync
      BY <2>1 DEF TypeOK
    <3>. QED  BY <3>1, IdleExecution
  <2>2. CASE sync' = [sync EXCEPT ![w].pc = "failed", ![w].retryable = FALSE]
    BY <1>1, <2>2, Failed
  <2>. QED  BY <2>1, <2>2 DEF CompleteSyncJob, CloseSyncJob
<1>. QED  BY <1>1, <1>4, <1>5, <1>6, QuietKeeps

LEMMA CursorStep == CursorInv /\ [Next]_vars => CursorInv' /\ cursor <= cursor'
<1>. SUFFICES ASSUME CursorInv, [Next]_vars PROVE CursorInv' /\ cursor <= cursor'
  OBVIOUS
<1>. USE DEF CursorInv
<1>0. TypeOK' /\ cursor \in Nat
  BY TypeNext DEF TypeOK
<1>1. CASE UNCHANGED vars
  <2>1. UNCHANGED <<job, cursor, feed, stored, sync>>
    BY <1>1 DEF vars
  <2>2. FeedGrows /\ StoreKept
    BY <2>1, NothingMoves
  <2>3. SuccessIsCommitted'
    BY <2>1 DEF SuccessIsCommitted
  <2>. QED  BY <1>0, <2>1, <2>2, <2>3, CursorStays
<1>2. ASSUME NEW m \in Messages, MailboxChanges(m) PROVE CursorInv' /\ cursor <= cursor'
  BY <1>0, <1>2, MailboxKeeps
<1>3. ASSUME NEW j \in Jobs, JobStep(j) PROVE CursorInv' /\ cursor <= cursor'
  BY <1>0, <1>3, JobStepKeeps
<1>4. ASSUME NEW w \in Workers, SyncStep(w) PROVE CursorInv' /\ cursor <= cursor'
  <2>1. ASSUME UNCHANGED <<job, cursor, feed, stored>>, ExecutionInv(w)',
               \A v \in Workers \ {w} : sync'[v] = sync[v]
        PROVE  CursorInv' /\ cursor <= cursor'
    <3>1. SuccessIsCommitted'
      BY <2>1 DEF SuccessIsCommitted
    <3>. QED  BY <1>0, <2>1, <3>1, QuietKeeps
  <2>2. CASE StartDirectSync(w)
    <3>1. sync'[w] = [IdleSync EXCEPT !.pc = "read_cursor"]
      BY <2>2 DEF StartDirectSync, TypeOK
    <3>2. Len(feed) \in Nat /\ UNCHANGED <<cursor, feed>>
      BY <2>2 DEF StartDirectSync, TypeOK
    <3>3. ExecutionInv(w)'
      BY <1>0, <3>1, <3>2 DEF ExecutionInv, IdleSync
    <3>. QED  BY <2>1, <2>2, <3>3 DEF StartDirectSync, TypeOK
  <2>3. CASE sync' = [sync EXCEPT ![w] = IdleSync] /\ UNCHANGED <<job, cursor, feed, stored>>
    <3>1. sync'[w] = IdleSync
      BY <2>3 DEF TypeOK
    <3>2. ExecutionInv(w)'
      BY <1>0, <3>1, IdleExecution
    <3>. QED  BY <2>1, <2>3, <3>2 DEF TypeOK
  <2>4. CASE CheckCancelled(w)
    <3>1. UNCHANGED <<job, cursor, feed, stored>> /\ sync[w].pc \in Checks
      BY <2>4 DEF CheckCancelled
    <3>2. ExecutionInv(w)'
      <4>1. CASE sync' = [sync EXCEPT ![w].pc = "cancelled"]
        BY <1>0, <3>1, <4>1, MovedOn DEF TypeOK, SyncRecord
      <4>2. CASE sync' = [sync EXCEPT ![w].pc = "read_cursor"]
        BY <1>0, <3>1, <4>2, MovedOn DEF TypeOK, SyncRecord
      <4>3. CASE sync' = [sync EXCEPT ![w].pc = "work"] /\ sync[w].pc = "check_work"
        BY <1>0, <3>1, <4>3, MovedOn DEF TypeOK, SyncRecord
      <4>. QED  BY <2>4, <3>1, <4>1, <4>2, <4>3 DEF CheckCancelled, AfterCheck, Checks
    <3>. QED  BY <2>1, <2>4, <3>1, <3>2 DEF CheckCancelled, TypeOK
  <2>5. CASE ReadCursor(w)
    BY <1>0, <2>1, <2>5, ReadCursorKeeps DEF ReadCursor, TypeOK
  <2>6. CASE FetchPage(w)
    BY <1>0, <2>1, <2>6, FetchKeeps DEF FetchPage, TypeOK
  <2>7. CASE FinishBackfill(w)
    <3>1. /\ sync'[w].pc = "synced" /\ sync'[w].from = sync[w].from
          /\ sync'[w].upto = sync[w].upto /\ sync'[w].job = sync[w].job
          /\ sync'[w].removes = sync[w].removes /\ sync[w].upto = 0
          /\ UNCHANGED <<job, cursor, feed, stored>>
      BY <2>7 DEF FinishBackfill, TypeOK, SyncRecord, ExecutionInv
    <3>2. \A k, n : Happened(k, n)' <=> Happened(k, n)
      BY <3>1 DEF Happened
    <3>3. ExecutionInv(w)'
      BY <1>0, <3>1, <3>2 DEF ExecutionInv
    <3>. QED  BY <2>1, <2>7, <3>1, <3>3 DEF FinishBackfill, TypeOK
  <2>8. CASE SyncFails(w)
    <3>1. PICK b \in BOOLEAN : sync' = [sync EXCEPT ![w].pc = "failed", ![w].retryable = b]
      BY <2>8 DEF SyncFails
    <3>2. UNCHANGED <<job, cursor, feed, stored>>
      BY <2>8 DEF SyncFails
    <3>3. ExecutionInv(w)'
      BY <1>0, <3>1, <3>2, Failed
    <3>. QED  BY <2>1, <3>1, <3>2, <3>3 DEF TypeOK
  <2>9. CASE ReadOutcome(w)
    <3>1. PICK t : sync' = [sync EXCEPT ![w].pc = "completing", ![w].target = t]
      BY <2>9 DEF ReadOutcome
    <3>2. UNCHANGED <<job, cursor, feed, stored>> /\ sync[w].pc = "synced"
      BY <2>9 DEF ReadOutcome
    <3>3. ExecutionInv(w)'
      BY <1>0, <3>1, <3>2, Completing
    <3>. QED  BY <2>1, <3>1, <3>2, <3>3 DEF TypeOK
  <2>10. ASSUME NEW t, sync' = [sync EXCEPT ![w].pc = "closing", ![w].target = t],
                UNCHANGED <<job, cursor, feed, stored>>
         PROVE  CursorInv' /\ cursor <= cursor'
    <3>1. ExecutionInv(w)'
      BY <1>0, <2>10, Closing
    <3>. QED  BY <2>1, <2>10, <3>1 DEF TypeOK
  <2>11. CASE HandleCancelled(w)
    BY <2>3, <2>10, <2>11 DEF HandleCancelled
  <2>12. CASE HandleFailure(w)
    BY <2>3, <2>10, <2>12 DEF HandleFailure
  <2>13. CASE Crash(w) \/ DirectSyncEnds(w)
    BY <2>3, <2>13 DEF Crash, DirectSyncEnds
  <2>. QED  BY <1>0, <1>4, <2>2, <2>4, <2>5, <2>6, <2>7, <2>8, <2>9, <2>11, <2>12, <2>13,
               ClaimKeeps, ApplyKeeps, CommitKeeps, CompletionKeeps
            DEF SyncStep, SyncProgress
<1>. QED  BY <1>1, <1>2, <1>3, <1>4 DEF Next

\* However executions interleave, die and lose the race for the cursor, what
\* it has passed is stored or gone (SaveMessage .. CommitCursor).
THEOREM CursorIsSafe == Spec => []NothingSkipped
<1>1. CursorInv => NothingSkipped
  BY DEF CursorInv
<1>2. Spec => []CursorInv
  BY CursorInit, CursorStep, PTL DEF Spec
<1>. QED  BY <1>1, <1>2, PTL

\* The compare-and-set lets no late execution take the cursor back.
THEOREM CursorMonotone == Spec => CursorOnlyAdvances
<1>1. CursorInv /\ [Next]_vars => [cursor <= cursor']_cursor
  BY CursorStep
<1>2. Spec => []CursorInv
  BY CursorInit, CursorStep, PTL DEF Spec
<1>. QED  BY <1>1, <1>2, PTL DEF Spec, CursorOnlyAdvances

\* A job never reports success for a page that was not committed.
THEOREM HonestSuccess == Spec => []SuccessIsCommitted
<1>1. CursorInv => SuccessIsCommitted
  BY DEF CursorInv
<1>2. Spec => []CursorInv
  BY CursorInit, CursorStep, PTL DEF Spec
<1>. QED  BY <1>1, <1>2, PTL

-----------------------------------------------------------------------------
(* Leases, outcomes and the retry budget.                                  *)

Working(w) == sync[w].pc # "idle" /\ sync[w].job # NoJob

\* Only the failure handler asks for a retry, and within the budget.
RetryIsAllowed(w) ==
  sync[w].target = "retry_wait" =>
    /\ sync[w].pc # "completing"
    /\ sync[w].pc = "closing" => sync[w].tries + 1 < MaxAttempts

\* Tokens are dealt in order, each to one execution; the current holder knows
\* how often its job was tried; unfinished jobs have an attempt left.
LeaseInv ==
  /\ TypeOK
  /\ \A w \in Workers : Working(w) => sync[w].token <= job[sync[w].job].fence
  /\ \A v, w \in Workers :
       Working(v) /\ Working(w) /\ sync[v].job = sync[w].job /\ sync[v].token = sync[w].token
       => v = w
  /\ \A w \in Workers :
       /\ Working(w) /\ sync[w].token = job[sync[w].job].fence
       /\ job[sync[w].job].status \in HeldStatus
       => sync[w].tries = job[sync[w].job].attempts
  /\ \A w \in Workers : RetryIsAllowed(w)
  /\ RetryBudget
  /\ \A j \in Jobs : job[j].status \notin FinalStatus => job[j].attempts < MaxAttempts

LEMMA LeaseInit == Init => LeaseInv
<1>. SUFFICES ASSUME Init PROVE LeaseInv
  OBVIOUS
<1>1. TypeOK
  BY TypeInit
<1>2. \A w \in Workers : ~Working(w) /\ sync[w].pc = "idle"
  BY DEF Init, IdleSync, Working
<1>4. \A w \in Workers : RetryIsAllowed(w)
  BY <1>2 DEF RetryIsAllowed
<1>3. RetryBudget /\ \A j \in Jobs : job[j].attempts < MaxAttempts
  BY Constants DEF Init, NewJob, RetryBudget
<1>. QED  BY <1>1, <1>2, <1>3, <1>4 DEF LeaseInv

\* An execution that stays in its job with its token, or becomes idle.
Continues(w) ==
  \/ sync'[w].pc = "idle"
  \/ /\ sync[w].pc # "idle" /\ sync'[w].job = sync[w].job
     /\ sync'[w].token = sync[w].token /\ sync'[w].tries = sync[w].tries
     /\ RetryIsAllowed(w)'

\* What the steps that claim nothing do to a job.
Settles(j) ==
  /\ job'[j].fence = job[j].fence
  /\ job'[j].status \in HeldStatus =>
       job[j].status \in HeldStatus /\ job'[j].attempts = job[j].attempts
  /\ job'[j].attempts <= MaxAttempts
  /\ job'[j].status \notin FinalStatus => job'[j].attempts < MaxAttempts

LEMMA NothingClaimed ==
  ASSUME LeaseInv, TypeOK', \A w \in Workers : Continues(w), \A j \in Jobs : Settles(j)
  PROVE  LeaseInv'
<1>. USE DEF LeaseInv
<1>1. ASSUME NEW w \in Workers, Working(w)'
      PROVE  /\ Working(w) /\ sync'[w].job = sync[w].job /\ sync'[w].token = sync[w].token
             /\ sync'[w].tries = sync[w].tries /\ sync[w].job \in Jobs
             /\ job'[sync[w].job].fence = job[sync[w].job].fence
  BY <1>1, Executions DEF Working, Continues, Settles
<1>2. \A w \in Workers : Working(w)' => sync'[w].token <= job'[sync'[w].job].fence
  BY <1>1
<1>3. \A v, w \in Workers :
        Working(v)' /\ Working(w)' /\ sync'[v].job = sync'[w].job
        /\ sync'[v].token = sync'[w].token => v = w
  BY <1>1
<1>4. \A w \in Workers :
        /\ Working(w)' /\ sync'[w].token = job'[sync'[w].job].fence
        /\ job'[sync'[w].job].status \in HeldStatus
        => sync'[w].tries = job'[sync'[w].job].attempts
  BY <1>1 DEF Settles
<1>5. \A w \in Workers : RetryIsAllowed(w)'
  BY DEF Continues, RetryIsAllowed
<1>6. RetryBudget'
  BY DEF Settles, RetryBudget, FinalStatus
<1>7. \A j \in Jobs : job'[j].status \notin FinalStatus => job'[j].attempts < MaxAttempts
  BY DEF Settles
<1>. QED  BY <1>2, <1>3, <1>4, <1>5, <1>6, <1>7

LEMMA UntouchedSettles ==
  ASSUME LeaseInv, NEW j \in Jobs, job'[j] = job[j]
  PROVE  Settles(j)
BY DEF LeaseInv, RetryBudget, Settles

LEMMA UntouchedContinues ==
  ASSUME LeaseInv, NEW w \in Workers, sync'[w] = sync[w]
  PROVE  Continues(w)
BY DEF LeaseInv, Continues, RetryIsAllowed

LEMMA ClaimLease ==
  ASSUME LeaseInv, TypeOK', NEW w \in Workers, NEW j \in Jobs, ClaimSyncJob(w, j)
  PROVE  LeaseInv'
<1>. USE DEF LeaseInv
<1>1. /\ job[j].fence \in Nat /\ job[j].attempts \in Nat /\ job[j].status \notin FinalStatus
      /\ job[j].attempts < MaxAttempts
  BY Rows DEF ClaimSyncJob, Claimable, FinalStatus
<1>2. /\ job'[j].fence = job[j].fence + 1 /\ job'[j].attempts = job[j].attempts
      /\ job'[j].status = "running" /\ \A i \in Jobs \ {j} : job'[i] = job[i]
  BY DEF ClaimSyncJob, TypeOK, JobRecord
<1>3. /\ sync'[w].pc = "check_start" /\ sync'[w].job = j /\ sync'[w].token = job[j].fence + 1
      /\ sync'[w].tries = job[j].attempts
      /\ \A v \in Workers \ {w} : sync'[v] = sync[v]
  BY DEF ClaimSyncJob, TypeOK, IdleSync
<1>4. ASSUME NEW v \in Workers \ {w}, Working(v)'
      PROVE  /\ Working(v) /\ sync'[v] = sync[v] /\ sync[v].job \in Jobs
             /\ sync[v].token \in Nat /\ sync[v].token <= job[sync[v].job].fence
             /\ sync[v].job = j => sync[v].token < job[j].fence + 1
  <2>1. Working(v) /\ sync'[v] = sync[v] /\ sync[v].job \in Jobs
    BY <1>3, <1>4, Executions DEF Working
  <2>2. sync[v].token \in Nat /\ sync[v].token <= job[sync[v].job].fence
    BY <2>1, Executions
  <2>. QED  BY <1>1, <2>1, <2>2
<1>5. \A v \in Workers : Working(v)' => sync'[v].token <= job'[sync'[v].job].fence
  <2>1. ASSUME NEW v \in Workers \ {w}, Working(v)'
        PROVE  sync'[v].token <= job'[sync'[v].job].fence
    <3>1. CASE sync[v].job = j
      BY <1>1, <1>2, <1>4, <2>1, <3>1
    <3>2. CASE sync[v].job # j
      BY <1>2, <1>4, <2>1, <3>2
    <3>. QED  BY <3>1, <3>2
  <2>2. sync'[w].token <= job'[sync'[w].job].fence
    BY <1>1, <1>2, <1>3
  <2>. QED  BY <2>1, <2>2
<1>6. ASSUME NEW u \in Workers, NEW v \in Workers, Working(u)', Working(v)',
             sync'[u].job = sync'[v].job, sync'[u].token = sync'[v].token
      PROVE  u = v
  <2>1. CASE u = w /\ v # w
    BY <1>1, <1>3, <1>4, <1>6, <2>1
  <2>2. CASE u # w /\ v = w
    BY <1>1, <1>3, <1>4, <1>6, <2>2
  <2>3. CASE u # w /\ v # w
    BY <1>4, <1>6, <2>3
  <2>. QED  BY <2>1, <2>2, <2>3
<1>7. ASSUME NEW v \in Workers, Working(v)', sync'[v].token = job'[sync'[v].job].fence,
             job'[sync'[v].job].status \in HeldStatus
      PROVE  sync'[v].tries = job'[sync'[v].job].attempts
  <2>1. CASE v = w
    BY <1>2, <1>3, <2>1
  <2>2. CASE v # w
    <3>1. sync[v].job # j
      BY <1>1, <1>2, <1>4, <1>7, <2>2
    <3>. QED  BY <1>2, <1>4, <1>7, <2>2, <3>1
  <2>. QED  BY <2>1, <2>2
<1>8. \A v \in Workers : RetryIsAllowed(v)'
  BY <1>3 DEF RetryIsAllowed
<1>9. RetryBudget' /\ \A i \in Jobs : job'[i].status \notin FinalStatus => job'[i].attempts < MaxAttempts
  BY <1>1, <1>2, Constants DEF RetryBudget
<1>. QED  BY <1>5, <1>6, <1>7, <1>8, <1>9

\* A completion is one attempt more, of the execution that knows the count.
LEMMA CompletionSettles ==
  ASSUME LeaseInv, NEW w \in Workers, Working(w), MayComplete(w), NEW a, NEW n \in {0, 1},
         job' = CompletedJob(w, a, job[sync[w].job].attempts + n),
         sync[w].target = "retry_wait" => sync[w].pc = "closing" /\ n = 1
  PROVE  \A j \in Jobs : Settles(j)
<1>. USE DEF LeaseInv
<1>. DEFINE k == sync[w].job
<1>1. k \in Jobs /\ job[k].attempts \in Nat /\ sync[w].tries \in Nat
  BY Executions, Rows DEF Working
<1>2. ASSUME NEW j \in Jobs, j # k PROVE Settles(j)
  BY <1>2, UntouchedSettles DEF CompletedJob, TypeOK
<1>3. /\ job'[k].fence = job[k].fence /\ job'[k].status = sync[w].target
      /\ job'[k].attempts = job[k].attempts + n
  BY <1>1 DEF CompletedJob, TypeOK, JobRecord
<1>4. sync[w].target \in FinalStatus \cup {"retry_wait"}
  BY DEF TypeOK, SyncRecord
<1>5. /\ sync[w].token = job[k].fence /\ job[k].status \notin FinalStatus
      /\ sync[w].target = "retry_wait" => job[k].status \in HeldStatus
  <2>1. sync[w].token = job[k].fence /\ sync[w].target \in Successors[job[k].status]
    BY DEF MayComplete, Owned
  <2>2. job[k].status \in JobStatus
    BY <1>1, Rows
  <2>. QED  BY <2>1, <2>2 DEF Successors, FinalStatus, HeldStatus
<1>6. job[k].attempts < MaxAttempts
  BY <1>1, <1>5
<1>7. CASE sync[w].target = "retry_wait"
  <2>0. /\ job[sync[w].job].status \in HeldStatus /\ sync[w].token = job[sync[w].job].fence
        /\ sync[w].pc = "closing" /\ n = 1
    BY <1>5, <1>7
  <2>1. sync[w].tries = job[sync[w].job].attempts
    BY <2>0
  <2>3. RetryIsAllowed(w)
    OBVIOUS
  <2>4. sync[w].tries + 1 < MaxAttempts
    BY <1>7, <2>0, <2>3 DEF RetryIsAllowed
  <2>2. Settles(k)
    <3>1. job'[k].status = "retry_wait" /\ "retry_wait" \notin HeldStatus
      BY <1>3, <1>7 DEF HeldStatus
    <3>2. job'[k].attempts \in Nat /\ job'[k].attempts < MaxAttempts /\ MaxAttempts \in Nat
      BY <1>1, <1>3, <2>0, <2>1, <2>4, Constants
    <3>3. job'[k].fence = job[k].fence /\ job'[k].attempts <= MaxAttempts
      BY <1>3, <3>2
    <3>. HIDE DEF LeaseInv
    <3>. QED  BY <3>1, <3>2, <3>3 DEF Settles
  <2>. QED  BY <1>2, <2>2
<1>8. CASE sync[w].target # "retry_wait"
  <2>1. sync[w].target \in FinalStatus /\ sync[w].target \notin HeldStatus
    BY <1>4, <1>8 DEF FinalStatus, HeldStatus
  <2>2. job[k].attempts + n <= MaxAttempts
    BY <1>1, <1>6, Constants
  <2>3. Settles(k)
    BY <1>3, <2>1, <2>2 DEF Settles
  <2>. QED  BY <1>2, <2>3
<1>. QED  BY <1>7, <1>8

LEMMA LeaseNext == LeaseInv /\ [Next]_vars => LeaseInv'
<1>. SUFFICES ASSUME LeaseInv, [Next]_vars PROVE LeaseInv'
  OBVIOUS
<1>. USE DEF LeaseInv
<1>0. TypeOK'
  BY TypeNext
<1>1. CASE UNCHANGED <<job, sync>>
  BY <1>0, <1>1, NothingClaimed, UntouchedSettles, UntouchedContinues
<1>2. ASSUME NEW j \in Jobs, JobStep(j) PROVE LeaseInv'
  <2>1. sync' = sync
    BY <1>2 DEF JobStep, EnqueueSyncJob, CancelSyncJob, LeaseExpires, FinalizeExpiredCancel
  <2>2. /\ job'[j].fence = job[j].fence /\ job'[j].attempts = job[j].attempts
        /\ job[j].status \notin FinalStatus
        /\ job'[j].status \in HeldStatus => job[j].status \in HeldStatus
        /\ \A i \in Jobs \ {j} : job'[i] = job[i]
    <3>1. CASE EnqueueSyncJob(j)
      BY <3>1 DEF EnqueueSyncJob, TypeOK, JobRecord, FinalStatus, HeldStatus
    <3>2. CASE CancelSyncJob(j)
      BY <3>2 DEF CancelSyncJob, TypeOK, JobRecord, FinalStatus, HeldStatus
    <3>3. CASE LeaseExpires(j)
      BY <3>3 DEF LeaseExpires, TypeOK, JobRecord, FinalStatus, HeldStatus
    <3>4. CASE FinalizeExpiredCancel(j)
      BY <3>4 DEF FinalizeExpiredCancel, TypeOK, JobRecord, FinalStatus, HeldStatus
    <3>. QED  BY <1>2, <3>1, <3>2, <3>3, <3>4 DEF JobStep
  <2>3. Settles(j)
    BY <2>2 DEF Settles, RetryBudget
  <2>4. \A i \in Jobs : Settles(i)
    BY <2>2, <2>3, UntouchedSettles
  <2>. QED  BY <1>0, <2>1, <2>4, NothingClaimed, UntouchedContinues
<1>3. ASSUME NEW w \in Workers, SyncStep(w) PROVE LeaseInv'
  <2>1. ASSUME UNCHANGED job, Continues(w), \A v \in Workers \ {w} : sync'[v] = sync[v]
        PROVE  LeaseInv'
    BY <1>0, <2>1, NothingClaimed, UntouchedSettles, UntouchedContinues
  <2>2. CASE StartDirectSync(w)
    <3>1. /\ sync'[w].job = NoJob /\ sync'[w].pc = "read_cursor" /\ UNCHANGED job
          /\ \A v \in Workers \ {w} : sync'[v] = sync[v]
      BY <2>2 DEF StartDirectSync, TypeOK, IdleSync
    <3>2. ~Working(w)'
      BY <3>1 DEF Working
    <3>3. \A v \in Workers : Working(v)' => Working(v) /\ sync'[v] = sync[v]
      BY <3>1, <3>2 DEF Working
    <3>4. \A v \in Workers : RetryIsAllowed(v)'
      BY <3>1, UntouchedContinues DEF RetryIsAllowed
    <3>5. \A v \in Workers : Working(v)' => sync'[v].token <= job'[sync'[v].job].fence
      BY <3>1, <3>3
    <3>6. \A u, v \in Workers :
            Working(u)' /\ Working(v)' /\ sync'[u].job = sync'[v].job
            /\ sync'[u].token = sync'[v].token => u = v
      BY <3>3
    <3>7. \A v \in Workers :
            /\ Working(v)' /\ sync'[v].token = job'[sync'[v].job].fence
            /\ job'[sync'[v].job].status \in HeldStatus
            => sync'[v].tries = job'[sync'[v].job].attempts
      BY <3>1, <3>3
    <3>8. RetryBudget' /\ \A j \in Jobs : job'[j].status \notin FinalStatus
                                        => job'[j].attempts < MaxAttempts
      BY <3>1 DEF RetryBudget
    <3>. QED  BY <1>0, <3>4, <3>5, <3>6, <3>7, <3>8
  <2>3. CASE sync' = [sync EXCEPT ![w] = IdleSync] /\ UNCHANGED job
    BY <2>1, <2>3 DEF Continues, TypeOK, IdleSync
  <2>5. CASE CheckCancelled(w)
    <3>1. /\ UNCHANGED job /\ sync[w].pc # "idle" /\ sync'[w].pc # "closing"
          /\ sync'[w].job = sync[w].job /\ sync'[w].token = sync[w].token
          /\ sync'[w].tries = sync[w].tries /\ sync'[w].pc # "completing"
          /\ \A v \in Workers \ {w} : sync'[v] = sync[v]
      BY <2>5 DEF CheckCancelled, AfterCheck, Checks, TypeOK, SyncRecord
    <3>. QED  BY <2>1, <3>1 DEF Continues, RetryIsAllowed
  <2>6. CASE ReadCursor(w)
    <3>1. Continues(w)
      BY <2>6 DEF ReadCursor, TypeOK, SyncRecord, Continues, RetryIsAllowed
    <3>. QED  BY <2>1, <2>6, <3>1 DEF ReadCursor, TypeOK
  <2>7. CASE FetchPage(w)
    <3>1. Continues(w) /\ \A v \in Workers \ {w} : sync'[v] = sync[v]
      BY <2>7 DEF FetchPage, TypeOK, SyncRecord, Continues, RetryIsAllowed
    <3>. QED  BY <2>1, <2>7, <3>1 DEF FetchPage
  <2>8. ASSUME NEW m \in Messages, SaveMessage(w, m) \/ DeleteMessage(w, m) PROVE LeaseInv'
    <3>1. Continues(w) /\ \A v \in Workers \ {w} : sync'[v] = sync[v]
      <4>1. CASE SaveMessage(w, m)
        BY <4>1 DEF SaveMessage, TypeOK, SyncRecord, Continues, RetryIsAllowed
      <4>2. CASE DeleteMessage(w, m)
        BY <4>2 DEF DeleteMessage, TypeOK, SyncRecord, Continues, RetryIsAllowed
      <4>. QED  BY <2>8, <4>1, <4>2
    <3>. QED  BY <2>1, <2>8, <3>1 DEF SaveMessage, DeleteMessage
  <2>9. CASE CommitCursor(w)
    <3>1. Continues(w) /\ \A v \in Workers \ {w} : sync'[v] = sync[v]
      BY <2>9 DEF CommitCursor, PageApplied, TypeOK, SyncRecord, Continues, RetryIsAllowed
    <3>. QED  BY <2>1, <2>9, <3>1 DEF CommitCursor
  <2>10. CASE FinishBackfill(w)
    <3>1. Continues(w) /\ \A v \in Workers \ {w} : sync'[v] = sync[v]
      BY <2>10 DEF FinishBackfill, PageApplied, TypeOK, SyncRecord, Continues, RetryIsAllowed
    <3>. QED  BY <2>1, <2>10, <3>1 DEF FinishBackfill
  <2>11. CASE SyncFails(w)
    <3>1. PICK b \in BOOLEAN : sync' = [sync EXCEPT ![w].pc = "failed", ![w].retryable = b]
      BY <2>11 DEF SyncFails
    <3>2. sync[w].pc # "idle" /\ UNCHANGED job
      BY <2>11 DEF SyncFails, Syncing, OnPage, Checks
    <3>3. Continues(w) /\ \A v \in Workers \ {w} : sync'[v] = sync[v]
      BY <3>1, <3>2 DEF TypeOK, SyncRecord, Continues, RetryIsAllowed
    <3>. QED  BY <2>1, <3>2, <3>3
  <2>12. CASE ReadOutcome(w)
    <3>1. Continues(w) /\ \A v \in Workers \ {w} : sync'[v] = sync[v]
      BY <2>12 DEF ReadOutcome, TypeOK, SyncRecord, Continues, RetryIsAllowed
    <3>. QED  BY <2>1, <2>12, <3>1 DEF ReadOutcome
  <2>13. CASE HandleCancelled(w)
    <3>1. CASE sync' = [sync EXCEPT ![w].pc = "closing", ![w].target = "cancelled"]
      <4>1. Continues(w) /\ \A v \in Workers \ {w} : sync'[v] = sync[v]
        BY <2>13, <3>1 DEF HandleCancelled, TypeOK, SyncRecord, Continues, RetryIsAllowed
      <4>. QED  BY <2>1, <2>13, <4>1 DEF HandleCancelled
    <3>. QED  BY <2>3, <2>13, <3>1 DEF HandleCancelled
  <2>14. CASE HandleFailure(w)
    <3>2. CASE job[sync[w].job].status = "cancelled"
      BY <2>3, <2>14, <3>2 DEF HandleFailure
    <3>3. CASE job[sync[w].job].status # "cancelled" /\ CancelRequested(w)
      <4>1. sync' = [sync EXCEPT ![w].pc = "closing", ![w].target = "cancelled"]
        BY <2>14, <3>3 DEF HandleFailure
      <4>2. Continues(w) /\ \A v \in Workers \ {w} : sync'[v] = sync[v]
        BY <2>14, <4>1 DEF HandleFailure, TypeOK, SyncRecord, Continues, RetryIsAllowed
      <4>. QED  BY <2>1, <2>14, <4>2 DEF HandleFailure
    <3>4. CASE job[sync[w].job].status # "cancelled" /\ ~CancelRequested(w) /\ RetryAllowed(w)
      <4>1. sync' = [sync EXCEPT ![w].pc = "closing", ![w].target = "retry_wait"]
        BY <2>14, <3>4 DEF HandleFailure
      <4>2. Continues(w) /\ \A v \in Workers \ {w} : sync'[v] = sync[v]
        BY <2>14, <3>4, <4>1
        DEF HandleFailure, RetryAllowed, TypeOK, SyncRecord, Continues, RetryIsAllowed
      <4>. QED  BY <2>1, <2>14, <4>2 DEF HandleFailure
    <3>5. CASE job[sync[w].job].status # "cancelled" /\ ~CancelRequested(w) /\ ~RetryAllowed(w)
      <4>1. sync' = [sync EXCEPT ![w].pc = "closing", ![w].target = "failed"]
        BY <2>14, <3>5 DEF HandleFailure
      <4>2. Continues(w) /\ \A v \in Workers \ {w} : sync'[v] = sync[v]
        BY <2>14, <4>1 DEF HandleFailure, TypeOK, SyncRecord, Continues, RetryIsAllowed
      <4>. QED  BY <2>1, <2>14, <4>2 DEF HandleFailure
    <3>. QED  BY <3>2, <3>3, <3>4, <3>5
  <2>15. CASE Crash(w) \/ DirectSyncEnds(w)
    BY <2>3, <2>15 DEF Crash, DirectSyncEnds
  <2>16. ASSUME NEW a, NEW n \in {0, 1}, MayComplete(w), Working(w),
                job' = CompletedJob(w, a, job[sync[w].job].attempts + n),
                sync[w].target = "retry_wait" => sync[w].pc = "closing" /\ n = 1,
                sync' = [sync EXCEPT ![w] = IdleSync]
         PROVE  LeaseInv'
    <3>1. \A j \in Jobs : Settles(j)
      BY <2>16, CompletionSettles
    <3>2. \A v \in Workers : Continues(v)
      BY <2>16, UntouchedContinues DEF Continues, TypeOK, IdleSync
    <3>. QED  BY <1>0, <3>1, <3>2, NothingClaimed
  <2>17. CASE CompleteSyncJob(w) \/ CloseSyncJob(w)
    <3>1. CASE CompleteSyncJob(w) /\ ~MayComplete(w)
      <4>1. sync' = [sync EXCEPT ![w].pc = "failed", ![w].retryable = FALSE]
            /\ sync[w].pc # "idle" /\ UNCHANGED job
        BY <3>1 DEF CompleteSyncJob
      <4>2. Continues(w) /\ \A v \in Workers \ {w} : sync'[v] = sync[v]
        BY <4>1 DEF TypeOK, SyncRecord, Continues, RetryIsAllowed
      <4>. QED  BY <2>1, <4>1, <4>2
    <3>2. CASE CloseSyncJob(w) /\ ~MayComplete(w)
      BY <2>3, <3>2 DEF CloseSyncJob
    <3>3. CASE sync[w].job = NoJob /\ MayComplete(w)
      <4>1. \A a, n : CompletedJob(w, a, n) = job
        BY <3>3, Constants DEF CompletedJob, TypeOK
      <4>2. sync' = [sync EXCEPT ![w] = IdleSync] /\ UNCHANGED job
        BY <2>17, <3>3, <4>1 DEF CompleteSyncJob, CloseSyncJob
      <4>. QED  BY <2>3, <4>2
    <3>4. CASE sync[w].job # NoJob /\ MayComplete(w) /\ CompleteSyncJob(w)
      <4>1. /\ Working(w) /\ sync' = [sync EXCEPT ![w] = IdleSync]
            /\ job' = CompletedJob(w, sync[w].upto, job[sync[w].job].attempts + 1)
            /\ sync[w].pc = "completing"
        BY <3>4 DEF CompleteSyncJob, Working
      <4>2. sync[w].target # "retry_wait"
        BY <4>1 DEF RetryIsAllowed
      <4>3. PICK a : a = sync[w].upto
        OBVIOUS
      <4>. QED  BY <2>16, <3>4, <4>1, <4>2, <4>3
    <3>5. CASE sync[w].job # NoJob /\ MayComplete(w) /\ CloseSyncJob(w)
      <4>1. /\ Working(w) /\ sync' = [sync EXCEPT ![w] = IdleSync] /\ sync[w].pc = "closing"
        BY <3>5 DEF CloseSyncJob, Working
      <4>2. CASE sync[w].target = "cancelled"
        <5>1. job' = CompletedJob(w, 0, job[sync[w].job].attempts + 0)
          BY <3>5, <4>2 DEF CloseSyncJob
        <5>. QED  BY <2>16, <3>5, <4>1, <4>2, <5>1
      <4>3. CASE sync[w].target # "cancelled"
        <5>1. job' = CompletedJob(w, 0, job[sync[w].job].attempts + 1)
          BY <3>5, <4>3 DEF CloseSyncJob
        <5>. QED  BY <2>16, <3>5, <4>1, <5>1
      <4>. QED  BY <4>2, <4>3
    <3>. QED  BY <2>17, <3>1, <3>2, <3>3, <3>4, <3>5
  <2>. QED  BY <1>0, <1>3, <2>2, <2>5, <2>6, <2>7, <2>8, <2>9, <2>10, <2>11, <2>12, <2>13,
               <2>14, <2>15, <2>17, ClaimLease DEF SyncStep, SyncProgress
<1>. QED  BY <1>1, <1>2, <1>3 DEF Next, vars, MailboxChanges

\* The fencing token leaves one execution able to end a job, whatever the
\* worker ids and however late the others are (complete_sync_job).
THEOREM OneCompleterTheorem == Spec => []OneCompleter
<1>1. LeaseInv => OneCompleter
  BY DEF LeaseInv, OneCompleter, Working, Owned
<1>. QED  BY <1>1, LeaseInit, LeaseNext, PTL DEF Spec

\* Failed attempts never exceed the budget, across requeues and takeovers.
THEOREM BoundedRetries == Spec => []RetryBudget
<1>1. LeaseInv => RetryBudget
  BY DEF LeaseInv
<1>. QED  BY <1>1, LeaseInit, LeaseNext, PTL DEF Spec

LEMMA OutcomeStep ==
  ASSUME TypeOK, [Next]_vars, NEW j \in Jobs
  PROVE  /\ job[j].status \in FinalStatus => job'[j] = job[j]
         /\ job[j].status = "cancelling" => job'[j].status \in {"cancelling", "cancelled"}
<1>1. CASE job' = job
  BY <1>1
<1>2. ASSUME NEW i \in Jobs, JobStep(i)
      PROVE  /\ job[j].status \in FinalStatus => job'[j] = job[j]
             /\ job[j].status = "cancelling" => job'[j].status \in {"cancelling", "cancelled"}
  <2>1. CASE EnqueueSyncJob(i)
    BY <2>1 DEF EnqueueSyncJob, TypeOK, JobRecord, FinalStatus
  <2>2. CASE CancelSyncJob(i)
    BY <2>2 DEF CancelSyncJob, TypeOK, JobRecord, FinalStatus
  <2>3. CASE LeaseExpires(i)
    BY <2>3 DEF LeaseExpires, TypeOK, JobRecord, FinalStatus, HeldStatus
  <2>4. CASE FinalizeExpiredCancel(i)
    BY <2>4 DEF FinalizeExpiredCancel, TypeOK, JobRecord, FinalStatus
  <2>. QED  BY <1>2, <2>1, <2>2, <2>3, <2>4 DEF JobStep
<1>3. ASSUME NEW w \in Workers, NEW i \in Jobs, ClaimSyncJob(w, i)
      PROVE  /\ job[j].status \in FinalStatus => job'[j] = job[j]
             /\ job[j].status = "cancelling" => job'[j].status \in {"cancelling", "cancelled"}
  BY <1>3 DEF ClaimSyncJob, Claimable, TypeOK, JobRecord, FinalStatus
<1>4. ASSUME NEW w \in Workers, CompleteSyncJob(w) \/ CloseSyncJob(w), job' # job
      PROVE  /\ job[j].status \in FinalStatus => job'[j] = job[j]
             /\ job[j].status = "cancelling" => job'[j].status \in {"cancelling", "cancelled"}
  <2>1. PICK a, n : job' = CompletedJob(w, a, n) /\ MayComplete(w)
    BY <1>4 DEF CompleteSyncJob, CloseSyncJob
  <2>2. CASE j # sync[w].job
    BY <2>1, <2>2 DEF CompletedJob, TypeOK
  <2>3. CASE j = sync[w].job
    <3>1. sync[w].target \in Successors[job[j].status] /\ job[j].status \in JobStatus
      BY <2>1, <2>3, Rows DEF MayComplete
    <3>2. job[j].status \notin FinalStatus
      BY <3>1 DEF Successors, FinalStatus
    <3>3. job[j].status = "cancelling" => sync[w].target = "cancelled"
      BY <3>1 DEF Successors, FinalStatus
    <3>4. job'[j].status = sync[w].target
      BY <2>1, <2>3 DEF CompletedJob, TypeOK, JobRecord
    <3>. QED  BY <3>2, <3>3, <3>4
  <2>. QED  BY <2>2, <2>3
<1>5. ASSUME job' # job
      PROVE  \/ \E i \in Jobs : JobStep(i)
             \/ \E w \in Workers : \E i \in Jobs : ClaimSyncJob(w, i)
             \/ \E w \in Workers : CompleteSyncJob(w) \/ CloseSyncJob(w)
  <2>1. ~ UNCHANGED vars
    BY <1>5 DEF vars
  <2>2. \A m \in Messages : ~MailboxChanges(m)
    BY <1>5 DEF MailboxChanges
  <2>3. \A w \in Workers :
          SyncStep(w) => \/ \E i \in Jobs : ClaimSyncJob(w, i)
                         \/ CompleteSyncJob(w) \/ CloseSyncJob(w)
    BY <1>5 DEF SyncStep, SyncProgress, StartDirectSync, Crash, CheckCancelled, ReadCursor,
                FetchPage, SaveMessage, DeleteMessage, CommitCursor, FinishBackfill, SyncFails,
                DirectSyncEnds, ReadOutcome, HandleCancelled, HandleFailure
  <2>. QED  BY <2>1, <2>2, <2>3 DEF Next
<1>. QED  BY <1>1, <1>2, <1>3, <1>4, <1>5

\* An outcome is given once, and an accepted cancellation is the only outcome
\* left, whatever the job's worker still does (transition_sync_job).
THEOREM OutcomesStand == Spec => OutcomeStands
<1>1. TypeOK /\ [Next]_vars =>
        [\A j \in Jobs :
           /\ job[j].status \in FinalStatus => job'[j] = job[j]
           /\ job[j].status = "cancelling" => job'[j].status \in {"cancelling", "cancelled"}]_job
  BY OutcomeStep
<1>. QED  BY <1>1, TypeCorrect, PTL DEF Spec, OutcomeStands


-----------------------------------------------------------------------------
(* Deletions: while no two executions work on the folder at once.          *)

\* A message comes once, and goes once after it came.
FeedInv ==
  /\ \A i, k \in 1 .. Len(feed) : feed[i] = feed[k] => i = k
  /\ \A i \in 1 .. Len(feed) : feed[i].kind = "removed" =>
       \E k \in 1 .. i - 1 : feed[k] = [kind |-> "added", msg |-> feed[i].msg]

\* The cursor has passed the deletion of m.
Gone(m) == \E i \in 1 .. cursor : feed[i] = [kind |-> "removed", msg |-> m]

\* What the page of w was fetched for: its messages were not deleted behind the cursor, its
\* deletions are still to come or were applied after its last message.
PageStands(w) ==
  /\ \A m \in sync[w].adds : ~Gone(m)
  /\ sync[w].job \notin Backfills =>
       \A i \in cursor + 1 .. sync[w].upto : feed[i].kind = "removed" =>
         \/ feed[i].msg \in sync[w].removes
         \/ sync[w].adds = {} /\ feed[i].msg \notin stored

\* One execution works on a page, from where the cursor still is.
AloneInv ==
  /\ \A v, w \in Workers : sync[v].pc \in OnPage /\ sync[w].pc \in OnPage => v = w
  /\ \A w \in Workers :
       /\ sync[w].pc \in OnPage /\ sync[w].job \notin Backfills => sync[w].from = cursor
       /\ sync[w].pc \in {"check_work", "work"} => PageStands(w)
  /\ \A m \in stored : ~Gone(m)

DeletionInv == FeedInv /\ (~overlapped => AloneInv)

LEMMA CursorInvariant == Spec => []CursorInv
BY CursorInit, CursorStep, PTL DEF Spec

LEMMA FeedInvInit == Init => FeedInv
BY DEF Init, FeedInv

\* The mailbox appends what did not happen yet, and a deletion after its message.
LEMMA FeedStep ==
  ASSUME TypeOK, FeedInv, NEW m \in Messages, MailboxChanges(m)
  PROVE  FeedInv'
<1>1. PICK c \in Change :
        /\ feed' = Append(feed, c)
        /\ \A i \in 1 .. Len(feed) : feed[i] # c
        /\ c.kind = "removed" =>
             \E k \in 1 .. Len(feed) : feed[k] = [kind |-> "added", msg |-> c.msg]
  <2>d. DOMAIN feed = 1 .. Len(feed)
    BY DEF TypeOK
  <2>1. CASE ~Happened("added", m) /\ feed' = Append(feed, [kind |-> "added", msg |-> m])
    BY <2>1, <2>d DEF Happened, Change
  <2>2. CASE m \in Present /\ feed' = Append(feed, [kind |-> "removed", msg |-> m])
    BY <2>2, <2>d DEF Happened, Present, Change
  <2>. QED  BY <2>1, <2>2 DEF MailboxChanges
<1>2. /\ Len(feed) \in Nat /\ Len(feed') = Len(feed) + 1 /\ feed'[Len(feed) + 1] = c
      /\ \A i \in 1 .. Len(feed) : feed'[i] = feed[i]
  BY <1>1 DEF TypeOK
<1>3. \A i \in 1 .. Len(feed') : i \in 1 .. Len(feed) \/ i = Len(feed) + 1
  BY <1>2
<1>4. \A i, k \in 1 .. Len(feed') : feed'[i] = feed'[k] => i = k
  BY <1>1, <1>2, <1>3 DEF FeedInv
<1>5. ASSUME NEW i \in 1 .. Len(feed'), feed'[i].kind = "removed"
      PROVE  \E k \in 1 .. i - 1 : feed'[k] = [kind |-> "added", msg |-> feed'[i].msg]
  <2>1. CASE i = Len(feed) + 1
    BY <1>1, <1>2, <1>5, <2>1
  <2>2. CASE i \in 1 .. Len(feed)
    <3>1. PICK k \in 1 .. i - 1 : feed[k] = [kind |-> "added", msg |-> feed[i].msg]
      BY <1>2, <1>5, <2>2 DEF FeedInv
    <3>2. k \in 1 .. Len(feed)
      BY <1>2, <2>2
    <3>. QED  BY <1>2, <2>2, <3>1, <3>2
  <2>. QED  BY <1>3, <2>1, <2>2
<1>. QED  BY <1>4, <1>5 DEF FeedInv

\* Messages arrive at the end of the feed.
LEMMA MailboxGrows ==
  ASSUME TypeOK, NEW m \in Messages, MailboxChanges(m)
  PROVE  FeedGrows
<1>1. feed \in Seq(Change) /\ \E c \in Change : feed' = Append(feed, c)
  BY DEF TypeOK, MailboxChanges, Change
<1>. QED  BY <1>1 DEF FeedGrows

\* A growing feed does not move what the cursor has passed.
LEMMA GoneStays ==
  ASSUME CursorInv, FeedGrows, cursor' = cursor
  PROVE  \A m : Gone(m)' <=> Gone(m)
<1>1. \A i \in 1 .. cursor : feed'[i] = feed[i]
  <2>1. cursor \in Nat /\ Len(feed) \in Nat /\ cursor <= Len(feed)
    BY DEF CursorInv, TypeOK
  <2>. QED  BY <2>1 DEF FeedGrows
<1>. QED  BY <1>1 DEF Gone

LEMMA PageStandsKept ==
  ASSUME CursorInv, FeedGrows, UNCHANGED <<cursor, stored>>, NEW w \in Workers,
         sync'[w].adds = sync[w].adds, sync'[w].removes = sync[w].removes,
         sync'[w].upto = sync[w].upto, sync'[w].job = sync[w].job,
         PageStands(w)
  PROVE  PageStands(w)'
<1>1. \A m \in sync'[w].adds : ~Gone(m)'
  BY GoneStays DEF PageStands
<1>2. \A i \in cursor + 1 .. sync[w].upto : feed'[i] = feed[i]
  <2>1. /\ cursor \in Nat /\ Len(feed) \in Nat /\ sync[w].upto \in Nat
        /\ sync[w].upto <= Len(feed)
    BY Executions DEF CursorInv, TypeOK, ExecutionInv
  <2>. QED  BY <2>1 DEF FeedGrows
<1>. QED  BY <1>1, <1>2 DEF PageStands

\* A step of one execution that neither moves the cursor nor changes the store.
LEMMA AloneFrame ==
  ASSUME CursorInv, AloneInv, FeedGrows, UNCHANGED <<cursor, stored>>, NEW w \in Workers,
         \A v \in Workers \ {w} : sync'[v] = sync[v],
         sync'[w].pc \in OnPage =>
           sync[w].pc \in OnPage \/ \A v \in Workers \ {w} : sync[v].pc \notin OnPage,
         sync'[w].pc \in OnPage /\ sync'[w].job \notin Backfills => sync'[w].from = cursor,
         sync'[w].pc \in {"check_work", "work"} => PageStands(w)'
  PROVE  AloneInv'
<1>1. \A m \in stored' : ~Gone(m)'
  BY GoneStays DEF AloneInv
<1>2. \A u, v \in Workers : sync'[u].pc \in OnPage /\ sync'[v].pc \in OnPage => u = v
  BY DEF AloneInv
<1>3. ASSUME NEW v \in Workers \ {w}, sync'[v].pc \in {"check_work", "work"}
      PROVE  PageStands(v)'
  BY <1>3, PageStandsKept DEF AloneInv
<1>4. \A v \in Workers : sync'[v].pc \in OnPage /\ sync'[v].job \notin Backfills => sync'[v].from = cursor'
  BY DEF AloneInv
<1>. QED  BY <1>1, <1>2, <1>3, <1>4 DEF AloneInv

\* A step that leaves every execution alone.
LEMMA AloneStays ==
  ASSUME CursorInv, AloneInv, FeedGrows, UNCHANGED <<cursor, stored, sync>>
  PROVE  AloneInv'
<1>1. \A m \in stored' : ~Gone(m)'
  BY GoneStays DEF AloneInv
<1>2. ASSUME NEW v \in Workers, sync'[v].pc \in {"check_work", "work"} PROVE PageStands(v)'
  BY <1>2, PageStandsKept DEF AloneInv
<1>. QED  BY <1>1, <1>2 DEF AloneInv

\* The page that is fetched reaches from the cursor to its end; what it adds was not deleted
\* before, because a message comes once.
LEMMA FetchStands ==
  ASSUME CursorInv, FeedInv, AloneInv, NEW w \in Workers, FetchPage(w)
  PROVE  AloneInv'
<1>1. /\ sync[w].pc = "fetch" /\ UNCHANGED <<cursor, feed, stored>>
      /\ \A v \in Workers \ {w} : sync'[v] = sync[v]
  BY DEF FetchPage, CursorInv, TypeOK
<1>2. sync[w].pc \in OnPage
  BY <1>1 DEF OnPage
<1>3. /\ cursor \in Nat /\ Len(feed) \in Nat /\ cursor <= Len(feed)
      /\ \A i \in 1 .. Len(feed) : feed[i] \in Change
  BY DEF CursorInv, TypeOK
<1>4. FeedGrows
  BY <1>1, NothingMoves DEF CursorInv
<1>5. CASE sync[w].job \in Backfills
  <2>1. PICK found \in SUBSET Present : sync' = [sync EXCEPT ![w].pc = "check_work", ![w].adds = found]
    BY <1>5 DEF FetchPage
  <2>2. sync'[w].adds \subseteq Present /\ sync'[w].job = sync[w].job
    BY <2>1 DEF CursorInv, TypeOK, SyncRecord
  <2>3. \A m \in Present : ~Gone(m)
    BY <1>3 DEF Present, Happened, Gone, CursorInv, TypeOK
  <2>4. PageStands(w)'
    BY <1>5, <1>1, <2>2, <2>3 DEF PageStands, Gone
  <2>. QED  BY <1>1, <1>2, <1>4, <1>5, <2>2, <2>4, AloneFrame
<1>6. CASE sync[w].job \notin Backfills
  <2> DEFINE upto == PageEnd(cursor)
  <2>1. sync[w].from = cursor
    BY <1>2, <1>6 DEF AloneInv
  <2>2. /\ sync'[w].from = cursor /\ sync'[w].upto = upto /\ sync'[w].job = sync[w].job
        /\ sync'[w].adds = Changed("added", cursor, upto)
        /\ sync'[w].removes = Changed("removed", cursor, upto)
    BY <1>6, <2>1 DEF FetchPage, CursorInv, TypeOK, SyncRecord
  <2>3. upto \in Nat /\ cursor <= upto /\ upto <= Len(feed)
    BY <1>3, Constants DEF PageEnd
  <2>4. ASSUME NEW m \in Changed("added", cursor, upto), Gone(m) PROVE FALSE
    <3>1. PICK a \in cursor + 1 .. upto : feed[a] = [kind |-> "added", msg |-> m]
      BY DEF Changed
    <3>2. PICK i \in 1 .. cursor : feed[i] = [kind |-> "removed", msg |-> m]
      BY <2>4 DEF Gone
    <3>3. PICK k \in 1 .. i - 1 : feed[k] = [kind |-> "added", msg |-> m]
      BY <1>3, <3>2 DEF FeedInv
    <3>4. a \in 1 .. Len(feed) /\ k \in 1 .. Len(feed) /\ k # a
      BY <1>3, <2>3
    <3>. QED  BY <3>1, <3>3, <3>4 DEF FeedInv
  <2>5. ASSUME NEW i \in cursor + 1 .. upto, feed[i].kind = "removed"
        PROVE  feed[i].msg \in Changed("removed", cursor, upto)
    <3>1. feed[i] \in Change
      BY <1>3, <2>3
    <3>2. feed[i] = [kind |-> "removed", msg |-> feed[i].msg] /\ feed[i].msg \in Messages
      BY <2>5, <3>1 DEF Change
    <3>. QED  BY <3>2 DEF Changed
  <2>6. PageStands(w)'
    BY <1>1, <2>2, <2>4, <2>5 DEF PageStands, Gone
  <2>. QED  BY <1>1, <1>2, <1>4, <2>2, <2>6, AloneFrame
<1>. QED  BY <1>5, <1>6

\* The one execution at work is the one that applies its page.
LEMMA ApplyStands ==
  ASSUME CursorInv, AloneInv, NEW w \in Workers, NEW m \in Messages,
         SaveMessage(w, m) \/ DeleteMessage(w, m)
  PROVE  AloneInv'
<1>1. /\ sync[w].pc = "work" /\ UNCHANGED <<cursor, feed>>
      /\ \A v \in Workers \ {w} : sync'[v] = sync[v]
  BY DEF SaveMessage, DeleteMessage, CursorInv, TypeOK
<1>2. \A v \in Workers \ {w} : sync[v].pc \notin OnPage
  BY <1>1 DEF AloneInv, OnPage
<1>3. \A n : Gone(n)' <=> Gone(n)
  BY <1>1 DEF Gone
<1>4. PageStands(w)
  BY <1>1 DEF AloneInv
<1>5. /\ sync'[w].pc = "check_work" /\ sync'[w].from = sync[w].from
      /\ sync'[w].upto = sync[w].upto /\ sync'[w].job = sync[w].job
      /\ \/ /\ stored' = stored \cup {m} /\ m \in sync[w].adds
            /\ sync'[w].adds = sync[w].adds \ {m} /\ sync'[w].removes = sync[w].removes
         \/ /\ stored' = stored \ {m} /\ sync[w].adds = {} /\ sync'[w].adds = {}
            /\ sync'[w].removes = sync[w].removes \ {m}
  <2>1. CASE SaveMessage(w, m)
    BY <2>1 DEF SaveMessage, CursorInv, TypeOK, SyncRecord
  <2>2. CASE DeleteMessage(w, m)
    BY <2>2 DEF DeleteMessage, CursorInv, TypeOK, SyncRecord
  <2>. QED  BY <2>1, <2>2
<1>6. \A n \in stored' : ~Gone(n)'
  BY <1>3, <1>4, <1>5 DEF AloneInv, PageStands
<1>7. PageStands(w)'
  BY <1>1, <1>3, <1>4, <1>5 DEF PageStands
<1>8. sync[w].job \notin Backfills => sync'[w].from = cursor'
  BY <1>1, <1>5 DEF AloneInv, OnPage
<1>. QED  BY <1>1, <1>2, <1>5, <1>6, <1>7, <1>8 DEF AloneInv, OnPage

\* The cursor moves to the end of a page whose deletions were applied.
LEMMA CommitStands ==
  ASSUME CursorInv, AloneInv, NEW w \in Workers, CommitCursor(w)
  PROVE  AloneInv'
<1>1. /\ sync[w].pc = "work" /\ sync[w].adds = {} /\ sync[w].removes = {}
      /\ sync[w].job \notin Backfills /\ UNCHANGED <<feed, stored>>
      /\ \A v \in Workers \ {w} : sync'[v] = sync[v]
  BY DEF CommitCursor, PageApplied, CursorInv, TypeOK
<1>2. \A v \in Workers \ {w} : sync[v].pc \notin OnPage
  BY <1>1 DEF AloneInv, OnPage
<1>3. PageStands(w) /\ sync[w].from = cursor
  BY <1>1 DEF AloneInv, OnPage
<1>4. cursor' = sync[w].upto /\ sync'[w].pc \notin OnPage
  BY <1>3 DEF CommitCursor, CursorInv, TypeOK, SyncRecord, OnPage
<1>5. cursor \in Nat /\ sync[w].upto \in Nat
  BY Executions DEF CursorInv, TypeOK
<1>6. ASSUME NEW m \in stored', Gone(m)' PROVE FALSE
  <2>1. PICK i \in 1 .. sync[w].upto : feed[i] = [kind |-> "removed", msg |-> m]
    BY <1>1, <1>4, <1>6 DEF Gone
  <2>2. CASE i \in 1 .. cursor
    BY <1>1, <2>1, <2>2 DEF AloneInv, Gone
  <2>3. CASE i \in cursor + 1 .. sync[w].upto
    BY <1>1, <1>3, <2>1, <2>3 DEF PageStands
  <2>. QED  BY <1>5, <2>2, <2>3
<1>. QED  BY <1>1, <1>2, <1>4, <1>6 DEF AloneInv, OnPage

\* Every other step of an execution leaves the page, or stays on it with what it has.
LEMMA OthersStand ==
  ASSUME CursorInv, AloneInv, NEW w \in Workers, UNCHANGED <<cursor, feed, stored>>,
         \A v \in Workers \ {w} : sync'[v] = sync[v],
         \/ sync'[w].pc \notin OnPage
         \/ /\ sync[w].pc = "check_work" /\ sync'[w].pc = "work"
            /\ sync'[w].adds = sync[w].adds /\ sync'[w].removes = sync[w].removes
            /\ sync'[w].from = sync[w].from /\ sync'[w].upto = sync[w].upto
            /\ sync'[w].job = sync[w].job
  PROVE  AloneInv'
<1>1. FeedGrows
  BY NothingMoves DEF CursorInv
<1>2. CASE sync'[w].pc \notin OnPage
  BY <1>1, <1>2, AloneFrame DEF OnPage
<1>3. CASE sync'[w].pc \in OnPage
  <2>1. PageStands(w)'
    BY <1>1, <1>3, PageStandsKept DEF AloneInv
  <2>. QED  BY <1>1, <1>3, <2>1, AloneFrame DEF AloneInv, OnPage
<1>. QED  BY <1>2, <1>3

LEMMA ReadCursorStands ==
  ASSUME CursorInv, AloneInv, NEW w \in Workers, ReadCursor(w), ~overlapped'
  PROVE  AloneInv'
<1>1. /\ UNCHANGED <<cursor, feed, stored>> /\ \A v \in Workers \ {w} : sync'[v] = sync[v]
      /\ \A v \in Workers \ {w} : sync[v].pc \notin OnPage
      /\ sync'[w].pc = "fetch" /\ sync'[w].job = sync[w].job
      /\ sync[w].job \notin Backfills => sync'[w].from = cursor
  BY DEF ReadCursor, CursorInv, TypeOK, SyncRecord
<1>. QED  BY <1>1, NothingMoves, AloneFrame DEF CursorInv

LEMMA ExecutionStands ==
  ASSUME CursorInv, FeedInv, AloneInv, ~overlapped', NEW w \in Workers, SyncStep(w)
  PROVE  AloneInv'
<1>r. sync \in [Workers -> SyncRecord] /\ sync[w] \in SyncRecord
  BY DEF CursorInv, TypeOK
<1>1. CASE CheckCancelled(w)
  <2>1. /\ UNCHANGED <<cursor, feed, stored>> /\ \A v \in Workers \ {w} : sync'[v] = sync[v]
        /\ sync[w].pc \in {"check_start", "check_work"}
    BY <1>1, <1>r DEF CheckCancelled, Checks
  <2>2. CASE sync' = [sync EXCEPT ![w].pc = "cancelled"] \/ sync' = [sync EXCEPT ![w].pc = "read_cursor"]
    BY <1>r, <2>1, <2>2, OthersStand DEF SyncRecord, OnPage
  <2>3. CASE sync' = [sync EXCEPT ![w].pc = "work"] /\ sync[w].pc = "check_work"
    BY <1>r, <2>1, <2>3, OthersStand DEF SyncRecord
  <2>. QED  BY <1>1, <2>1, <2>2, <2>3 DEF CheckCancelled, AfterCheck
<1>2. ASSUME \/ sync' = [sync EXCEPT ![w] = IdleSync]
             \/ sync' = [sync EXCEPT ![w] = [IdleSync EXCEPT !.pc = "read_cursor"]]
             \/ \E j \in Jobs : \E n, t : sync' = [sync EXCEPT ![w] =
                  [IdleSync EXCEPT !.pc = "check_start", !.job = j, !.token = n, !.tries = t]]
             \/ \E b : sync' = [sync EXCEPT ![w].pc = "failed", ![w].retryable = b]
             \/ sync' = [sync EXCEPT ![w].pc = "synced"]
             \/ \E t : sync' = [sync EXCEPT ![w].pc = "completing", ![w].target = t]
             \/ \E t : sync' = [sync EXCEPT ![w].pc = "closing", ![w].target = t],
             UNCHANGED <<cursor, feed, stored>>
      PROVE  AloneInv'
  <2>1. sync'[w].pc \in {"idle", "read_cursor", "check_start", "failed", "synced", "completing", "closing"}
    <3>1. CASE \E b : sync' = [sync EXCEPT ![w].pc = "failed", ![w].retryable = b]
      BY <3>1, <1>r DEF SyncRecord
    <3>2. CASE \/ \E t : sync' = [sync EXCEPT ![w].pc = "completing", ![w].target = t]
               \/ \E t : sync' = [sync EXCEPT ![w].pc = "closing", ![w].target = t]
      BY <3>2, <1>r DEF SyncRecord
    <3>3. CASE sync' = [sync EXCEPT ![w].pc = "synced"]
      BY <3>3, <1>r DEF SyncRecord
    <3>4. CASE sync' = [sync EXCEPT ![w] = IdleSync]
      BY <3>4, <1>r DEF IdleSync
    <3>5. CASE sync' = [sync EXCEPT ![w] = [IdleSync EXCEPT !.pc = "read_cursor"]]
      BY <3>5, <1>r DEF IdleSync
    <3>6. ASSUME NEW j \in Jobs, NEW n, NEW t, sync' = [sync EXCEPT ![w] =
                   [IdleSync EXCEPT !.pc = "check_start", !.job = j, !.token = n, !.tries = t]]
          PROVE  sync'[w].pc = "check_start"
      BY <3>6, <1>r DEF IdleSync
    <3>. QED  BY <1>2, <3>1, <3>2, <3>3, <3>4, <3>5, <3>6
  <2>2. \A v \in Workers \ {w} : sync'[v] = sync[v]
    BY <1>2, <1>r
  <2>. QED  BY <1>2, <2>1, <2>2, OthersStand DEF OnPage
<1>3. CASE StartDirectSync(w) \/ Crash(w) \/ DirectSyncEnds(w) \/ FinishBackfill(w) \/ SyncFails(w)
  BY <1>2, <1>3 DEF StartDirectSync, Crash, DirectSyncEnds, FinishBackfill, SyncFails
<1>4. ASSUME NEW j \in Jobs, ClaimSyncJob(w, j) PROVE AloneInv'
  BY <1>2, <1>4 DEF ClaimSyncJob
<1>5. CASE ReadOutcome(w) \/ HandleCancelled(w) \/ HandleFailure(w)
  BY <1>2, <1>5 DEF ReadOutcome, HandleCancelled, HandleFailure
<1>6. CASE CompleteSyncJob(w) \/ CloseSyncJob(w)
  BY <1>2, <1>6 DEF CompleteSyncJob, CloseSyncJob
<1>7. CASE ReadCursor(w)
  BY <1>7, ReadCursorStands
<1>8. CASE FetchPage(w)
  BY <1>8, FetchStands
<1>9. CASE CommitCursor(w)
  BY <1>9, CommitStands
<1>. QED  BY <1>1, <1>3, <1>4, <1>5, <1>6, <1>7, <1>8, <1>9, ApplyStands DEF SyncStep, SyncProgress

LEMMA DeletionStep == CursorInv /\ DeletionInv /\ [Next]_vars => DeletionInv'
<1> SUFFICES ASSUME CursorInv, DeletionInv, [Next]_vars PROVE DeletionInv'
  OBVIOUS
<1>t. TypeOK
  BY DEF CursorInv
<1>1. ASSUME NEW m \in Messages, MailboxChanges(m) PROVE DeletionInv'
  <2>1. UNCHANGED <<cursor, stored, sync, overlapped>>
    BY <1>1 DEF MailboxChanges
  <2>. QED  BY <1>1, <1>t, <2>1, FeedStep, MailboxGrows, AloneStays DEF DeletionInv
<1>2. CASE UNCHANGED <<cursor, feed, stored, sync, overlapped>>
  BY <1>2, <1>t, NothingMoves, AloneStays DEF DeletionInv, FeedInv
<1>3. ASSUME NEW j \in Jobs, JobStep(j) PROVE DeletionInv'
  BY <1>2, <1>3 DEF JobStep, EnqueueSyncJob, CancelSyncJob, LeaseExpires, FinalizeExpiredCancel
<1>4. ASSUME NEW w \in Workers, SyncStep(w) PROVE DeletionInv'
  <2>1. UNCHANGED feed /\ (overlapped => overlapped')
    <3>1. CASE ReadCursor(w)
      BY <3>1 DEF ReadCursor
    <3>2. ASSUME ~ReadCursor(w) PROVE UNCHANGED <<feed, overlapped>>
      BY <1>4, <3>2 DEF SyncStep, SyncProgress, StartDirectSync, Crash, ClaimSyncJob,
         CheckCancelled, FetchPage, SaveMessage, DeleteMessage, CommitCursor, FinishBackfill,
         SyncFails, DirectSyncEnds, ReadOutcome, CompleteSyncJob, HandleCancelled,
         HandleFailure, CloseSyncJob
    <3>. QED  BY <3>1, <3>2
  <2>. QED  BY <1>4, <2>1, ExecutionStands DEF DeletionInv, FeedInv
<1>. QED  BY <1>1, <1>2, <1>3, <1>4 DEF Next, vars

\* No projection of a deleted message comes back behind the cursor, however executions die,
\* are cancelled and retried, as long as no two of them have worked on the folder at once.
THEOREM DeletionsStandTheorem == Spec => []DeletionsStand
<1>1. Init => DeletionInv
  BY FeedInvInit DEF Init, DeletionInv, AloneInv, OnPage, IdleSync
<1>2. CursorInv /\ DeletionInv => DeletionsStand
  <2> SUFFICES ASSUME CursorInv, AloneInv, NEW i \in 1 .. cursor, feed[i].kind = "removed",
                      feed[i].msg \in stored
               PROVE  FALSE
    BY DEF DeletionInv, DeletionsStand
  <2>1. feed[i] \in Change
    BY DEF CursorInv, TypeOK
  <2>2. feed[i] = [kind |-> "removed", msg |-> feed[i].msg]
    BY <2>1 DEF Change
  <2>. QED  BY <2>2 DEF AloneInv, Gone
<1>. QED  BY <1>1, <1>2, DeletionStep, CursorInvariant, PTL DEF Spec
=============================================================================
