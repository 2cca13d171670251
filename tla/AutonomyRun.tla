------------------------------ MODULE AutonomyRun ------------------------------
(***************************************************************************)
(* Autonomy runs: the durable rows of mail_autonomy_runs, the executions    *)
(* run_autonomy_job makes of them (claim, MailAutonomyCoordinator's         *)
(* run_claimed, complete or pause), the owner's decisions about them, and   *)
(* the quota the synchronisation of an execution takes.                     *)
(*                                                                          *)
(* An execution is fenced by the number of its claim. Every call of ":run"  *)
(* gives the same name for a subject (api-autonomy:<subject>), so the name  *)
(* of the owner of a lease tells no two executions apart, and the model has *)
(* only whether there is a lease. What a mailbox holds is an input.         *)
(***************************************************************************)
EXTENDS MailQuota

CONSTANTS
  Runs,       \* requests, by replay key
  AccountOf,  \* the connection of a run
  Workers,    \* concurrent calls of run_autonomy_job
  Messages,
  Injected,   \* messages in which analyze_message detects an injection
  MaxEvents   \* bound: decisions, crashes and accidents together

ASSUME RunAssumption == Runs # {} /\ AccountOf \in [Runs -> Accounts] /\ Injected \subseteq Messages
ASSUME EventAssumption == MaxEvents \in Nat

VARIABLES
  conn,    \* is the connection of an account usable?
  run,     \* mail_autonomy_runs
  exec,    \* local state of each call
  events,
  listed,  \* history: what the last claim of a run has to analyse
  decided  \* history: the claim during, or after, which the owner last decided

vars == <<quota, conn, run, exec, events, listed, decided>>

-----------------------------------------------------------------------------
Status == {"none", "queued", "running", "paused", "completed", "failed", "cancelled"}

\* A lease is held, out of time, or none. "by" is the claim that gave the outcome.
Run == [status : Status, fence : Nat, lease : {"none", "live", "over"},
        message_ids : SUBSET Messages, by : Nat]
NewRun == [status |-> "none", fence |-> 0, lease |-> "none", message_ids |-> {}, by |-> 0]

Pc == {"idle", "acquire", "sync", "analyze", "blocked", "pause", "fail"}
Exec == [pc : Pc, run : Runs, fence : Nat, page : SUBSET Messages]
Idle == [pc |-> "idle", run |-> CHOOSE r \in Runs : TRUE, fence |-> 0, page |-> {}]
Lease == [run : Runs, fence : Nat, account : Accounts]

TypeOK ==
  /\ leases \in SUBSET Lease /\ stale \in SUBSET leases /\ used \in Nat
  /\ conn \in [Accounts -> {"usable", "stopped"}]
  /\ run \in [Runs -> Run]
  /\ exec \in [Workers -> Exec]
  /\ events \in 0 .. MaxEvents
  /\ listed \in [Runs -> SUBSET Messages]
  /\ decided \in [Runs -> Nat]

Init ==
  /\ QuotaInit
  /\ conn = [a \in Accounts |-> "usable"]
  /\ run = [r \in Runs |-> NewRun]
  /\ exec = [w \in Workers |-> Idle]
  /\ events = 0
  /\ listed = [r \in Runs |-> {}]
  /\ decided = [r \in Runs |-> 0]

Happens == events < MaxEvents /\ events' = events + 1

-----------------------------------------------------------------------------
(* transition_autonomy_run, and what may happen to a row. Each of these is  *)
(* one transaction on a row that is locked.                                 *)

Allowed(from, to) ==
  CASE from = "queued" -> to \in {"running", "paused", "cancelled"}
    [] from = "running" -> to \in {"queued", "completed", "failed", "paused", "cancelled"}
    [] from = "paused" -> to \in {"queued", "running", "cancelled"}
    [] OTHER -> FALSE

Moved(r, to) == [run[r] EXCEPT !.status = to, !.lease = "none"]

\* enqueue_autonomy_run: the request is stored once, by its replay key.
Enqueue(r) ==
  /\ run[r].status = "none" /\ conn[AccountOf[r]] = "usable"
  /\ run' = [run EXCEPT ![r].status = "queued"]
  /\ UNCHANGED <<quota, conn, exec, events, listed, decided>>

\* Pause, resume or cancel; resuming a run that is running puts it back too.
OwnerDecides(r, to) ==
  /\ to \in {"paused", "queued", "cancelled"} /\ Allowed(run[r].status, to)
  /\ Happens
  /\ run' = [run EXCEPT ![r] = Moved(r, to)]
  /\ decided' = [decided EXCEPT ![r] = run[r].fence]
  /\ UNCHANGED <<quota, conn, exec, listed>>

\* The lease of a run is out of time while its execution goes on, or after a crash.
AtWork(r) == \E w \in Workers : exec[w].pc # "idle" /\ exec[w].run = r
                                  /\ exec[w].fence = run[r].fence

LeaseRunsOut(r) ==
  /\ run[r].lease = "live"
  /\ run' = [run EXCEPT ![r].lease = "over"]
  /\ UNCHANGED <<quota, conn, exec, listed, decided>>

LeaseOutrun(r) == AtWork(r) /\ Happens /\ LeaseRunsOut(r)
LeaseAbandoned(r) == ~AtWork(r) /\ UNCHANGED events /\ LeaseRunsOut(r)

\* The authorization is lost, or the owner renews it.
ConnectionChanges(a) ==
  /\ Happens
  /\ conn' = [conn EXCEPT ![a] = IF @ = "usable" THEN "stopped" ELSE "usable"]
  /\ UNCHANGED <<quota, run, exec, listed, decided>>

-----------------------------------------------------------------------------
(* run_autonomy_job                                                         *)

Goto(w, pc) == exec' = [exec EXCEPT ![w].pc = pc]
Return(w) == exec' = [exec EXCEPT ![w] = Idle]

\* Mutation of Claimable: only what is queued is claimed.
ClaimableQueued(r) == run[r].status = "queued"

Claimable(r) == \/ run[r].status = "queued"
                \/ run[r].status = "running" /\ run[r].lease = "over"

\* Mutation of Fence: a claim that follows a resumption takes the fence over.
FenceKept(r) == IF run[r].fence = 0 THEN 1 ELSE run[r].fence

Fence(r) == run[r].fence + 1

\* claim_autonomy_run: a run whose lease is out of time is put back first.
Claim(w, r) ==
  /\ exec[w].pc = "idle" /\ Claimable(r)
  /\ run' = [run EXCEPT ![r].status = "running", ![r].lease = "live", ![r].fence = Fence(r)]
  /\ exec' = [exec EXCEPT ![w] = [Idle EXCEPT !.pc = "acquire", !.run = r, !.fence = Fence(r)]]
  /\ listed' = [listed EXCEPT ![r] = {}]
  /\ UNCHANGED <<quota, conn, events, decided>>

\* The quota lease of an execution
Held(w) == [run |-> exec[w].run, fence |-> exec[w].fence, account |-> AccountOf[exec[w].run]]
Usable(w) == conn[AccountOf[exec[w].run]] = "usable"

\* _release_quota swallows the failure of the port.
ReleaseBestEffort(w) ==
  \/ Release(Held(w)) /\ UNCHANGED events
  \/ Happens /\ UNCHANGED quota

\* sync_connection, up to the provider.
BeginSync(w) ==
  /\ exec[w].pc = "acquire"
  /\ IF ~Usable(w) THEN Goto(w, "blocked") /\ UNCHANGED quota
     ELSE \/ Acquire(Held(w)) /\ Goto(w, "sync")
          \/ Refuse(Held(w).account) /\ Goto(w, "fail")
  /\ UNCHANGED <<conn, run, events, listed, decided>>

\* The host gives a lease, and its answer is lost (HttpQuotaAdapter).
AcquireUnanswered(w) ==
  /\ exec[w].pc = "acquire" /\ Usable(w) /\ Happens
  /\ Acquire(Held(w))
  /\ Goto(w, "fail")
  /\ UNCHANGED <<conn, run, listed, decided>>

\* The rest of it: the connection is read once more, and the lease is given back
\* whatever happened. Then list_messages_for_connection.
EndSync(w) ==
  /\ exec[w].pc = "sync" /\ ReleaseBestEffort(w)
  /\ IF ~Usable(w) THEN Goto(w, "blocked") /\ UNCHANGED listed
     ELSE \E page \in SUBSET Messages :
            /\ exec' = [exec EXCEPT ![w].pc = "analyze", ![w].page = page]
            /\ listed' = IF exec[w].fence = run[exec[w].run].fence
                         THEN [listed EXCEPT ![exec[w].run] = page] ELSE listed
  /\ UNCHANGED <<conn, run, decided>>

\* The provider fails, and may have lost the authorization.
SyncFails(w) ==
  /\ exec[w].pc = "sync" /\ Happens
  /\ Release(Held(w))
  /\ conn' \in {conn, [conn EXCEPT ![Held(w).account] = "stopped"]}
  /\ Goto(w, "fail")
  /\ UNCHANGED <<run, listed, decided>>

\* Mutation of Detected: an injection is recorded, and the batch goes on.
DetectedLater(w) == FALSE

Detected(w) == exec[w].page \cap Injected # {}

\* analyze_message, of one message after the other, up to the first injection. It
\* does not ask for the status of the connection.
StopAtInjection(w) ==
  /\ exec[w].pc = "analyze" /\ Detected(w)
  /\ Goto(w, "pause")
  /\ UNCHANGED <<quota, conn, run, events, listed, decided>>

\* A message is gone meanwhile, or its body cannot be read.
AnalyzeFails(w) ==
  /\ exec[w].pc = "analyze" /\ exec[w].page # {} /\ Happens
  /\ Goto(w, "fail")
  /\ UNCHANGED <<quota, conn, run, listed, decided>>

\* AuthorizationError("connection_not_active"): the connection is read again.
ReadBlocked(w) ==
  /\ exec[w].pc = "blocked"
  /\ Goto(w, IF Usable(w) THEN "fail" ELSE "pause")
  /\ UNCHANGED <<quota, conn, run, events, listed, decided>>

\* Owner and fence of the row are still those of the execution. The lease may be
\* out of time.
Fenced(w) == run[exec[w].run].lease # "none" /\ run[exec[w].run].fence = exec[w].fence

\* complete_autonomy_run and the fenced pause_autonomy_run.
Ends(w, to, messages) ==
  LET r == exec[w].run
  IN /\ Fenced(w) /\ Allowed(run[r].status, to)
     /\ run' = [run EXCEPT ![r] = [Moved(r, to) EXCEPT !.message_ids = messages,
                                                       !.by = exec[w].fence]]

Refused(w, to) == ~(Fenced(w) /\ Allowed(run[exec[w].run].status, to))

\* An execution that may not complete its run tries to fail it, and leaves it alone
\* when that is refused too.
Complete(w) ==
  /\ exec[w].pc = "analyze" /\ ~Detected(w)
  /\ \/ Ends(w, "completed", exec[w].page) /\ Return(w)
     \/ Refused(w, "completed") /\ Goto(w, "fail") /\ UNCHANGED run
  /\ UNCHANGED <<quota, conn, events, listed, decided>>

Fail(w) ==
  /\ exec[w].pc = "fail"
  /\ \/ Ends(w, "failed", {})
     \/ Refused(w, "failed") /\ UNCHANGED run
  /\ Return(w)
  /\ UNCHANGED <<quota, conn, events, listed, decided>>

PauseRun(w) ==
  /\ exec[w].pc = "pause"
  /\ \/ Ends(w, "paused", run[exec[w].run].message_ids)
     \/ Refused(w, "paused") /\ UNCHANGED run
  /\ Return(w)
  /\ UNCHANGED <<quota, conn, events, listed, decided>>

\* The process dies, or cannot reach the database any more. Its leases remain.
Crash(w) ==
  /\ exec[w].pc # "idle" /\ Happens
  /\ Return(w)
  /\ UNCHANGED <<quota, conn, run, listed, decided>>

\* A quota lease, too, is past its time while its holder goes on, or after a crash.
HolderAtWork(l) == \E w \in Workers : exec[w].pc = "sync" /\ Held(w) = l

HolderOutrun(l) == HolderAtWork(l) /\ Happens /\ LeaseLapses(l)
HolderGone(l) == ~HolderAtWork(l) /\ UNCHANGED events /\ LeaseLapses(l)

QuotaMoves ==
  /\ \/ WindowMoves /\ UNCHANGED events
     \/ \E l \in leases : HolderOutrun(l) \/ HolderGone(l)
  /\ UNCHANGED <<conn, run, exec, listed, decided>>

Step(w) ==
  \/ BeginSync(w) \/ AcquireUnanswered(w) \/ EndSync(w) \/ SyncFails(w)
  \/ StopAtInjection(w) \/ AnalyzeFails(w)
  \/ ReadBlocked(w) \/ Complete(w) \/ Fail(w) \/ PauseRun(w)

Next ==
  \/ \E r \in Runs : \/ Enqueue(r) \/ LeaseOutrun(r) \/ LeaseAbandoned(r)
                     \/ \E to \in Status : OwnerDecides(r, to)
                     \/ \E w \in Workers : Claim(w, r)
  \/ \E a \in Accounts : ConnectionChanges(a)
  \/ \E w \in Workers : Step(w) \/ Crash(w)
  \/ QuotaMoves

\* A durable scheduler claims what may be claimed, calls end, and time passes.
Fairness ==
  /\ \A r \in Runs : WF_vars(\E w \in Workers : Claim(w, r)) /\ WF_vars(LeaseAbandoned(r))
  /\ \A w \in Workers : WF_vars(Step(w))

Spec == Init /\ [][Next]_vars /\ Fairness

-----------------------------------------------------------------------------
(* Properties                                                               *)

\* A run that completed or failed got its outcome from its last claim, and from one
\* made after the owner's last decision: no execution that was paused, resumed over,
\* cancelled or overtaken decides a run (complete_autonomy_run).
OutcomeIsOfLastClaim ==
  \A r \in Runs : run[r].status \in {"completed", "failed"} =>
                     run[r].by = run[r].fence /\ run[r].by > decided[r]

\* A completed run reports what its last claim listed, all of it and nothing else,
\* and no message with an injection is in it (run_claimed).
CompletedIsReviewed ==
  \A r \in Runs : run[r].status = "completed" =>
                     run[r].message_ids = listed[r] /\ run[r].message_ids \cap Injected = {}

\* A run that is queued or running ends, or is paused: crashes, lost leases and
\* refused quotas leave none behind.
RunEnds ==
  \A r \in Runs : run[r].status \in {"queued", "running"} ~>
                     run[r].status \notin {"queued", "running"}

================================================================================
