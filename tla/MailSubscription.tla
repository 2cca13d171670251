-------------------------- MODULE MailSubscription --------------------------
(***************************************************************************)
(* Provider notifications of one folder: the sync-state row that           *)
(* MailSubscriptionCoordinator, record_provider_notification and           *)
(* commit_cursor share, the receipts and jobs of the callback endpoint     *)
(* (receive_provider_notification, replay_webhook_receipt) and the         *)
(* synchronisations that follow.                                           *)
(*                                                                         *)
(* A call reads the row, perhaps awaits the host, and saves a copy of what *)
(* it read; save_sync_state compares nothing but the subscription's        *)
(* reference. Time is the number of changes in the mailbox; references are *)
(* numbered in the order the provider gives them out.                      *)
(***************************************************************************)
EXTENDS Integers, FiniteSets

CONSTANTS
  Callbacks,    \* concurrent deliveries of notifications
  Schedulers,   \* API calls and scheduler units of the coordinator
  Workers,      \* synchronisations
  GraphIds,     \* notifications are named as parse_graph_change_notifications does
  MaxRefs,      \* bound: subscriptions the provider gives out
  MaxChanges,   \* bound: changes in the mailbox
  MaxRevision,  \* bound: revisions of the connection
  MaxEvents     \* bound: notifications, subscriptions, expiries and revisions together

Calls == Callbacks \cup Schedulers \cup Workers

ASSUME SwitchAssumption == GraphIds \in BOOLEAN
ASSUME BoundAssumption == MaxRefs \in Nat /\ MaxChanges \in Nat /\ MaxRevision \in Nat
                            /\ MaxEvents \in Nat

VARIABLES
  overlapping,  \* chosen once: may calls hold copies of the row side by side?
  conn,         \* status and revision of the connection
  row,          \* the sync-state row of the folder
  watch, given, \* the provider's live subscription, and how many it has given out
  low,          \* the newest subscription whose lease is in the renewal window, or past it
  changes,      \* how often the mailbox has changed
  sent,         \* notifications of the provider, each delivered any number of times
  receipts,     \* webhook_receipts, by notification id
  queue,        \* sync jobs still to run, by the notification they are about
  alarms,       \* notifications whose route or job is recorded as failed, and (history)
                \* those whose handler died
  applied,      \* changes whose projections are stored
  call,         \* local state of each call
  dropped       \* history: the last reference given up by the owner

provider == <<watch, given, low, changes, sent>>
inbox == <<receipts, queue, alarms>>
vars == <<overlapping, conn, row, provider, inbox, applied, call, dropped>>

-----------------------------------------------------------------------------
\* RENEWAL_REQUIRED is told from ACTIVE by its expiry, EXPIRED and FAILED by nothing.
SubStatus == {"none", "active", "failed", "cancelled"}
Usable == {"active", "degraded"}

Connection == [status : Usable \cup {"reauthorization_required"}, rev : 0 .. MaxRevision]
NewConnection == [status |-> "active", rev |-> 0]

\* No subscription is reference 0.
Ref == 0 .. MaxRefs
Time == 0 .. MaxChanges
SyncState == [ref : Ref, status : SubStatus, expiry : {"lease", "now"},
              cursor : Time, mark : Time]
NewState == [ref |-> 0, status |-> "none", expiry |-> "lease", cursor |-> 0, mark |-> 0]

Note == [kind : {"changed", "missed", "removed", "reauthorize"}, ref : Ref, at : Time]
NoNote == [kind |-> "changed", ref |-> 0, at |-> 0]

CallKind == {"none", "notify", "ensure", "renew", "mark", "cancel", "sync"}
Holding == {"save_notified", "save_renewal", "host", "record", "save_failed", "unwatch",
            "save_cancelled"}
Pc == Holding \cup {"idle", "read_renewal", "read_conn", "save_conn", "enqueue",
                    "read_lease", "read_failed", "commit"}

Call == [kind : CallKind, pc : Pc, seen : SyncState, note : Note, at : Time,
         rev : 0 .. MaxRevision, ref : Ref, job : SUBSET Note]
Idle == [kind |-> "none", pc |-> "idle", seen |-> NewState, note |-> NoNote, at |-> 0,
         rev |-> 0, ref |-> 0, job |-> {}]

TypeOK ==
  /\ overlapping \in BOOLEAN
  /\ conn \in Connection /\ row \in SyncState
  /\ watch \in Ref /\ given \in Ref /\ low \in Ref
  /\ changes \in Time /\ sent \in SUBSET Note
  /\ receipts \in SUBSET Note /\ queue \in SUBSET Note
  /\ alarms \in SUBSET Note
  /\ applied \in SUBSET Time
  /\ call \in [Calls -> Call]
  /\ dropped \in Ref

Init ==
  /\ overlapping \in BOOLEAN
  /\ conn = NewConnection /\ row = NewState
  /\ watch = 0 /\ given = 0 /\ low = 0 /\ changes = 0 /\ sent = {}
  /\ receipts = {} /\ queue = {} /\ alarms = {}
  /\ applied = {}
  /\ call = [c \in Calls |-> Idle]
  /\ dropped = 0

\* The bound on what may still happen.
Unbounded == Cardinality(sent) + given + low + conn.rev < MaxEvents

-----------------------------------------------------------------------------
(* The provider, the clock and the owner.                                  *)

Notified(kind, at) ==
  /\ Unbounded
  /\ sent' = sent \cup {[kind |-> kind, ref |-> watch, at |-> at]}

\* A change is notified to a live subscription, or the provider gives up and
\* says that it missed some.
MailboxChanges ==
  /\ changes < MaxChanges
  /\ changes' = changes + 1
  /\ IF watch = 0 THEN UNCHANGED sent
     ELSE \E kind \in {"changed", "missed"} : Notified(kind, changes + 1)
  /\ UNCHANGED <<overlapping, conn, row, watch, given, low, inbox, applied, call, dropped>>

ProviderRemovesWatch ==
  /\ watch # 0
  /\ watch' = 0
  /\ Notified("removed", changes)
  /\ UNCHANGED <<overlapping, conn, row, given, low, changes, inbox, applied, call, dropped>>

ProviderAsksReauthorization ==
  /\ watch # 0
  /\ Notified("reauthorize", changes)
  /\ UNCHANGED <<overlapping, conn, row, watch, given, low, changes, inbox, applied, call, dropped>>

\* A lease comes into the renewal window, and may then run out. It outlasts the
\* call that takes it (_assert_lease), and those given out before it run out first.
LeaseRunsLow(r) ==
  /\ r \in low + 1 .. given /\ Unbounded
  /\ \A c \in Calls : call[c].pc = "record" => call[c].ref > r
  /\ low' = r
  /\ UNCHANGED <<overlapping, conn, row, watch, given, changes, sent, inbox, applied, call,
                 dropped>>

WatchLapses ==
  /\ watch \in 1 .. low
  /\ watch' = 0
  /\ UNCHANGED <<overlapping, conn, row, given, low, changes, sent, inbox, applied, call,
                 dropped>>

\* activate_connection, reauthorize_connection or refresh_connection.
OwnerReactivates ==
  /\ conn.status # "active" /\ conn.rev < MaxRevision /\ Unbounded
  /\ conn' = [status |-> "active", rev |-> conn.rev + 1]
  /\ UNCHANGED <<overlapping, row, provider, inbox, applied, call, dropped>>

-----------------------------------------------------------------------------
(* Steps of a call.                                                        *)

\* Without overlap, no call touches the row between a read and a write of another.
RowIsFree(c) == overlapping \/ \A d \in Calls \ {c} : call[d].pc \notin Holding

\* get_sync_state at the start of a call, and later.
Start(c, kind, pc) ==
  /\ call[c].pc = "idle" /\ RowIsFree(c)
  /\ call' = [call EXCEPT ![c] = [Idle EXCEPT !.kind = kind, !.pc = pc, !.seen = row]]

Reread(c, pc) ==
  /\ RowIsFree(c)
  /\ call' = [call EXCEPT ![c].pc = pc, ![c].seen = row]

Goto(c, pc) == call' = [call EXCEPT ![c].pc = pc, ![c].seen = NewState, ![c].at = 0]
Return(c) == call' = [call EXCEPT ![c] = Idle]

\* save_sync_state: the row still names the subscription the call has read.
RefUnchanged(c) == row.ref = call[c].seen.ref

-----------------------------------------------------------------------------
(* The callback endpoint.                                                  *)

\* notification_id. Pub/Sub numbers its messages. A Graph notification is named by
\* what it is about: every change of one message alike (the model has one message),
\* and every lifecycle event of one subscription alike.
Identity(n) ==
  IF ~GraphIds THEN n
  ELSE [kind |-> IF n.kind = "changed" THEN "changed" ELSE "missed", ref |-> n.ref, at |-> 0]

\* The connection is usable (DEGRADED is), and the notification is of the recorded
\* subscription, which is live.
Recordable(n) == conn.status \in Usable /\ row.ref = n.ref /\ row.status = "active"

\* save_webhook_receipt inserts, or answers that it found one.
SaveReceipt(n) ==
  /\ Identity(n) \notin receipts
  /\ receipts' = receipts \cup {Identity(n)}

\* The receipt is stored first (a delivery that finds one is answered as a
\* duplicate, and changes nothing); then the connection and the row are read. The
\* time of receipt was taken before.
ReceiveNotification(c, n) ==
  /\ n \in sent
  /\ SaveReceipt(n)
  /\ IF Recordable(n)
     THEN /\ call[c].pc = "idle" /\ RowIsFree(c)
          /\ \E at \in n.at .. changes :
               call' = [call EXCEPT ![c] = [Idle EXCEPT !.kind = "notify", !.pc = "save_notified",
                                                 !.note = n, !.seen = row, !.at = at]]
          /\ UNCHANGED alarms
     ELSE alarms' = alarms \cup {n} /\ UNCHANGED call
  /\ UNCHANGED <<overlapping, conn, row, provider, queue, applied, dropped>>

\* except Exception: the failure is audited and the callback answered.
RouteFails(c) ==
  /\ alarms' = alarms \cup {call[c].note}
  /\ Return(c)
  /\ UNCHANGED <<overlapping, conn, row, provider, receipts, queue, applied, dropped>>

AfterRecord(c) ==
  CASE call[c].note.kind \in {"removed", "reauthorize"} -> "read_renewal"
    [] call[c].note.kind = "missed" -> "read_conn"
    [] OTHER -> "enqueue"

LaterOf(a, b) == IF a > b THEN a ELSE b

\* Mutation of Recorded: the watermark is the time of this notification.
RecordedAsReceived(c) ==
  [call[c].seen EXCEPT !.status = "active", !.mark = call[c].at]

\* Mutation of Recorded: the row takes over the cursor hint of the notification.
RecordedWithHint(c) ==
  [call[c].seen EXCEPT !.status = "active", !.mark = LaterOf(call[c].at, call[c].seen.mark),
                       !.cursor = LaterOf(call[c].note.at, call[c].seen.cursor)]

Recorded(c) ==
  [call[c].seen EXCEPT !.status = "active", !.mark = LaterOf(call[c].at, call[c].seen.mark)]

RecordNotification(c) ==
  /\ call[c].pc = "save_notified"
  /\ IF RefUnchanged(c)
     THEN /\ row' = Recorded(c)
          /\ Goto(c, AfterRecord(c))
          /\ UNCHANGED <<overlapping, conn, provider, inbox, applied, dropped>>
     ELSE RouteFails(c)

\* mark_renewal_required reads the row once more.
ReadForRenewal(c) ==
  /\ call[c].pc = "read_renewal"
  /\ Reread(c, "save_renewal")
  /\ UNCHANGED <<overlapping, conn, row, provider, inbox, applied, dropped>>

\* Mutation of RenewalRequired: the provider's expiry stands.
RenewalAtExpiry(c) == call[c].seen

\* It does not look whether the subscription is still active.
RenewalRequired(c) == [call[c].seen EXCEPT !.status = "active", !.expiry = "now"]

MarkRenewalRequired(c) ==
  /\ call[c].pc = "save_renewal"
  /\ IF RefUnchanged(c)
     THEN /\ row' = RenewalRequired(c)
          /\ Goto(c, "read_conn")
          /\ UNCHANGED <<overlapping, conn, provider, inbox, applied, dropped>>
     ELSE RouteFails(c)

\* _apply_provider_lifecycle_event: an authorization stop is never weakened.
StatusAfter(c) ==
  IF call[c].note.kind = "reauthorize" \/ conn.status = "reauthorization_required"
  THEN "reauthorization_required" ELSE "degraded"

ReadConnection(c) ==
  /\ call[c].pc = "read_conn"
  /\ call' = [call EXCEPT ![c].rev = conn.rev,
                          ![c].pc = IF conn.status = StatusAfter(c) THEN "enqueue" ELSE "save_conn"]
  /\ UNCHANGED <<overlapping, conn, row, provider, inbox, applied, dropped>>

ApplyLifecycle(c) ==
  /\ call[c].pc = "save_conn"
  /\ IF conn.rev = call[c].rev
     THEN /\ conn.rev < MaxRevision /\ Unbounded
          /\ conn' = [status |-> StatusAfter(c), rev |-> conn.rev + 1]
          /\ Goto(c, "enqueue")
          /\ UNCHANGED <<overlapping, row, provider, inbox, applied, dropped>>
     ELSE RouteFails(c)

\* Mutation of Refused: an unusable connection is answered without a trace.
NeverRefused(c) == FALSE

\* enqueue_sync_job refuses a connection that is not usable.
Refused(c) == conn.status \notin Usable

\* The end of the route: a sync job, but none after "reauthorize", which the
\* owner has to answer.
EnqueueSync(c) ==
  /\ call[c].pc = "enqueue"
  /\ IF call[c].note.kind # "reauthorize" /\ Refused(c)
     THEN RouteFails(c)
     ELSE /\ queue' = IF call[c].note.kind = "reauthorize" \/ conn.status \notin Usable THEN queue
                      ELSE queue \cup {call[c].note}
          /\ Return(c)
          /\ UNCHANGED <<overlapping, conn, row, provider, receipts, alarms, applied, dropped>>

\* replay_webhook_receipt: a receipt is turned into one more job. (For a receipt
\* that needs none, this does what SyncDirectly does.)
ReplayReceipt(n) ==
  /\ n \in alarms /\ conn.status \in Usable
  /\ queue' = queue \cup {n}
  /\ UNCHANGED <<overlapping, conn, row, provider, receipts, alarms, applied, call, dropped>>

-----------------------------------------------------------------------------
(* The coordinator's own calls. All of them need an active connection:     *)
(* ensure and mark_failed refuse a degraded one.                           *)

Quiet == UNCHANGED <<overlapping, conn, provider, inbox, applied, dropped>>

EnsureSubscription(c) ==
  conn.status = "active" /\ Start(c, "ensure", "host") /\ UNCHANGED row /\ Quiet

Due == row.expiry = "now" \/ row.ref <= low

\* renew_if_due looks at the row, and has ensure read it again.
RenewIfDue(c) ==
  /\ conn.status = "active"
  /\ row.ref # 0 /\ row.status # "cancelled" /\ Due
  /\ call[c].pc = "idle"
  /\ call' = [call EXCEPT ![c] = [Idle EXCEPT !.kind = "renew", !.pc = "read_lease"]]
  /\ UNCHANGED row /\ Quiet

ReadLease(c) ==
  call[c].pc = "read_lease" /\ Reread(c, "host") /\ UNCHANGED row /\ Quiet

\* The host renews the live subscription, or makes one.
HostWatches(c) ==
  /\ call[c].pc = "host" /\ Unbounded
  /\ \E r \in 1 .. MaxRefs :
       /\ r = IF watch # 0 THEN watch ELSE given + 1
       /\ watch' = r /\ given' = LaterOf(given, r) /\ low' = IF low < r THEN low ELSE r - 1
       /\ call' = [call EXCEPT ![c].pc = "record", ![c].ref = r]
  /\ UNCHANGED <<overlapping, conn, row, changes, sent, inbox, applied, dropped>>

\* A failed renewal is recorded, best effort; a failed ensure only raises.
Fails(c) ==
  IF call[c].kind = "renew" THEN Goto(c, "read_failed") ELSE Return(c)

HostFails(c) ==
  call[c].pc = "host" /\ Fails(c) /\ UNCHANGED row /\ Quiet

\* _state_from_lease: cursor and watermark as the call has read them.
Leased(c) ==
  [call[c].seen EXCEPT !.ref = call[c].ref, !.status = "active", !.expiry = "lease"]

RecordLease(c) ==
  /\ call[c].pc = "record"
  /\ IF RefUnchanged(c) THEN row' = Leased(c) /\ Return(c)
     ELSE Fails(c) /\ UNCHANGED row
  /\ Quiet

\* mark_expired and mark_failed, of any recorded subscription
MarkSubscription(c) ==
  /\ conn.status = "active" /\ row.ref # 0
  /\ Start(c, "mark", "save_failed")
  /\ UNCHANGED row /\ Quiet

ReadFailedRenewal(c) ==
  /\ call[c].pc = "read_failed"
  /\ IF row.ref = 0 THEN Return(c) ELSE Reread(c, "save_failed")
  /\ UNCHANGED row /\ Quiet

SaveFailed(c) ==
  /\ call[c].pc = "save_failed"
  /\ row' = IF RefUnchanged(c) THEN [call[c].seen EXCEPT !.status = "failed"] ELSE row
  /\ Return(c)
  /\ Quiet

CancelSubscription(c) ==
  /\ conn.status = "active" /\ row.ref # 0 /\ row.status # "cancelled"
  /\ Start(c, "cancel", "unwatch")
  /\ UNCHANGED row /\ Quiet

HostCancels(c) ==
  /\ call[c].pc = "unwatch"
  /\ watch' = IF watch = call[c].seen.ref THEN 0 ELSE watch
  /\ dropped' = call[c].seen.ref
  /\ call' = [call EXCEPT ![c].pc = "save_cancelled"]
  /\ UNCHANGED <<overlapping, conn, row, given, low, changes, sent, inbox, applied>>

SaveCancelled(c) ==
  /\ call[c].pc = "save_cancelled"
  /\ row' = IF RefUnchanged(c) THEN [call[c].seen EXCEPT !.status = "cancelled"] ELSE row
  /\ Return(c)
  /\ Quiet

-----------------------------------------------------------------------------
(* Synchronisations: module SyncJob in two steps. They run a queued job     *)
(* (run_sync_job) or none (sync_connection).                                *)

Taken == {{n} : n \in queue} \cup {{}}

\* What has happened since the cursor.
Page(from) == from + 1 .. changes

\* The cursor is read, the provider gives a page, and its messages are stored.
ApplyPage(c, taken) ==
  /\ call[c].pc = "idle" /\ conn.status \in Usable
  /\ applied' = applied \cup Page(row.cursor)
  /\ queue' = queue \ taken
  /\ call' = [call EXCEPT ![c] =
                [Idle EXCEPT !.kind = "sync", !.pc = "commit", !.job = taken, !.at = changes,
                             !.seen = [NewState EXCEPT !.cursor = row.cursor]]]
  /\ UNCHANGED <<overlapping, conn, row, provider, receipts, alarms, dropped>>

\* commit_cursor writes the cursor and leaves the subscription alone. A job that
\* loses the comparison is over, and failed.
CommitCursor(c) ==
  /\ call[c].pc = "commit" /\ RowIsFree(c)
  /\ IF row.cursor = call[c].seen.cursor
     THEN row' = [row EXCEPT !.cursor = call[c].at] /\ UNCHANGED alarms
     ELSE alarms' = alarms \cup call[c].job /\ UNCHANGED row
  /\ Return(c)
  /\ UNCHANGED <<overlapping, conn, provider, receipts, queue, applied, dropped>>

\* The connection is not usable, or the provider refuses, and an active connection
\* is marked.
SyncFails(taken) ==
  /\ alarms' = alarms \cup taken /\ queue' = queue \ taken
  /\ \/ UNCHANGED conn
     \/ /\ conn.status = "active" /\ conn.rev < MaxRevision /\ Unbounded
        /\ \E s \in {"degraded", "reauthorization_required"} :
             conn' = [status |-> s, rev |-> conn.rev + 1]
  /\ UNCHANGED <<overlapping, row, provider, receipts, applied, call, dropped>>

-----------------------------------------------------------------------------
\* A process dies. A job's lease runs out and it is claimed again; a callback's
\* receipt makes every redelivery a duplicate.
Crash(c) ==
  /\ call[c].pc # "idle"
  /\ queue' = queue \cup call[c].job
  /\ alarms' = IF call[c].kind = "notify" THEN alarms \cup {call[c].note} ELSE alarms
  /\ Return(c)
  /\ UNCHANGED <<overlapping, conn, row, provider, receipts, applied, dropped>>

CallbackStep(c) ==
  \/ RecordNotification(c)
  \/ ReadForRenewal(c) \/ MarkRenewalRequired(c)
  \/ ReadConnection(c) \/ ApplyLifecycle(c) \/ EnqueueSync(c)
  \/ \E n \in sent : ReceiveNotification(c, n)

CoordinatorStep(c) ==
  \/ EnsureSubscription(c) \/ RenewIfDue(c) \/ ReadLease(c)
  \/ HostWatches(c) \/ HostFails(c) \/ RecordLease(c)
  \/ MarkSubscription(c) \/ ReadFailedRenewal(c) \/ SaveFailed(c)
  \/ CancelSubscription(c) \/ HostCancels(c) \/ SaveCancelled(c)

SyncStep(c) == CommitCursor(c) \/ \E taken \in Taken : ApplyPage(c, taken)

Next ==
  \/ \E c \in Callbacks : CallbackStep(c)
  \/ \E c \in Schedulers : CoordinatorStep(c)
  \/ \E c \in Workers : SyncStep(c)
  \/ \E c \in Calls : Crash(c)
  \/ \E taken \in Taken : SyncFails(taken)
  \/ \E n \in sent : ReplayReceipt(n)
  \/ MailboxChanges \/ ProviderRemovesWatch \/ ProviderAsksReauthorization
  \/ WatchLapses \/ OwnerReactivates \/ \E r \in 1 .. given : LeaseRunsLow(r)

Spec == Init /\ [][Next]_vars

-----------------------------------------------------------------------------
(* Properties.                                                             *)

\* Everything behind the cursor is stored, though calls write back a cursor they
\* read long ago (Recorded, Leased, ...): such a cursor was true once.
NothingSkipped == 1 .. row.cursor \subseteq applied

\* Every further delivery of the notification is answered as a duplicate.
Received(n) == Identity(n) \in receipts
AtWork(n) == \E c \in Calls : call[c].kind = "notify" /\ call[c].note = n
JobPending(n) == n \in queue \/ \E c \in Calls : n \in call[c].job

\* A notification that the provider need not send again is not forgotten: the
\* change it is about is stored, or its job, its handler or a recorded failure
\* answers for it. Only the death of its handler loses it, as the receipt is
\* saved first (receive_provider_notification).
NotificationAccounted ==
  \A n \in sent :
    Received(n) /\ n.kind # "reauthorize" =>
      1 .. n.at \subseteq applied \/ AtWork(n) \/ JobPending(n) \/ n \in alarms

\* A subscription that was replaced does not come back, whoever still works on the
\* one before (the comparison in save_sync_state).
ReferenceOnlyAdvances == [][row.ref <= row'.ref]_row

\* The watermark does not go back (record_notification: "must not move the
\* watermark backwards"), nor does the cursor, where no call writes between
\* another's read and write.
ProgressStands ==
  [][~overlapping => row.mark <= row'.mark /\ row.cursor <= row'.cursor]_row

\* A folder shown as watched, and not due for renewal, is watched: the provider's
\* word that it is not is still on its way or recorded as failed, or the owner's
\* cancellation died half way. Where the row's calls do not overlap.
ActiveIsWatched ==
  ~overlapping /\ row.status = "active" /\ ~Due =>
    \/ row.ref = watch \/ row.ref = dropped
    \/ \E n \in sent :
         /\ n.kind = "removed" /\ n.ref = row.ref
         /\ ~Received(n) \/ AtWork(n) \/ n \in alarms
=============================================================================
