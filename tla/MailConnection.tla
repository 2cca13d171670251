--------------------------- MODULE MailConnection ---------------------------
(***************************************************************************)
(* One mailbox connection of a real provider, from authorisation to its    *)
(* tombstone: the calls of MailService that change its row (activate,      *)
(* reauthorize, refresh, narrow scopes, provider lifecycle, revoke and     *)
(* delete), with what revocation and deletion must take away: the host's   *)
(* credential, the provider's watch, stored messages, the objects of their *)
(* bodies and what was shared with downstream knowledge.                   *)
(*                                                                         *)
(* A call reads the row once and works from that copy. Every await of a    *)
(* repository, host or provider call after it is a step of its own.        *)
(***************************************************************************)
EXTENDS Naturals

CONSTANTS
  Calls,         \* calls, callbacks and synchronisations in flight
  Credentials,   \* credential references the host issues
  Tombstone,     \* the credential_ref of a deleted connection
  Messages,      \* messages of the mailbox, each with a knowledge candidate
  Watches,       \* provider subscription references
  NoWatch,       \* subscription_ref = None
  AtomicSaves,   \* save_connection checks and writes under one lock (memory),
                 \* or in two statements (PostgreSQL)
  Overlapping,   \* work on the mailbox overlaps its revocation and deletion
  Reactivates,   \* owners activate connections that are being deleted
  MaxRevision    \* bound: revision that changes other than deletion reach

ASSUME NullAssumption == Tombstone \notin Credentials /\ NoWatch \notin Watches
ASSUME SwitchAssumption ==
  AtomicSaves \in BOOLEAN /\ Overlapping \in BOOLEAN /\ Reactivates \in BOOLEAN
ASSUME BoundAssumption == MaxRevision \in Nat

VARIABLES
  conn,       \* the connections row
  sub,        \* the subscription part of the folder's sync_states row
  messages,   \* stored message projections
  objects,    \* bodies in the object store
  knowledge,  \* messages shared with downstream knowledge
  issued,     \* credentials the host issued
  revoked,    \* those it revoked
  watch,      \* the watch the provider keeps for this mailbox
  call,       \* local state of each call
  ended       \* history: credentials the connection was REVOKED with

rows == <<conn, sub, ended>>
data == <<messages, objects, knowledge>>
host == <<issued, revoked, watch>>
vars == <<rows, data, host, call>>

-----------------------------------------------------------------------------
Status == {"pending_authorization", "active", "degraded", "reauthorization_required",
           "revoked", "deleting", "deleted"}
Connection ==
  [status : Status \ {"deleted"}, rev : Nat, cred : Credentials]
    \cup [status : {"deleted"}, rev : Nat, cred : {Tombstone}]

\* A body, by its message and the call that put it; a message row names its own.
Bodies == Messages \X Calls
MessagesOf(bodies) == {b[1] : b \in bodies}

WatchRefs == Watches \cup {NoWatch}
Subscription == [saved : BOOLEAN, ref : WatchRefs, cancelled : BOOLEAN]
NoSubscription == [saved |-> FALSE, ref |-> NoWatch, cancelled |-> FALSE]

Kind == {"none", "change", "sync", "share", "ensure", "revoke", "delete"}
WorkStage == {"resolve", "page", "fetch", "store", "remove_body", "submit",
              "read_watch", "watch", "record_watch"}
EndStage == {"mark", "cancel", "unwatch", "record_cancel", "refs", "objects", "knowledge",
             "credential", "purge", "save"}
Stage == {"idle", "refresh"} \cup WorkStage \cup EndStage

Call == [pc : Stage, kind : Kind, seen : Connection, row : Connection, checked : BOOLEAN,
         ref : WatchRefs, expected : WatchRefs, refs : SUBSET Bodies]

Blank == [status |-> "deleted", rev |-> 0, cred |-> Tombstone]
NoCall == [pc |-> "idle", kind |-> "none", seen |-> Blank, row |-> Blank, checked |-> FALSE,
           ref |-> NoWatch, expected |-> NoWatch, refs |-> {}]

TypeOK ==
  /\ conn \in Connection
  /\ sub \in Subscription
  /\ messages \in SUBSET Bodies
  /\ \A b, d \in messages : b[1] = d[1] => b = d
  /\ objects \in SUBSET Bodies
  /\ knowledge \in SUBSET Messages
  /\ issued \in SUBSET Credentials
  /\ revoked \in SUBSET Credentials
  /\ watch \in WatchRefs
  /\ call \in [Calls -> Call]
  /\ ended \in SUBSET Credentials

\* create_connection for a real provider
Init ==
  /\ \E k \in Credentials :
       /\ conn = [status |-> "pending_authorization", rev |-> 1, cred |-> k]
       /\ issued = {k}
  /\ sub = NoSubscription
  /\ messages = {} /\ objects = {} /\ knowledge = {}
  /\ revoked = {} /\ watch = NoWatch
  /\ call = [c \in Calls |-> NoCall]
  /\ ended = {}

-----------------------------------------------------------------------------
(* Reading and saving the row.                                             *)

Started(kind, stage, row, refs) ==
  [pc |-> stage, kind |-> kind, seen |-> conn, row |-> row, checked |-> FALSE,
   ref |-> NoWatch, expected |-> NoWatch, refs |-> refs]

Start(c, kind, stage, row) ==
  /\ call[c].pc = "idle"
  /\ call' = [call EXCEPT ![c] = Started(kind, stage, row, {})]

\* replace(row, status=.., credential_ref=.., revision=row.revision + 1)
Replaced(row, status, cred) == [status |-> status, rev |-> row.rev + 1, cred |-> cred]
Changed(status, cred) == Replaced(conn, status, cred)

Goes(c, stage) == call' = [call EXCEPT ![c].pc = stage]

\* Mutation of RevisionFree: save_connection does not compare revisions.
RevisionIgnored(c) == TRUE

\* save_connection refuses a revision that the row already has.
RevisionFree(c) == conn.rev < call[c].row.rev

Saving(c) == call[c].pc \in {"mark", "save"}

\* PostgreSQL: the revision is selected, the row updated later.
CheckRevision(c) ==
  /\ ~AtomicSaves
  /\ Saving(c) /\ ~call[c].checked /\ RevisionFree(c)
  /\ call' = [call EXCEPT ![c].checked = TRUE]
  /\ UNCHANGED <<rows, data, host>>

MaySave(c) == IF AtomicSaves THEN RevisionFree(c) ELSE call[c].checked

\* The last step of every call that changes the row.
SaveConnection(c) ==
  /\ call[c].pc = "save" /\ MaySave(c)
  /\ conn' = call[c].row
  /\ ended' = ended \cup (IF call[c].row.status = "revoked" THEN {call[c].row.cred} ELSE {})
  /\ call' = [call EXCEPT ![c] = NoCall]
  /\ UNCHANGED <<sub, data, host>>

\* A port, the provider or save_connection refuses, or the process dies.
CallFails(c) ==
  /\ call[c].pc # "idle"
  /\ call' = [call EXCEPT ![c] = NoCall]
  /\ UNCHANGED <<rows, data, host>>

-----------------------------------------------------------------------------
(* Changes of the row by the owner, the host and the provider.             *)

\* activate_connection does not refuse DELETING; Reactivates says whether owners ask.
Activate(c) ==
  /\ conn.status \notin {"revoked", "deleted"}
  /\ conn.status = "deleting" => Reactivates
  /\ conn.rev < MaxRevision
  /\ Start(c, "change", "save", Changed("active", conn.cred))
  /\ UNCHANGED <<rows, data, host>>

\* The host exchanged an authorisation code for a new credential.
Reauthorize(c) ==
  /\ conn.status \notin {"deleting", "deleted"}
  /\ conn.rev < MaxRevision
  /\ \E k \in Credentials \ issued :
       /\ Start(c, "change", "save", Changed("active", k))
       /\ issued' = issued \cup {k}
  /\ UNCHANGED <<rows, data, revoked, watch>>

Refresh(c) ==
  /\ conn.status \notin {"revoked", "deleting", "deleted"}
  /\ conn.rev < MaxRevision
  /\ Start(c, "change", "refresh", conn)
  /\ UNCHANGED <<rows, data, host>>

\* The host rotates a credential it has not revoked, or the secret behind it.
HostRefreshes(c) ==
  /\ call[c].pc = "refresh" /\ call[c].seen.cred \notin revoked
  /\ \E k \in {call[c].seen.cred} \cup (Credentials \ issued) :
       /\ issued' = issued \cup {k}
       /\ call' = [call EXCEPT ![c].pc = "save",
                               ![c].row = Replaced(call[c].seen, "active", k)]
  /\ UNCHANGED <<rows, data, revoked, watch>>

UpdateScopes(c) ==
  /\ conn.status \notin {"deleting", "deleted"}
  /\ conn.rev < MaxRevision
  /\ Start(c, "change", "save", Changed(conn.status, conn.cred))
  /\ UNCHANGED <<rows, data, host>>

\* _apply_provider_lifecycle_event: an authorisation stop is never weakened.
ProviderLifecycle(c, s) ==
  /\ conn.status \in {"active", "degraded"} /\ s # conn.status
  /\ conn.rev < MaxRevision
  /\ Start(c, "change", "save", Changed(s, conn.cred))
  /\ UNCHANGED <<rows, data, host>>

-----------------------------------------------------------------------------
(* Work on the mailbox.                                                    *)

Working(c) == call[c].kind \in {"sync", "share", "ensure"}
Ending(c) == call[c].kind \in {"revoke", "delete"}
MayWork == Overlapping \/ \A c \in Calls : ~Ending(c)
MayEnd == Overlapping \/ \A c \in Calls : ~Working(c)

\* _sync_connection
Sync(c) ==
  /\ conn.status \in {"active", "degraded"} /\ MayWork
  /\ Start(c, "sync", "resolve", conn)
  /\ UNCHANGED <<rows, data, host>>

ResolveCredential(c) ==
  /\ call[c].pc = "resolve" /\ call[c].seen.cred \notin revoked
  /\ Goes(c, "page")
  /\ UNCHANGED <<rows, data, host>>

FetchPage(c) ==
  /\ call[c].pc = "page"
  /\ Goes(c, "fetch")
  /\ UNCHANGED <<rows, data, host>>

\* A provider failure is saved from the copy read when the sync began.
SyncFails(c, s) ==
  /\ call[c].pc = "page" /\ call[c].seen.status = "active"
  /\ call[c].seen.rev < MaxRevision
  /\ call' = [call EXCEPT ![c].pc = "save",
                          ![c].row = Replaced(call[c].seen, s, call[c].seen.cred)]
  /\ UNCHANGED <<rows, data, host>>

\* The body goes to the object store before its message is saved.
PutBody(c, m) ==
  /\ call[c].pc = "fetch" /\ <<m, c>> \notin messages
  /\ objects' = objects \cup {<<m, c>>}
  /\ call' = [call EXCEPT ![c].pc = "store", ![c].refs = {<<m, c>>}]
  /\ UNCHANGED <<rows, messages, knowledge, host>>

\* The body of a message that was already stored is not kept.
SaveMessage(c) ==
  /\ call[c].pc = "store"
  /\ LET duplicate == MessagesOf(call[c].refs) \subseteq MessagesOf(messages) IN
       /\ messages' = IF duplicate THEN messages ELSE messages \cup call[c].refs
       /\ Goes(c, IF duplicate THEN "remove_body" ELSE "fetch")
  /\ UNCHANGED <<rows, objects, knowledge, host>>

SaveMessageFails(c) ==
  /\ call[c].pc = "store"
  /\ objects' = objects \ call[c].refs
  /\ call' = [call EXCEPT ![c] = NoCall]
  /\ UNCHANGED <<rows, messages, knowledge, host>>

\* The feed says that a message was deleted; its candidates go with it.
RemoveMessage(c) ==
  /\ call[c].pc = "fetch"
  /\ \E b \in messages :
       /\ messages' = messages \ {b}
       /\ call' = [call EXCEPT ![c].pc = "remove_body", ![c].refs = {b}]
  /\ UNCHANGED <<rows, objects, knowledge, host>>

RemoveBody(c) ==
  /\ call[c].pc = "remove_body"
  /\ objects' = objects \ call[c].refs
  /\ Goes(c, "fetch")
  /\ UNCHANGED <<rows, messages, knowledge, host>>

\* apply_candidate reads a message and its body whatever the connection is.
ApplyCandidate(c) ==
  /\ MayWork
  /\ \E b \in messages \cap objects :
       /\ call[c].pc = "idle"
       /\ call' = [call EXCEPT ![c] = Started("share", "submit", conn, {b})]
  /\ UNCHANGED <<rows, data, host>>

SubmitKnowledge(c) ==
  /\ call[c].pc = "submit"
  /\ knowledge' = knowledge \cup MessagesOf(call[c].refs)
  /\ call' = [call EXCEPT ![c] = NoCall]
  /\ UNCHANGED <<rows, messages, objects, host>>

EnsureSubscription(c) ==
  /\ conn.status = "active" /\ MayWork
  /\ Start(c, "ensure", "read_watch", conn)
  /\ UNCHANGED <<rows, data, host>>

ReadSyncState(c) ==
  /\ call[c].pc = "read_watch"
  /\ call' = [call EXCEPT ![c].pc = "watch", ![c].expected = sub.ref]
  /\ UNCHANGED <<rows, data, host>>

\* The host renews its watch or makes a new one, never under the recorded
\* reference of one that ended; a mailbox has one.
HostWatches(c, r) ==
  /\ call[c].pc = "watch" /\ (r = watch \/ r # sub.ref)
  /\ watch' = r
  /\ call' = [call EXCEPT ![c].pc = "record_watch", ![c].ref = r]
  /\ UNCHANGED <<rows, data, issued, revoked>>

\* save_sync_state compares subscription references only.
SaveSyncState(c, cancelled) ==
  /\ sub.saved => sub.ref = call[c].expected
  /\ sub' = [saved |-> TRUE, ref |-> call[c].ref, cancelled |-> cancelled]

RecordWatch(c) ==
  /\ call[c].pc = "record_watch"
  /\ SaveSyncState(c, FALSE)
  /\ call' = [call EXCEPT ![c] = NoCall]
  /\ UNCHANGED <<conn, ended, data, host>>

\* The provider drops a watch that was not renewed.
WatchLapses ==
  /\ watch # NoWatch
  /\ watch' = NoWatch
  /\ UNCHANGED <<rows, data, issued, revoked, call>>

-----------------------------------------------------------------------------
(* Revocation and deletion.                                                *)

\* What follows each stage of revoke_connection and of delete_connection.
AfterInRevoke ==
  [refs |-> "knowledge", knowledge |-> "cancel", cancel |-> "credential", credential |-> "save"]
AfterInDelete ==
  [cancel |-> "refs", refs |-> "objects", objects |-> "credential",
   credential |-> "knowledge", knowledge |-> "purge"]
After(c, stage) ==
  IF call[c].kind = "revoke" THEN AfterInRevoke[stage] ELSE AfterInDelete[stage]

Revoke(c) ==
  /\ conn.status \in {"active", "degraded"} /\ MayEnd
  /\ conn.rev < MaxRevision
  /\ Start(c, "revoke", "refs", Changed("revoked", conn.cred))
  /\ UNCHANGED <<rows, data, host>>

\* A deletion starts by saving DELETING; a retry resumes from that row.
Delete(c) ==
  /\ conn.status # "deleted" /\ MayEnd
  /\ IF conn.status = "deleting"
     THEN Start(c, "delete", "cancel", conn)
     ELSE Start(c, "delete", "mark", Changed("deleting", conn.cred))
  /\ UNCHANGED <<rows, data, host>>

MarkDeleting(c) ==
  /\ call[c].pc = "mark" /\ MaySave(c)
  /\ conn' = call[c].row
  /\ call' = [call EXCEPT ![c].pc = "cancel", ![c].checked = FALSE]
  /\ UNCHANGED <<sub, ended, data, host>>

\* Mutation of Cancellable: the coordinator forgets the status of a resumed deletion.
CancellableUnlessDeleting(c) == call[c].seen.status \in {"active", "revoked"}

\* The coordinator looks at the status that the call first read.
Cancellable(c) == call[c].seen.status \in {"active", "revoked", "deleting"}

\* Mutation of CancelSubscriptions: what may not be cancelled is skipped.
CancelSubscriptionsIfAllowed(c) ==
  /\ call[c].pc = "cancel"
  /\ IF sub.ref = NoWatch \/ sub.cancelled \/ ~Cancellable(c)
     THEN Goes(c, After(c, "cancel"))
     ELSE call' = [call EXCEPT ![c].pc = "unwatch", ![c].ref = sub.ref, ![c].expected = sub.ref]
  /\ UNCHANGED <<rows, data, host>>

CancelSubscriptions(c) ==
  /\ call[c].pc = "cancel"
  /\ IF sub.ref = NoWatch \/ sub.cancelled
     THEN Goes(c, After(c, "cancel"))
     ELSE /\ Cancellable(c)
          /\ call' = [call EXCEPT ![c].pc = "unwatch", ![c].ref = sub.ref,
                                  ![c].expected = sub.ref]
  /\ UNCHANGED <<rows, data, host>>

HostCancelsWatch(c) ==
  /\ call[c].pc = "unwatch"
  /\ watch' = IF watch = call[c].ref THEN NoWatch ELSE watch
  /\ Goes(c, "record_cancel")
  /\ UNCHANGED <<rows, data, issued, revoked>>

RecordCancel(c) ==
  /\ call[c].pc = "record_cancel"
  /\ SaveSyncState(c, TRUE)
  /\ Goes(c, After(c, "cancel"))
  /\ UNCHANGED <<conn, ended, data, host>>

ListCleanupRefs(c) ==
  /\ call[c].pc = "refs"
  /\ call' = [call EXCEPT ![c].pc = After(c, "refs"), ![c].refs = messages]
  /\ UNCHANGED <<rows, data, host>>

DeleteObject(c) ==
  /\ call[c].pc = "objects"
  /\ \E b \in call[c].refs \cap objects : objects' = objects \ {b}
  /\ UNCHANGED <<rows, messages, knowledge, host, call>>

\* Mutation of ObjectsDeleted: a failed deletion of an object is ignored.
ObjectsSkipped(c) ==
  /\ call[c].pc = "objects"
  /\ Goes(c, After(c, "objects"))
  /\ UNCHANGED <<rows, data, host>>

ObjectsDeleted(c) ==
  /\ call[c].pc = "objects" /\ call[c].refs \cap objects = {}
  /\ Goes(c, After(c, "objects"))
  /\ UNCHANGED <<rows, data, host>>

\* A deletion revokes the credential unless the row it read was REVOKED.
MustRevoke(c) == call[c].kind = "revoke" \/ call[c].seen.status # "revoked"

RevokeCredential(c) ==
  /\ call[c].pc = "credential"
  /\ revoked' = revoked \cup (IF MustRevoke(c) THEN {call[c].seen.cred} ELSE {})
  /\ Goes(c, After(c, "credential"))
  /\ UNCHANGED <<rows, data, issued, watch>>

RevokeKnowledge(c) ==
  /\ call[c].pc = "knowledge"
  /\ knowledge' = knowledge \ MessagesOf(call[c].refs)
  /\ Goes(c, After(c, "knowledge"))
  /\ UNCHANGED <<rows, messages, objects, host>>

\* delete_connection_data, and the tombstone to be saved
PurgeData(c) ==
  /\ call[c].pc = "purge"
  /\ messages' = {}
  /\ sub' = NoSubscription
  /\ call' = [call EXCEPT ![c].pc = "save",
                          ![c].row = Replaced(call[c].row, "deleted", Tombstone)]
  /\ UNCHANGED <<conn, ended, objects, knowledge, host>>

-----------------------------------------------------------------------------
Changes(c) ==
  \/ Activate(c) \/ Reauthorize(c) \/ Refresh(c) \/ HostRefreshes(c) \/ UpdateScopes(c)
  \/ \E s \in {"degraded", "reauthorization_required"} : ProviderLifecycle(c, s) \/ SyncFails(c, s)

Works(c) ==
  \/ Sync(c) \/ ResolveCredential(c) \/ FetchPage(c) \/ SaveMessage(c) \/ SaveMessageFails(c)
  \/ RemoveMessage(c) \/ RemoveBody(c) \/ ApplyCandidate(c) \/ SubmitKnowledge(c)
  \/ EnsureSubscription(c) \/ ReadSyncState(c) \/ RecordWatch(c)
  \/ \E m \in Messages : PutBody(c, m)
  \/ \E r \in Watches : HostWatches(c, r)

EndsFurther(c) ==
  \/ MarkDeleting(c) \/ CancelSubscriptions(c) \/ HostCancelsWatch(c) \/ RecordCancel(c)
  \/ ListCleanupRefs(c) \/ DeleteObject(c) \/ ObjectsDeleted(c) \/ RevokeCredential(c)
  \/ RevokeKnowledge(c) \/ PurgeData(c)

CallStep(c) ==
  \/ Changes(c) \/ Works(c) \/ Revoke(c) \/ Delete(c) \/ EndsFurther(c)
  \/ CheckRevision(c) \/ SaveConnection(c) \/ CallFails(c)

Next == (\E c \in Calls : CallStep(c)) \/ WatchLapses

Spec == Init /\ [][Next]_vars

\* Every await of a deletion answers or times out, and work on the mailbox comes
\* to its end. No call is made by itself: who asks again is left to the property.
Deleting(c) == call[c].kind = "delete"
Proceeds(c) == Deleting(c) /\ (EndsFurther(c) \/ CheckRevision(c) \/ SaveConnection(c))
FairSpec ==
  /\ Spec
  /\ \A c \in Calls : WF_vars(Proceeds(c) \/ (Deleting(c) /\ CallFails(c)))
  /\ \A c \in Calls : WF_vars(Working(c) /\ CallFails(c))

-----------------------------------------------------------------------------
(* Properties.                                                             *)

Becomes(status) == conn.status # status /\ conn'.status = status

\* However calls interleave on stale copies of the row, a deleted connection
\* keeps its tombstone, one being deleted is only deleted, and a revoked one
\* opens again only under a credential of a new authorisation
\* (save_connection, _apply_provider_lifecycle_event, delete_connection).
NotReopened ==
  [][/\ conn.status = "deleted" => conn' = conn
     /\ conn.status = "deleting" => conn'.status \in {"deleting", "deleted"}
     /\ conn.status = "revoked" => \/ conn'.status \in {"revoked", "deleting"}
                                   \/ conn'.status = "active" /\ conn'.cred \notin ended]_vars

\* The credential that the row names when it says REVOKED or DELETED can no
\* longer be used, whatever happened to the row while the host was awaited
\* (_revoke_connection_credential, save_connection).
RevokedBeforeEnd ==
  [][Becomes("revoked") \/ Becomes("deleted") => conn.cred \in revoked]_vars

\* delete_connection_data removes a message only when its body is gone and
\* downstream knowledge has let go of it, and a subscription only when the
\* provider no longer keeps its watch: afterwards nothing refers to them.
PurgeIsLast ==
  [][(\E c \in Calls : PurgeData(c)) =>
       /\ messages \cap objects = {}
       /\ MessagesOf(messages) \cap knowledge = {}
       /\ sub.ref = NoWatch \/ watch # sub.ref]_vars

\* A revoked connection has no recorded subscription whose watch still
\* delivers notifications (revoke_connection, ensure_provider_subscription).
RevokedIsSilent ==
  conn.status = "revoked" => sub.ref = NoWatch \/ watch # sub.ref

\* A deletion that has begun ends, whatever else works on the mailbox meanwhile,
\* unless it is no longer asked for or a port that would have let it pass fails
\* for ever; over PostgreSQL a stale copy may take its place (delete_connection).
DeletionEnds ==
  \/ conn.status = "deleting" ~>
       conn.status = "deleted" \/ (~AtomicSaves /\ conn.status # "deleting")
  \/ <>[](\A c \in Calls : ~Deleting(c))
  \/ []<><<\E c \in Calls : CallFails(c) /\ ENABLED Proceeds(c)>>_vars
=============================================================================
