--------------------------- MODULE MailAuthorization ---------------------------
(***************************************************************************)
(* The authorisation of a mailbox: OAuth flows, and the calls of MailHub   *)
(* that ask the host's CredentialBroker for credentials and save what it   *)
(* answers in the connection row. MailConnection has the rest of those     *)
(* calls and takes the host for granted; here the host is the detail.      *)
(*                                                                         *)
(* A call reads the row once and works from that copy. It may give up on   *)
(* a request, which the broker handles to its end all the same.            *)
(***************************************************************************)
EXTENDS CredentialBroker

CONSTANT MaxRevision  \* bound: revision at which calls still begin

ASSUME RevisionAssumption == MaxRevision \in Nat

VARIABLES
  conn,   \* the connections row of the mailbox
  call,   \* local state of each call of MailHub
  ended   \* history: credentials the row named when it became REVOKED or DELETED

mailhub == <<conn, call, ended>>
vars == <<broker, mailhub>>

Live == {"active", "degraded"}
Status == Live \cup {"none", "pending_authorization", "reauthorization_required", "revoked",
                     "deleting", "deleted"}
Row == [status : Status, rev : Nat, cred : Credentials \cup {NoCredential}, ver : Nat]
Call ==
  [pc : {"idle", "state", "asks", "bind", "activate", "mark", "save"},
   kind : {"none", "callback", "refresh", "resolve", "revoke", "delete", "change"},
   flow : Flows \cup {NoCall}, cred : Credentials \cup {NoCredential}, row : Row]

NoRow == [status |-> "none", rev |-> 0, cred |-> NoCredential, ver |-> 0]
Idle == [pc |-> "idle", kind |-> "none", flow |-> NoCall, cred |-> NoCredential, row |-> NoRow]

TypeOK ==
  /\ BrokerTypeOK
  /\ conn \in Row
  /\ call \in [Calls -> Call]
  /\ ended \in SUBSET Credentials

Init ==
  /\ BrokerInit
  /\ conn = NoRow
  /\ call = [c \in Calls |-> Idle]
  /\ ended = {}

-----------------------------------------------------------------------------
(* Reading and saving the row.                                             *)

\* replace(row, status=.., revision=row.revision + 1)
Changed(status) == [conn EXCEPT !.status = status, !.rev = @ + 1]

Starts(c, stage, kind, row) ==
  /\ call[c].pc = "idle" /\ request[c].pc = "idle"
  /\ call' = [call EXCEPT ![c] = [Idle EXCEPT !.pc = stage, !.kind = kind,
                                              !.cred = conn.cred, !.row = row]]

MayStart == conn.rev < MaxRevision

\* save_connection compares revisions and writes under one lock.
RevisionFree(c) == conn.rev < call[c].row.rev

\* The last step of every call that changes the row.
SaveConnection(c) ==
  /\ call[c].pc = "save" /\ RevisionFree(c)
  /\ conn' = call[c].row
  /\ ended' = ended \cup (IF call[c].kind \in {"revoke", "delete"}
                          THEN {call[c].cred} ELSE {})
  /\ call' = [call EXCEPT ![c] = Idle]
  /\ UNCHANGED broker

\* MailHub hears the answer of a request unless it has given up.
Hears(c, heard) == call' = IF call[c].pc = "asks" THEN [call EXCEPT ![c] = heard] ELSE call

\* An answer of the host or a save is refused, the adapter times out, or MailHub dies.
CallFails(c) ==
  /\ call[c].pc # "idle"
  /\ call' = [call EXCEPT ![c] = Idle]
  /\ UNCHANGED <<broker, conn, ended>>

\* Another call saves the row: activation, narrowed scopes, a failed
\* synchronisation or a lifecycle event of the provider. Only the activation
\* takes rows that are not live, and it does not refuse DELETING.
Change(c, status) ==
  /\ MayStart
  /\ conn.status \notin {"none", "revoked", "deleted"}
  /\ status = "active" \/ conn.status \in Live
  /\ Starts(c, "save", "change", Changed(status))
  /\ UNCHANGED <<broker, conn, ended>>

-----------------------------------------------------------------------------
(* OAuth flows (begin_oauth, complete_oauth).                              *)

\* A flow of a new mailbox has no connection; any other is bound to a revision.
BeginNew(f) ==
  /\ SaveState(f, 0)
  /\ UNCHANGED <<creds, lock, request, outside, past, mailhub>>

BeginReauthorize(f) ==
  /\ conn.status \notin {"none", "deleting", "deleted"} /\ MayStart
  /\ SaveState(f, conn.rev)
  /\ UNCHANGED <<creds, lock, request, outside, past, mailhub>>

\* The browser comes back with state and code, perhaps more than once.
Callback(c, f) ==
  /\ flow[f].status # "none"
  /\ call[c].pc = "idle" /\ request[c].pc = "idle"
  /\ call' = [call EXCEPT ![c] = [Idle EXCEPT !.pc = "state", !.kind = "callback", !.flow = f]]
  /\ UNCHANGED <<broker, conn, ended>>

\* The state is consumed, then the code is sent to the broker.
Exchange(c) ==
  /\ call[c].pc = "state"
  /\ ConsumeState(call[c].flow)
  /\ Arrives(c, "exchange", call[c].flow, NoCredential)
  /\ call' = [call EXCEPT ![c].pc = "asks"]
  /\ UNCHANGED <<creds, lock, outside, past, conn, ended>>

Exchanged(c) ==
  /\ StoreCredential(c)
  /\ Hears(c, [call[c] EXCEPT !.pc = "bind", !.cred = request[c].cred])
  /\ UNCHANGED <<conn, ended>>

\* Mutation of Bound: the callback works from the row as it finds it.
BoundToNothing(c) == TRUE

\* expected_revision, of the flow that the state names
Bound(c) == conn.rev = flow[call[c].flow].rev

\* credential_version_rollback
NoRollback(v) == v >= conn.ver

Larger(v, w) == IF v > w THEN v ELSE w

\* An exchange answers version 1.
ReauthorizeConnection(c) ==
  /\ call[c].pc = "bind" /\ flow[call[c].flow].rev > 0
  /\ Bound(c) /\ conn.status \notin {"deleting", "deleted"} /\ NoRollback(1)
  /\ call' = [call EXCEPT ![c].pc = "save",
       ![c].row = [Changed("active") EXCEPT !.cred = call[c].cred, !.ver = Larger(1, conn.ver)]]
  /\ UNCHANGED <<broker, conn, ended>>

\* The address of a mailbox has one row, which a deletion keeps.
CreateConnection(c) ==
  /\ call[c].pc = "bind" /\ flow[call[c].flow].rev = 0
  /\ conn.status = "none"
  /\ conn' = [status |-> "pending_authorization", rev |-> 1, cred |-> call[c].cred, ver |-> 1]
  /\ call' = [call EXCEPT ![c].pc = "activate"]
  /\ UNCHANGED <<broker, ended>>

ActivateConnection(c) ==
  /\ call[c].pc = "activate"
  /\ conn.rev = 1 /\ conn.status \notin {"revoked", "deleted"}
  /\ call' = [call EXCEPT ![c].pc = "save", ![c].row = Changed("active")]
  /\ UNCHANGED <<broker, conn, ended>>

-----------------------------------------------------------------------------
(* Rotation: by refresh_connection, and by any use of a credential whose   *)
(* access token is about to expire (resolve).                              *)

Refresh(c) ==
  /\ conn.status \notin {"none", "revoked", "deleting", "deleted"} /\ MayStart
  /\ Starts(c, "asks", "refresh", conn)
  /\ Arrives(c, "refresh", NoCall, conn.cred)
  /\ UNCHANGED <<store, lock, outside, past, conn, ended>>

Resolve(c) ==
  /\ conn.status = "active"
  /\ Starts(c, "asks", "resolve", conn)
  /\ Arrives(c, "refresh", NoCall, conn.cred)
  /\ UNCHANGED <<store, lock, outside, past, conn, ended>>

\* refresh_connection, with the answer: the row it read, at the version answered
Refreshed(c, v) ==
  LET row == call[c].row IN
  IF call[c].kind = "refresh" /\ v >= row.ver
  THEN [call[c] EXCEPT !.pc = "save",
          !.row = [row EXCEPT !.status = "active", !.rev = row.rev + 1,
                              !.ver = Larger(v, row.ver)]]
  ELSE Idle

Rotated(c) ==
  /\ Rotate(c)
  /\ Hears(c, Refreshed(c, request[c].version + 1))
  /\ UNCHANGED <<conn, ended>>

-----------------------------------------------------------------------------
(* Revocation and deletion, as far as the credential goes.                 *)

Revoke(c) ==
  /\ conn.status \in Live /\ MayStart
  /\ Starts(c, "asks", "revoke", Changed("revoked"))
  /\ Arrives(c, "revoke", NoCall, conn.cred)
  /\ UNCHANGED <<store, lock, outside, past, conn, ended>>

\* The tombstone of a row that is DELETING.
Tombstone(row) == [row EXCEPT !.status = "deleted", !.rev = @ + 1, !.cred = NoCredential]

\* A deletion starts by saving DELETING; a retry resumes from that row.
Delete(c) ==
  /\ conn.status \notin {"none", "deleting", "deleted"}
  /\ Starts(c, "mark", "delete", Changed("deleting"))
  /\ UNCHANGED <<broker, conn, ended>>

\* Mutation of ResumeDelete: it takes the credential for revoked.
ResumeDeleteOnly(c) ==
  /\ conn.status = "deleting"
  /\ Starts(c, "save", "delete", Tombstone(conn))
  /\ UNCHANGED <<broker, conn, ended>>

ResumeDelete(c) ==
  /\ conn.status = "deleting"
  /\ Starts(c, "asks", "delete", Tombstone(conn))
  /\ Arrives(c, "revoke", NoCall, conn.cred)
  /\ UNCHANGED <<store, lock, outside, past, conn, ended>>

\* The credential of a row that was REVOKED is not revoked again.
MarkDeleting(c) ==
  /\ call[c].pc = "mark" /\ RevisionFree(c)
  /\ conn' = call[c].row
  /\ LET stage == IF conn.status = "revoked" THEN "save" ELSE "asks" IN
       /\ call' = [call EXCEPT ![c].pc = stage, ![c].row = Tombstone(call[c].row)]
       /\ IF stage = "asks" THEN Arrives(c, "revoke", NoCall, conn.cred) ELSE UNCHANGED request
  /\ UNCHANGED <<store, lock, outside, past, ended>>

Revoked(c) ==
  /\ RevokeCredential(c) \/ AlreadyRevoked(c)
  /\ Hears(c, [call[c] EXCEPT !.pc = "save"])
  /\ UNCHANGED <<conn, ended>>

Refused(c) == RequestFails(c) /\ Hears(c, Idle) /\ UNCHANGED <<conn, ended>>

-----------------------------------------------------------------------------
BrokerWorks(c) ==
  /\ Redeem(c) \/ LoadActive(c) \/ TokenAnswers(c) \/ RevokeGoogle(c)
  /\ UNCHANGED mailhub

Answers(c) == Exchanged(c) \/ Rotated(c) \/ Revoked(c) \/ Refused(c)

MailHubWorks(c) ==
  \/ \E f \in Flows : Callback(c, f)
  \/ \E s \in Live \cup {"reauthorization_required"} : Change(c, s)
  \/ Exchange(c) \/ ReauthorizeConnection(c) \/ CreateConnection(c) \/ ActivateConnection(c)
  \/ Refresh(c) \/ Resolve(c) \/ Revoke(c) \/ Delete(c) \/ ResumeDelete(c) \/ MarkDeleting(c)
  \/ SaveConnection(c) \/ CallFails(c)

Next ==
  \/ \E f \in Flows : BeginNew(f) \/ BeginReauthorize(f)
  \/ \E c \in Calls : BrokerWorks(c) \/ Answers(c) \/ MailHubWorks(c)

Spec == Init /\ [][Next]_vars

-----------------------------------------------------------------------------
(* Properties.                                                             *)

\* The version that the row records is one the broker has given the credential
\* the row names: no lost answer, stale copy or reauthorisation puts it ahead of
\* the host, where every later answer would be refused as a rollback
\* (reauthorize_connection, refresh_connection).
VersionIsIssued ==
  conn.cred \in Credentials => conn.ver <= creds[conn.cred].version

\* The row takes a new credential only from a flow that began at exactly the
\* revision it has, and never goes back to an older version: a callback does
\* not create a second mailbox or overwrite a newer rotation (oauth.py).
NewerRotationStands ==
  [][/\ conn'.cred \in Credentials \ {conn.cred} => flow[origin[conn'.cred]].rev = conn.rev
     /\ conn'.ver >= conn.ver]_vars

\* The credential that the row named when it became REVOKED or DELETED is
\* revoked at the host and, for Gmail, at the provider, whatever refreshed,
\* reauthorised or failed on the way (revoke_connection, delete_connection).
EndedIsRevoked ==
  \A k \in ended : creds[k].status = "REVOKED" /\ (provider = "gmail" => k \in withdrawn)

\* The connection row and the host agree as far as the row says: its credential is one the
\* host issued, at a version not ahead of the host's, and one it gave up is revoked.
RowFollowsHost == VersionIsIssued /\ EndedIsRevoked

\* The broker is the credential authority that MailHub relies on.
Host == INSTANCE CredentialHost WITH
  status <- [k \in Credentials |-> creds[k].status],
  version <- [k \in Credentials |-> creds[k].version]
ImplementsHost == Host!CredentialSpec
=============================================================================
