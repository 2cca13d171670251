--------------------------- MODULE CredentialBroker ---------------------------
(***************************************************************************)
(* EncryptedSQLiteMailCredentialBroker, the host's credential authority:   *)
(* one-time OAuth states, the exchange of a provider code for a credential *)
(* and the rotation and revocation of credentials under _rotation_lock.    *)
(*                                                                         *)
(* A request of MailHub is handled in steps, one per await of the database *)
(* or of the provider. It goes on when its caller has given up, and may    *)
(* end at any of them: the provider refuses or its answer is lost, the     *)
(* database fails, or the process dies. One process serves all requests.   *)
(***************************************************************************)
EXTENDS Naturals

CONSTANTS
  Calls,         \* requests being handled, each named after its caller
  NoCall,        \* nobody holds _rotation_lock
  Flows,         \* authorisation flows of the owner's browser
  Credentials,   \* credential references
  NoCredential,  \* no credential_ref, or that of a deleted connection
  MaxTokens      \* bound: rotations of a credential, and refresh tokens issued for it

ASSUME BrokerAssumption ==
  NoCall \notin Calls /\ NoCredential \notin Credentials /\ MaxTokens \in Nat

VARIABLES
  provider,   \* of the mailbox
  flow,       \* mailhub_oauth_states; rev 0: no connection_id
  creds,      \* mailhub_credentials
  lock,       \* holder of _rotation_lock
  request,    \* local state of each request
  newest,     \* refresh tokens the provider has issued for a credential
  withdrawn,  \* credentials whose grant the provider has revoked
  redeemed,   \* history: times the code of a flow was sent to the token endpoint
  origin,     \* history: the flow a credential came from
  lost        \* history: credentials for which a new token was never stored

store == <<flow, creds>>
outside == <<provider, newest, withdrawn>>
past == <<redeemed, origin, lost>>
broker == <<store, lock, request, outside, past>>

Providers == {"gmail", "microsoft_graph"}
Flow == [status : {"none", "open", "consumed"}, rev : Nat]
Credential == [status : {"none", "ACTIVE", "REVOKED"}, version : Nat, token : Nat]
Locked == {"token", "rotate", "unlink", "destroy"}
Request ==
  [pc : {"idle", "code", "store", "lock"} \cup Locked,
   op : {"none", "exchange", "refresh", "revoke"},
   flow : Flows \cup {NoCall}, cred : Credentials \cup {NoCredential},
   version : Nat, token : Nat]

NoRequest == [pc |-> "idle", op |-> "none", flow |-> NoCall, cred |-> NoCredential,
              version |-> 0, token |-> 0]
NotStored == [status |-> "none", version |-> 0, token |-> 0]

BrokerTypeOK ==
  /\ provider \in Providers
  /\ flow \in [Flows -> Flow]
  /\ creds \in [Credentials -> Credential]
  /\ lock \in Calls \cup {NoCall}
  /\ request \in [Calls -> Request]
  /\ newest \in [Credentials -> Nat]
  /\ withdrawn \in SUBSET Credentials
  /\ redeemed \in [Flows -> Nat]
  /\ origin \in [Credentials -> Flows \cup {NoCall}]
  /\ lost \in SUBSET Credentials

BrokerInit ==
  /\ provider \in Providers
  /\ flow = [f \in Flows |-> [status |-> "none", rev |-> 0]]
  /\ creds = [k \in Credentials |-> NotStored]
  /\ lock = NoCall
  /\ request = [c \in Calls |-> NoRequest]
  /\ newest = [k \in Credentials |-> 0]
  /\ withdrawn = {}
  /\ redeemed = [f \in Flows |-> 0]
  /\ origin = [k \in Credentials |-> NoCall]
  /\ lost = {}

-----------------------------------------------------------------------------
(* OAuth states. One past its time is a flow that goes no further.         *)

SaveState(f, rev) ==
  /\ flow[f].status = "none"
  /\ flow' = [flow EXCEPT ![f] = [status |-> "open", rev |-> rev]]

\* Mutation of ConsumeState: consumed_at is not looked at.
ConsumeStateAgain(f) ==
  /\ flow[f].status # "none"
  /\ flow' = [flow EXCEPT ![f].status = "consumed"]

\* One transaction finds the state open and marks it consumed.
ConsumeState(f) ==
  /\ flow[f].status = "open"
  /\ flow' = [flow EXCEPT ![f].status = "consumed"]

-----------------------------------------------------------------------------
(* Requests.                                                               *)

Arrives(c, op, f, k) ==
  /\ request[c].pc = "idle"
  /\ request' = [request EXCEPT ![c] =
       [NoRequest EXCEPT !.pc = IF op = "exchange" THEN "code" ELSE "lock",
                         !.op = op, !.flow = f, !.cred = k]]

Goes(c, stage) == request' = [request EXCEPT ![c].pc = stage]
Done(c) == request' = [request EXCEPT ![c] = NoRequest]

\* The token endpoint takes the code and starts a grant; the reference its
\* credential will have names it. The provider's own check of codes is not relied on.
Redeem(c) ==
  /\ request[c].pc = "code"
  /\ \E k \in Credentials :
       /\ newest[k] = 0
       /\ newest' = [newest EXCEPT ![k] = 1]
       /\ origin' = [origin EXCEPT ![k] = request[c].flow]
       /\ request' = [request EXCEPT ![c].pc = "store", ![c].cred = k]
  /\ redeemed' = [redeemed EXCEPT ![request[c].flow] = @ + 1]
  /\ UNCHANGED <<store, lock, provider, withdrawn, lost>>

\* Every exchange stores a credential of its own, at version 1.
StoreCredential(c) ==
  /\ request[c].pc = "store"
  /\ creds' = [creds EXCEPT ![request[c].cred] =
       [status |-> "ACTIVE", version |-> 1, token |-> 1]]
  /\ Done(c)
  /\ UNCHANGED <<flow, lock, outside, past>>

RevokeStage == IF provider = "gmail" THEN "unlink" ELSE "destroy"

\* What a request takes from the credential it loads.
Loaded(c) ==
  LET k == request[c].cred IN
  [request EXCEPT ![c].pc = IF request[c].op = "revoke" THEN RevokeStage ELSE "token",
                  ![c].version = creds[k].version, ![c].token = creds[k].token]

\* Mutation of LoadActive: the lock is not waited for.
LoadAtOnce(c) ==
  /\ request[c].pc = "lock"
  /\ creds[request[c].cred].status = "ACTIVE"
  /\ lock' = c
  /\ request' = Loaded(c)
  /\ UNCHANGED <<store, outside, past>>

\* refresh and revoke take the lock, then read the credential.
LoadActive(c) ==
  /\ request[c].pc = "lock" /\ lock = NoCall
  /\ creds[request[c].cred].status = "ACTIVE"
  /\ lock' = c
  /\ request' = Loaded(c)
  /\ UNCHANGED <<store, outside, past>>

AlreadyRevoked(c) ==
  /\ request[c].pc = "lock" /\ lock = NoCall
  /\ request[c].op = "revoke" /\ creds[request[c].cred].status = "REVOKED"
  /\ Done(c)
  /\ UNCHANGED <<store, lock, outside, past>>

\* The answer may carry a new refresh token; the one that was sent stays otherwise.
TokenAnswers(c) ==
  /\ request[c].pc = "token"
  /\ request[c].cred \notin withdrawn
  /\ request[c].version < MaxTokens
  /\ \/ /\ newest[request[c].cred] < MaxTokens
        /\ newest' = [newest EXCEPT ![request[c].cred] = @ + 1]
        /\ request' = [request EXCEPT ![c].pc = "rotate",
                                      ![c].token = newest'[request[c].cred]]
     \/ Goes(c, "rotate") /\ UNCHANGED newest
  /\ UNCHANGED <<store, lock, provider, withdrawn, past>>

\* Whether the row is still the one that was loaded.
Unchanged(c) ==
  /\ creds[request[c].cred].status = "ACTIVE"
  /\ creds[request[c].cred].version = request[c].version

Rotate(c) ==
  /\ request[c].pc = "rotate" /\ Unchanged(c)
  /\ creds' = [creds EXCEPT ![request[c].cred] =
       [status |-> "ACTIVE", version |-> request[c].version + 1, token |-> request[c].token]]
  /\ lock' = NoCall
  /\ Done(c)
  /\ UNCHANGED <<flow, outside, past>>

\* Gmail's revocation endpoint answers 200.
RevokeGoogle(c) ==
  /\ request[c].pc = "unlink"
  /\ withdrawn' = withdrawn \cup {request[c].cred}
  /\ Goes(c, "destroy")
  /\ UNCHANGED <<store, lock, provider, newest, past>>

\* Mutation of RevokeCredential: the version stays.
RevokeAtVersion(c) ==
  /\ request[c].pc = "destroy" /\ Unchanged(c)
  /\ creds' = [creds EXCEPT ![request[c].cred] =
       [status |-> "REVOKED", version |-> request[c].version, token |-> 0]]
  /\ lock' = NoCall
  /\ Done(c)
  /\ UNCHANGED <<flow, outside, past>>

\* The tombstone takes the place of the secret.
RevokeCredential(c) ==
  /\ request[c].pc = "destroy" /\ Unchanged(c)
  /\ creds' = [creds EXCEPT ![request[c].cred] =
       [status |-> "REVOKED", version |-> request[c].version + 1, token |-> 0]]
  /\ lock' = NoCall
  /\ Done(c)
  /\ UNCHANGED <<flow, outside, past>>

\* A new token that could have been stored and was not. A conflict is no loss:
\* the lock is there to keep it from happening.
NotKept(c) ==
  IF /\ request[c].pc = "rotate" /\ Unchanged(c)
     /\ request[c].token # creds[request[c].cred].token
  THEN {request[c].cred} ELSE {}

\* An error, a timeout of the provider or the end of the process.
RequestFails(c) ==
  /\ request[c].pc # "idle"
  /\ lost' = lost \cup NotKept(c)
  /\ lock' = IF lock = c THEN NoCall ELSE lock
  /\ Done(c)
  /\ UNCHANGED <<store, outside, redeemed, origin>>

-----------------------------------------------------------------------------
\* The code of a flow goes to the provider once, however often the browser
\* repeats the callback (consume_state, exchange).
CodeRedeemedOnce == \A f \in Flows : redeemed[f] <= 1

\* The broker keeps the newest refresh token the provider gave it, unless the
\* answer that brought one was lost: concurrent refreshes and revocations never
\* store an older token over it or throw it away (refresh, _rotation_lock).
NewestTokenKept ==
  \A k \in Credentials \ lost :
    \/ creds[k].status # "ACTIVE"
    \/ creds[k].token = newest[k]
    \/ \E c \in Calls : /\ request[c].pc = "rotate" /\ request[c].cred = k
                       /\ request[c].token = newest[k]
=============================================================================
