----------------------------- MODULE MailOutbox -----------------------------
(***************************************************************************)
(* The durable send path of MailHub: a draft is edited, approved and       *)
(* queued by API calls (MailService.update_draft, queue_draft_send), and   *)
(* the queued operation is leased, re-authorized, handed to the provider   *)
(* and completed by workers (MailService.send_queued), over the draft and  *)
(* outbox tables of the repository.                                        *)
(*                                                                         *)
(* A handler is a sequence of steps, one for each await that reads or       *)
(* writes shared state, so that handlers interleave as they do in the       *)
(* running service. Three steps stand for several reads in a row, where     *)
(* nothing that is read can make another verdict of what was read before:   *)
(* EvaluatePolicy, LoadSources and Authorize say why.                       *)
(* Time is abstract: a lease may expire at any moment (LeaseExpires) and a *)
(* RETRY_WAIT operation may be due at any moment.                          *)
(***************************************************************************)
EXTENDS Integers, FiniteSets

CONSTANTS
  Drafts,           \* drafts of one mailbox connection
  Contents,         \* what a draft says: recipients, attachments, subject, body
  DigestOf,         \* what digests and keys cover of it: all but the subject
  RiskyContents,    \* contents evaluate_policy answers "approval_required" for
  Callers,          \* concurrent API calls
  Workers,          \* concurrent executions of send_queued
  WorkerId,         \* worker_id under which an execution runs
  NoOne,            \* lease_owner = None
  AtomicSaves,      \* save_draft checks and writes under one lock (memory), or
                    \* reads the revision and then updates (PostgreSQL)
  TimelyWorkers,    \* a lease outlives the work done under it, crashes apart
  GarbledReceipts,  \* a provider may answer 2xx with an unreadable body
  RetryLimit,       \* transient provider failures retried (4 in the code)
  MaxRevision,      \* bound: draft revisions
  MaxFence,         \* bound: leases of one operation
  MaxAuthRevision,  \* bound: revisions of the policy
  Ends              \* bound: which of "approval", "policy", "grant" and "connection"
                    \* the host and the owner replace, withdraw or let run out

ASSUME RiskyAssumption == RiskyContents \subseteq Contents
ASSUME SomeDraftAssumption == Drafts # {} /\ Contents # {}
ASSUME WorkerIdAssumption == NoOne \notin {WorkerId[w] : w \in Workers}
ASSUME SwitchAssumption ==
  AtomicSaves \in BOOLEAN /\ TimelyWorkers \in BOOLEAN /\ GarbledReceipts \in BOOLEAN
ASSUME BoundAssumption ==
  /\ RetryLimit \in Nat /\ MaxFence \in Nat
  /\ MaxRevision \in Nat \ {0} /\ MaxAuthRevision \in Nat \ {0}

VARIABLES
  draft,      \* the drafts table
  op,         \* the outbox_operations table, by idempotency key
  policy,     \* the owner's MailAgentPolicy
  grant,      \* the DelegationGrant to the agent
  approval,   \* host approvals, bound to one action input digest
  connActive, \* the connection's status is ACTIVE
  accepted,   \* how often the provider accepted each operation's message
  caller,     \* local state of each API call
  worker      \* local state of each send_queued execution

hostVars == <<policy, grant, approval, connActive>>

vars == <<draft, op, hostVars, accepted, caller, worker>>

-----------------------------------------------------------------------------
Revisions == 1 .. MaxRevision

Digests == {DigestOf[x] : x \in Contents}

\* _draft_send_idempotency_key, and the input digest: draft, revision, and the digest of
\* what it says.
Key == [draft : Drafts, rev : Revisions, digest : Digests]

HeldStatus == {"leased", "sending"}
\* Mutation of LeasableStatus: an unknown outcome is leased again.
LeasableWithUnknown == {"queued", "retry_wait", "outcome_unknown"}
LeasableStatus == {"queued", "retry_wait"}
FinalStatus == {"succeeded", "dead_letter", "reconciled_succeeded", "manual_resolution"}
OpStatus == {"none", "outcome_unknown"} \cup HeldStatus \cup LeasableStatus \cup FinalStatus

Owners == {WorkerId[w] : w \in Workers} \cup {NoOne}

Operation ==
  [status : OpStatus, owner : Owners, fence : 0 .. MaxFence, expired : BOOLEAN,
   attempts : Nat, policyRev : 0 .. MaxAuthRevision, grantRev : 0 .. 2,
   confirmed : BOOLEAN]

NoOperation ==
  [status |-> "none", owner |-> NoOne, fence |-> 0, expired |-> FALSE,
   attempts |-> 0, policyRev |-> 0, grantRev |-> 0, confirmed |-> FALSE]

Results == {"succeeded", "retry_wait", "outcome_unknown", "dead_letter"}

CallerPc == {"idle", "reviewing", "evaluated", "decided", "approve_checked", "saved",
             "editing", "edit_checked"}
WorkerPc == {"idle", "leased", "sending", "loaded", "cleared", "calling", "replied"}

DraftRecord == [rev : Revisions, content : Contents, status : {"draft", "approved"}]

CallerRecord == [pc : CallerPc, key : Key, content : Contents,
                 policyRev : 0 .. MaxAuthRevision, grantRev : 0 .. 2, confirmed : BOOLEAN]

WorkerRecord == [pc : WorkerPc, key : Key, token : 0 .. MaxFence,
                 rev : Revisions, content : Contents, active : BOOLEAN,
                 result : Results, authAtLease : SUBSET Contents]

TypeOK ==
  /\ draft \in [Drafts -> DraftRecord]
  /\ op \in [Key -> Operation]
  /\ policy \in [rev : 1 .. MaxAuthRevision, inForce : BOOLEAN]
  /\ grant \in [rev : 1 .. 2, inForce : BOOLEAN]
  /\ approval \in [Key -> {"none", "valid", "revoked"}]
  /\ connActive \in BOOLEAN
  /\ accepted \in [Key -> Nat]
  /\ caller \in [Callers -> CallerRecord]
  /\ worker \in [Workers -> WorkerRecord]

\* Idle handlers keep an arbitrary record; fixing it keeps states canonical.
SomeKey == CHOOSE k \in Key : TRUE
SomeContent == CHOOSE x \in Contents : TRUE
IdleCaller == [pc |-> "idle", key |-> SomeKey, content |-> SomeContent,
               policyRev |-> 0, grantRev |-> 0, confirmed |-> FALSE]
IdleWorker == [pc |-> "idle", key |-> SomeKey, token |-> 0, rev |-> 1,
               content |-> SomeContent, active |-> FALSE,
               result |-> "dead_letter", authAtLease |-> {}]

Init ==
  /\ \E f \in [Drafts -> Contents] :
       draft = [d \in Drafts |-> [rev |-> 1, content |-> f[d], status |-> "draft"]]
  /\ op = [k \in Key |-> NoOperation]
  /\ policy = [rev |-> 1, inForce |-> TRUE]
  /\ grant = [rev |-> 1, inForce |-> TRUE]
  /\ approval = [k \in Key |-> "none"]
  /\ connActive = TRUE
  /\ accepted = [k \in Key |-> 0]
  /\ caller = [c \in Callers |-> IdleCaller]
  /\ worker = [w \in Workers |-> IdleWorker]

-----------------------------------------------------------------------------
(* The host and the owner: approvals, policy, grant, connection.           *)

\* How an action on a draft is known to policies, approvals and the outbox.
Snapshot(d) ==
  [draft |-> d, rev |-> draft[d].rev, digest |-> DigestOf[draft[d].content]]

\* The approver confirms the draft it is shown, when it is asked to
\* (ApprovalPort, host side); an approval is never given twice.
GrantApproval(k) ==
  /\ k = Snapshot(k.draft)
  /\ draft[k.draft].status = "draft" /\ draft[k.draft].content \in RiskyContents
  /\ approval[k] = "none"
  /\ approval' = [approval EXCEPT ![k] = "valid"]
  /\ UNCHANGED <<draft, op, policy, grant, connActive, accepted, caller, worker>>

RevokeApproval(k) ==
  /\ "approval" \in Ends
  /\ approval[k] = "valid"
  /\ approval' = [approval EXCEPT ![k] = "revoked"]
  /\ UNCHANGED <<draft, op, policy, grant, connActive, accepted, caller, worker>>

\* create_policy with a higher revision, or disable_policy.
SavePolicy(enabled) ==
  /\ "policy" \in Ends
  /\ policy.rev < MaxAuthRevision
  /\ policy' = [rev |-> policy.rev + 1, inForce |-> enabled]
  /\ UNCHANGED <<draft, op, grant, approval, connActive, accepted, caller, worker>>

\* valid_until passes: no revision records it.
PolicyExpires ==
  /\ "policy" \in Ends
  /\ policy.inForce
  /\ policy' = [policy EXCEPT !.inForce = FALSE]
  /\ UNCHANGED <<draft, op, grant, approval, connActive, accepted, caller, worker>>

RevokeGrant ==
  /\ "grant" \in Ends
  /\ grant.rev = 1
  /\ grant' = [rev |-> 2, inForce |-> FALSE]
  /\ UNCHANGED <<draft, op, policy, approval, connActive, accepted, caller, worker>>

GrantExpires ==
  /\ "grant" \in Ends
  /\ grant.inForce
  /\ grant' = [grant EXCEPT !.inForce = FALSE]
  /\ UNCHANGED <<draft, op, policy, approval, connActive, accepted, caller, worker>>

\* Revocation, degradation or reauthorization of the connection.
ConnectionChanges ==
  /\ "connection" \in Ends
  /\ connActive' = ~connActive
  /\ UNCHANGED <<draft, op, policy, grant, approval, accepted, caller, worker>>

-----------------------------------------------------------------------------
(* API calls: queue_draft_send and update_draft.                           *)

Call(c, step, k, content) ==
  caller' = [caller EXCEPT ![c] = [IdleCaller EXCEPT !.pc = step, !.key = k, !.content = content]]

\* A call that is refused, raises or dies leaves what it has saved so far.
CallerStops(c) ==
  /\ caller[c].pc # "idle"
  /\ caller' = [caller EXCEPT ![c] = IdleCaller]
  /\ UNCHANGED <<draft, op, hostVars, accepted, worker>>

\* queue_draft_send reads an unsent draft and matches its preconditions.  On
\* an approved draft it returns the existing operation and changes nothing.
ReviewDraft(c, d) ==
  /\ caller[c].pc = "idle"
  /\ draft[d].status = "draft"
  /\ Call(c, "reviewing", Snapshot(d), draft[d].content)
  /\ UNCHANGED <<draft, op, hostVars, accepted, worker>>

\* evaluate_policy: content with a risk needs an approval, other content the grant.
Allowed(content, useGrant) == content \notin RiskyContents /\ useGrant /\ grant.inForce

Evaluated(content, useGrant) ==
  policy.inForce /\ (content \in RiskyContents \/ Allowed(content, useGrant))

\* The policy is read, then the grant: a grant only ends, so that one found in force was in
\* force when the policy was read; one that ended between the two sends nothing later.
EvaluatePolicy(c) ==
  /\ caller[c].pc = "reviewing"
  /\ \E useGrant \in BOOLEAN :
       /\ Evaluated(caller[c].content, useGrant)
       /\ caller' = [caller EXCEPT ![c].pc = "evaluated",
                                   ![c].policyRev = policy.rev,
                                   ![c].grantRev = IF useGrant THEN grant.rev ELSE 0]
  /\ UNCHANGED <<draft, op, hostVars, accepted, worker>>

\* verify_confirmation, of what needs an approval and of what comes with one all the same.
ConfirmSend(c) ==
  /\ caller[c].pc = "evaluated"
  /\ \E confirmed \in BOOLEAN :
       /\ caller[c].content \in RiskyContents => confirmed
       /\ confirmed => approval[caller[c].key] = "valid"
       /\ caller' = [caller EXCEPT ![c].pc = "decided", ![c].confirmed = confirmed]
  /\ UNCHANGED <<draft, op, hostVars, accepted, worker>>

\* Mutation of RevisionUnchanged: save_draft does not test the revision.
RevisionIgnored(c) == c \in Callers
\* The revision test of save_draft, against the revision the call has read.
RevisionUnchanged(c) == draft[caller[c].key.draft].rev <= caller[c].key.rev

\* SELECT revision ... of the PostgreSQL save_draft.
CheckRevision(c, before, after) ==
  /\ ~AtomicSaves
  /\ caller[c].pc = before
  /\ RevisionUnchanged(c)
  /\ caller' = [caller EXCEPT ![c].pc = after]
  /\ UNCHANGED <<draft, op, hostVars, accepted, worker>>

\* When the write of save_draft may happen: memory tests and writes at once.
MayWrite(c, before, after) ==
  /\ caller[c].key.rev < MaxRevision
  /\ \/ AtomicSaves /\ caller[c].pc = before /\ RevisionUnchanged(c)
     \/ ~AtomicSaves /\ caller[c].pc = after

SaveApproved(c) ==
  LET k == caller[c].key IN
  /\ MayWrite(c, "decided", "approve_checked")
  /\ draft' = [draft EXCEPT ![k.draft] =
                 [rev |-> k.rev + 1, content |-> caller[c].content, status |-> "approved"]]
  /\ caller' = [caller EXCEPT ![c].pc = "saved"]
  /\ UNCHANGED <<op, hostVars, accepted, worker>>

\* create_or_get_operation: an operation under this key is returned as it is.
QueueOperation(c) ==
  LET k == caller[c].key IN
  /\ caller[c].pc = "saved"
  /\ op' = IF op[k].status = "none"
           THEN [op EXCEPT ![k] = [NoOperation EXCEPT
                   !.status = "queued", !.policyRev = caller[c].policyRev,
                   !.grantRev = caller[c].grantRev, !.confirmed = caller[c].confirmed]]
           ELSE op
  /\ caller' = [caller EXCEPT ![c] = IdleCaller]
  /\ UNCHANGED <<draft, hostVars, accepted, worker>>

ReadForEdit(c, d, new) ==
  /\ caller[c].pc = "idle"
  /\ draft[d].status = "draft"
  /\ Call(c, "editing", Snapshot(d), new)
  /\ UNCHANGED <<draft, op, hostVars, accepted, worker>>

\* update_draft writes the whole row back from its snapshot, status included.
SaveEdit(c) ==
  LET k == caller[c].key IN
  /\ MayWrite(c, "editing", "edit_checked")
  /\ draft' = [draft EXCEPT ![k.draft] =
                 [rev |-> k.rev + 1, content |-> caller[c].content, status |-> "draft"]]
  /\ caller' = [caller EXCEPT ![c] = IdleCaller]
  /\ UNCHANGED <<op, hostVars, accepted, worker>>

-----------------------------------------------------------------------------
(* Workers: send_queued over the outbox repository.                        *)

\* What _queued_authorization_error re-reads of the policy, grant and approval, for the
\* content it is to send.
AuthorityStands(k, content) ==
  /\ policy.rev = op[k].policyRev /\ policy.inForce
  /\ op[k].grantRev # 0 => grant.rev = op[k].grantRev /\ grant.inForce
  /\ \/ Allowed(content, op[k].grantRev # 0)
     \/ content \in RiskyContents /\ op[k].confirmed /\ approval[k] = "valid"

\* _owned_operation: lease owner and fencing token both match.
Owned(w) ==
  /\ op[worker[w].key].owner = WorkerId[w]
  /\ op[worker[w].key].fence = worker[w].token

Busy(w) == worker[w].pc # "idle"

LeaseOperation(w, k) ==
  /\ ~Busy(w)
  /\ op[k].status \in LeasableStatus
  /\ op[k].fence < MaxFence
  /\ op' = [op EXCEPT ![k].status = "leased", ![k].owner = WorkerId[w],
                      ![k].fence = @ + 1, ![k].expired = FALSE]
  /\ worker' = [worker EXCEPT ![w] = [IdleWorker EXCEPT
                  !.pc = "leased", !.key = k, !.token = op[k].fence + 1,
                  !.authAtLease = {x \in Contents : AuthorityStands(k, x)}]]
  /\ UNCHANGED <<draft, hostVars, accepted, caller>>

\* Mutation of RecoverExpired: an expired lease is queued again.
RecoverByReplay(k) ==
  /\ op[k].status \in HeldStatus /\ op[k].expired
  /\ op' = [op EXCEPT ![k].status = "queued", ![k].owner = NoOne, ![k].expired = FALSE]
  /\ UNCHANGED <<draft, hostVars, accepted, caller, worker>>

\* lease_operation on an expired lease: recorded as unknown, then it raises.
RecoverExpired(k) ==
  /\ op[k].status \in HeldStatus
  /\ op[k].expired
  /\ op' = [op EXCEPT ![k].status = "outcome_unknown", ![k].owner = NoOne, ![k].expired = FALSE]
  /\ UNCHANGED <<draft, hostVars, accepted, caller, worker>>

LeaseExpires(k) ==
  /\ op[k].status \in HeldStatus
  /\ ~op[k].expired
  /\ TimelyWorkers => \A w \in Workers : ~(Busy(w) /\ worker[w].key = k)
  /\ op' = [op EXCEPT ![k].expired = TRUE]
  /\ UNCHANGED <<draft, hostVars, accepted, caller, worker>>

MarkSending(w) ==
  /\ worker[w].pc = "leased"
  /\ Owned(w)
  /\ op' = [op EXCEPT ![worker[w].key].status = "sending"]
  /\ worker' = [worker EXCEPT ![w].pc = "sending"]
  /\ UNCHANGED <<draft, hostVars, accepted, caller>>

\* get_draft, then get_connection, whose status nothing else is compared with.
LoadSources(w) ==
  LET d == worker[w].key.draft IN
  /\ worker[w].pc = "sending"
  /\ worker' = [worker EXCEPT ![w].pc = "loaded", ![w].rev = draft[d].rev,
                              ![w].content = draft[d].content, ![w].active = connActive]
  /\ UNCHANGED <<draft, op, hostVars, accepted, caller>>

\* max(1, draft.revision - 1) in the input digest.
SentRevision(rev) == IF rev > 1 THEN rev - 1 ELSE 1

\* The digest of the draft as loaded is the digest the operation was queued with. What
\* differs in the subject alone has the same digest.
InputUnchanged(w) ==
  /\ SentRevision(worker[w].rev) = worker[w].key.rev
  /\ DigestOf[worker[w].content] = worker[w].key.digest

\* Mutations of Authorize: without the input digest, without the policy and grant, and
\* without recording the refusal.
AuthorizeAnyInput(w) ==
  /\ worker[w].pc = "loaded"
  /\ worker[w].active /\ AuthorityStands(worker[w].key, worker[w].content)
  /\ worker' = [worker EXCEPT ![w].pc = "cleared"]
  /\ UNCHANGED <<draft, op, hostVars, accepted, caller>>

AuthorizeOnceForAll(w) ==
  /\ worker[w].pc = "loaded"
  /\ worker[w].active /\ InputUnchanged(w)
  /\ worker' = [worker EXCEPT ![w].pc = "cleared"]
  /\ UNCHANGED <<draft, op, hostVars, accepted, caller>>


\* The policy, the grant and the approval are read one after the other, and none of them
\* comes back for an operation that is queued: what is found standing stood at the first
\* of the reads, which is this step, and what is not is refused.
Authorize(w) ==
  /\ worker[w].pc = "loaded"
  /\ worker' = IF /\ worker[w].active /\ InputUnchanged(w)
                  /\ AuthorityStands(worker[w].key, worker[w].content)
               THEN [worker EXCEPT ![w].pc = "cleared"]
               ELSE [worker EXCEPT ![w].pc = "replied", ![w].result = "dead_letter"]
  /\ UNCHANGED <<draft, op, hostVars, accepted, caller>>

\* Kill switch, capabilities, credential and body, before the provider call:
\* a denied switch waits, a missing capability or credential is final, an
\* unclassified failure is uncertain.
StopBeforeCall(w) ==
  /\ worker[w].pc = "cleared"
  /\ \E r \in {"retry_wait", "dead_letter", "outcome_unknown"} :
       worker' = [worker EXCEPT ![w].pc = "replied", ![w].result = r]
  /\ UNCHANGED <<draft, op, hostVars, accepted, caller>>

StartCall(w) ==
  /\ worker[w].pc = "cleared"
  /\ worker' = [worker EXCEPT ![w].pc = "calling"]
  /\ UNCHANGED <<draft, op, hostVars, accepted, caller>>

\* RateLimitedError and ProviderFailureError: retried until the limit.
TransientResult(k) == IF op[k].attempts < RetryLimit THEN "retry_wait" ELSE "dead_letter"

\* Mutation of Outcome: a timeout is taken for a transient failure.
OutcomeTimeoutRetried(k, took, result) ==
  \/ took /\ result = "succeeded"
  \/ result \in {TransientResult(k), "dead_letter"}

\* connector.send: what the provider did, and what the worker makes of it.
Outcome(k, took, result) ==
  \/ took /\ result = "succeeded"
  \/ result = "outcome_unknown"
  \/ ~took /\ result \in {TransientResult(k), "dead_letter"}
  \/ took /\ GarbledReceipts /\ result = TransientResult(k)

CallProvider(w) ==
  LET k == worker[w].key IN
  /\ worker[w].pc = "calling"
  /\ \E took \in BOOLEAN, r \in Results :
       /\ Outcome(k, took, r)
       /\ accepted' = [accepted EXCEPT ![k] = IF took THEN @ + 1 ELSE @]
       /\ worker' = [worker EXCEPT ![w].pc = "replied", ![w].result = r]
  /\ UNCHANGED <<draft, op, hostVars, caller>>

\* Mutation of CompleteOperation: a late worker is not fenced.
CompleteUnfenced(w) ==
  /\ worker[w].pc = "replied"
  /\ op' = [op EXCEPT ![worker[w].key].status = worker[w].result,
                      ![worker[w].key].attempts = @ + 1, ![worker[w].key].owner = NoOne]
  /\ worker' = [worker EXCEPT ![w] = IdleWorker]
  /\ UNCHANGED <<draft, hostVars, accepted, caller>>

CompleteOperation(w) ==
  LET k == worker[w].key IN
  /\ worker[w].pc = "replied"
  /\ Owned(w)
  /\ op' = [op EXCEPT ![k].status = worker[w].result, ![k].attempts = @ + 1,
                      ![k].owner = NoOne, ![k].expired = FALSE]
  /\ worker' = [worker EXCEPT ![w] = IdleWorker]
  /\ UNCHANGED <<draft, hostVars, accepted, caller>>

\* stale_fencing_token: mark_sending or complete_operation raises.
FencedOut(w) ==
  /\ worker[w].pc \in {"leased", "replied"}
  /\ ~Owned(w)
  /\ worker' = [worker EXCEPT ![w] = IdleWorker]
  /\ UNCHANGED <<draft, op, hostVars, accepted, caller>>

WorkerCrashes(w) ==
  /\ Busy(w)
  /\ worker' = [worker EXCEPT ![w] = IdleWorker]
  /\ UNCHANGED <<draft, op, hostVars, accepted, caller>>

-----------------------------------------------------------------------------
(* Reconciliation: the operator asks the provider what became of a message *)
(* and reports it (external: the evidence is assumed true).                *)

Evidence(k, status) ==
  \/ status = "reconciled_succeeded" /\ accepted[k] > 0
  \/ status = "retry_wait" /\ accepted[k] = 0
  \/ status = "manual_resolution"

ReconcileOutcomeUnknown(k, status) ==
  /\ op[k].status = "outcome_unknown"
  /\ Evidence(k, status)
  /\ op' = [op EXCEPT ![k].status = status, ![k].owner = NoOne, ![k].expired = FALSE]
  /\ UNCHANGED <<draft, hostVars, accepted, caller, worker>>

-----------------------------------------------------------------------------
CallerStep(c) ==
  \/ \E d \in Drafts : ReviewDraft(c, d)
  \/ \E d \in Drafts, new \in Contents : ReadForEdit(c, d, new)
  \/ EvaluatePolicy(c) \/ ConfirmSend(c)
  \/ CheckRevision(c, "decided", "approve_checked")
  \/ CheckRevision(c, "editing", "edit_checked")
  \/ SaveApproved(c) \/ QueueOperation(c) \/ SaveEdit(c)
  \/ CallerStops(c)

\* The steps of a live send_queued once it holds a lease.
WorkerProgress(w) ==
  \/ MarkSending(w) \/ LoadSources(w) \/ Authorize(w)
  \/ StopBeforeCall(w) \/ StartCall(w) \/ CallProvider(w)
  \/ CompleteOperation(w) \/ FencedOut(w)

WorkerStep(w) ==
  \/ \E k \in Key : LeaseOperation(w, k)
  \/ WorkerProgress(w)
  \/ WorkerCrashes(w)

OperationStep(k) ==
  \/ LeaseExpires(k) \/ RecoverExpired(k)
  \/ \E s \in OpStatus : ReconcileOutcomeUnknown(k, s)

HostStep ==
  \/ \E k \in Key : GrantApproval(k) \/ RevokeApproval(k)
  \/ \E enabled \in BOOLEAN : SavePolicy(enabled)
  \/ PolicyExpires \/ RevokeGrant \/ GrantExpires
  \/ ConnectionChanges

Next ==
  \/ \E c \in Callers : CallerStep(c)
  \/ \E w \in Workers : WorkerStep(w)
  \/ \E k \in Key : OperationStep(k)
  \/ HostStep

Spec == Init /\ [][Next]_vars

\* No execution dies, and none gets an error from the repository or the approval port while
\* it re-checks, which ends it in the same way.
SteadyNext ==
  \/ \E c \in Callers : CallerStep(c)
  \/ \E w \in Workers : WorkerProgress(w) \/ \E k \in Key : LeaseOperation(w, k)
  \/ \E k \in Key : OperationStep(k)
  \/ HostStep

\* What an execution awaits ends: a statement, a call of the host, a call of the provider
\* with a timeout. Nobody has to call lease_operation again.
LiveSpec == Init /\ [][SteadyNext]_vars /\ \A w \in Workers : WF_vars(WorkerProgress(w))

-----------------------------------------------------------------------------
Delivered(k) == accepted[k] > 0

\* The provider accepts the message of an operation at most once, whatever
\* leases expire, workers die and outcomes are reconciled in between.
NoDuplicateDelivery == \A k \in Key : accepted[k] <= 1

\* A draft goes out under one operation only: an approved draft that is edited
\* or queued again behind the worker's back would go out twice.
OneMessagePerDraft ==
  \A j, k \in Key : Delivered(j) /\ Delivered(k) /\ j.draft = k.draft => j = k

\* The recorded outcome tells the truth about the provider: a success was
\* delivered; an operation that may be sent again, or was given up, was not.
HonestOutcome ==
  \A k \in Key :
    /\ op[k].status \in {"succeeded", "reconciled_succeeded"} => Delivered(k)
    /\ op[k].status \in LeasableStatus \cup {"dead_letter"} => ~Delivered(k)

\* Two executions never both pass the lease check of the same operation, even
\* when they run under one worker_id.
OneLeaseHolder ==
  \A v, w \in Workers :
    Busy(v) /\ Busy(w) /\ worker[v].key = worker[w].key /\ Owned(v) /\ Owned(w) => v = w

\* What reaches the provider is, but for its subject, what was queued, and an authority to
\* send just that stood when the operation was leased: neither an edit that overtook the
\* approval nor a revocation made before the lease is missed.
CallsAreAuthorized ==
  \A w \in Workers :
    worker[w].pc = "calling" => worker[w].content \in worker[w].authAtLease /\ InputUnchanged(w)

\* No late completion, recovery or reconciliation rewrites a final outcome.
FinalOutcomeIsFinal ==
  [][\A k \in Key : op[k].status \in FinalStatus => op'[k].status = op[k].status]_op

\* Once approved, a draft does not change: update_draft creates a revision
\* "without changing send state".
ApprovedDraftIsFinal ==
  [][\A d \in Drafts : draft[d].status = "approved" => draft'[d] = draft[d]]_draft

\* What a status says of its message, to a reader of the abstract dispatch.
MessageOutcome(k) ==
  CASE op[k].status = "none" -> "none"
    [] op[k].status \in HeldStatus \cup LeasableStatus -> "pending"
    [] op[k].status = "outcome_unknown" -> "uncertain"
    [] op[k].status \in {"succeeded", "reconciled_succeeded"} -> "sent"
    [] op[k].status = "dead_letter" -> "failed"
    [] op[k].status = "manual_resolution" -> "manual"

Dispatch == INSTANCE MailDispatch WITH
  Messages <- Key,
  DraftOf <- [k \in Key |-> k.draft],
  outcome <- [k \in Key |-> MessageOutcome(k)],
  delivered <- accepted

\* Every step of the outbox is a step of the abstract dispatch or changes
\* nothing it can see: one delivery per draft, and outcomes that do not lie.
ImplementsDispatch == Dispatch!DispatchSpec

=============================================================================
