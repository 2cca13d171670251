-------------------------- MODULE MailOutboxProofs --------------------------
(***************************************************************************)
(* Proofs about who sends a message and how often. About MailOutbox: type  *)
(* correctness, lease fencing, final outcomes, calls made with authority,  *)
(* honest outcomes, and - when workers are timely and providers answer     *)
(* readably - at most one delivery per operation and the refinement of     *)
(* MailDispatch. About SenderCutover: one sender for a mailbox that moves. *)
(***************************************************************************)
EXTENDS MailOutbox, SenderCutover, TLAPS

\* A content has its digest.
LEMMA DigestTypes == \A x \in Contents : DigestOf[x] \in Digests
BY DEF Digests

\* An idle record is well typed: there is a key to fill it with.
LEMMA SomeKeyIsKey == SomeKey \in Key
<1>1. \E k \in Key : TRUE
  <2>1. PICK d \in Drafts, x \in Contents : TRUE
    BY SomeDraftAssumption
  <2>2. [draft |-> d, rev |-> 1, digest |-> DigestOf[x]] \in Key
    BY <2>1, DigestTypes, BoundAssumption DEF Key, Revisions
  <2>3. QED
    BY <2>2
<1>2. QED
  BY <1>1 DEF SomeKey

\* The fields a key is made of.
LEMMA KeyFields ==
  ASSUME NEW k \in Key
  PROVE  k.draft \in Drafts /\ k.rev \in Revisions /\ k.digest \in Digests
BY DEF Key

\* Idle handler records are of their types.
LEMMA IdleTypes == IdleCaller \in CallerRecord /\ IdleWorker \in WorkerRecord
<1>1. SomeKey \in Key /\ SomeContent \in Contents
  BY SomeKeyIsKey, SomeDraftAssumption DEF SomeContent
<1>2. 0 \in 0 .. MaxFence /\ 0 \in 0 .. MaxAuthRevision /\ 1 \in Revisions
  BY BoundAssumption DEF Revisions
<1>3. IdleCaller \in CallerRecord
  BY <1>1, <1>2 DEF IdleCaller, CallerRecord, CallerPc
<1>4. IdleWorker \in WorkerRecord
  BY <1>1, <1>2 DEF IdleWorker, WorkerRecord, WorkerPc, Results
<1>5. QED
  BY <1>3, <1>4

LEMMA NoOperationType == NoOperation \in Operation
BY BoundAssumption DEF NoOperation, Operation, OpStatus, Owners

-----------------------------------------------------------------------------
(* Type correctness: one lemma per actor.                                  *)

LEMMA InitType == Init => TypeOK
<1> SUFFICES ASSUME Init PROVE TypeOK
  OBVIOUS
<1>1. NoOperation \in Operation
  BY NoOperationType
<1>2. draft \in [Drafts -> DraftRecord]
  BY BoundAssumption DEF Init, Revisions, DraftRecord
<1>3. caller \in [Callers -> CallerRecord] /\ worker \in [Workers -> WorkerRecord]
  BY IdleTypes DEF Init
<1>4. QED
  BY <1>1, <1>2, <1>3, BoundAssumption DEF Init, TypeOK, CallerRecord, WorkerRecord

\* Replacing fields of one row keeps a table well typed.
LEMMA OperationStatusUpdate ==
  ASSUME NEW f \in [Key -> Operation], NEW k \in Key, NEW s \in OpStatus, NEW n \in Owners,
         NEW e \in BOOLEAN
  PROVE  /\ [f EXCEPT ![k].status = s] \in [Key -> Operation]
         /\ [f EXCEPT ![k].expired = e] \in [Key -> Operation]
         /\ [f EXCEPT ![k].status = s, ![k].owner = n, ![k].expired = e] \in [Key -> Operation]
<1>1. f[k] \in Operation
  OBVIOUS
<1>2. /\ [f[k] EXCEPT !.status = s] \in Operation
      /\ [f[k] EXCEPT !.expired = e] \in Operation
      /\ [f[k] EXCEPT !.status = s, !.owner = n, !.expired = e] \in Operation
  BY <1>1 DEF Operation
<1>3. /\ [f EXCEPT ![k].status = s] = [f EXCEPT ![k] = [f[k] EXCEPT !.status = s]]
      /\ [f EXCEPT ![k].expired = e] = [f EXCEPT ![k] = [f[k] EXCEPT !.expired = e]]
      /\ [f EXCEPT ![k].status = s, ![k].owner = n, ![k].expired = e]
           = [f EXCEPT ![k] = [f[k] EXCEPT !.status = s, !.owner = n, !.expired = e]]
  OBVIOUS
<1>. QED  BY <1>2, <1>3

\* The states handlers and rows can be in.
LEMMA States ==
  /\ \A s \in {"idle", "leased", "sending", "loaded", "cleared", "calling", "replied"} : s \in WorkerPc
  /\ \A s \in {"idle", "reviewing", "evaluated", "decided", "approve_checked", "saved", "editing",
               "edit_checked"} : s \in CallerPc
  /\ \A s \in {"none", "queued", "leased", "sending", "outcome_unknown", "reconciled_succeeded",
               "retry_wait", "manual_resolution", "succeeded", "dead_letter"} : s \in OpStatus
  /\ \A r \in Results : r \in OpStatus
  /\ NoOne \in Owners
  /\ \A w \in Workers : WorkerId[w] \in Owners
BY DEF WorkerPc, CallerPc, OpStatus, HeldStatus, LeasableStatus, FinalStatus, Results, Owners

LEMMA HostStepType == TypeOK /\ HostStep => TypeOK'
<1> SUFFICES ASSUME TypeOK, HostStep PROVE TypeOK'
  OBVIOUS
<1>1. ASSUME NEW k \in Key, GrantApproval(k) \/ RevokeApproval(k) PROVE TypeOK'
  BY <1>1 DEF TypeOK, GrantApproval, RevokeApproval
<1>2. ASSUME NEW e \in BOOLEAN, SavePolicy(e) PROVE TypeOK'
  BY <1>2, BoundAssumption DEF TypeOK, SavePolicy
<1>3. CASE PolicyExpires
  BY <1>3 DEF TypeOK, PolicyExpires
<1>4. CASE RevokeGrant
  BY <1>4 DEF TypeOK, RevokeGrant
<1>5. CASE GrantExpires
  BY <1>5 DEF TypeOK, GrantExpires
<1>6. CASE ConnectionChanges
  BY <1>6 DEF TypeOK, ConnectionChanges
<1>7. QED
  BY <1>1, <1>2, <1>3, <1>4, <1>5, <1>6 DEF HostStep

LEMMA CallerStepType ==
  ASSUME TypeOK, NEW c \in Callers, CallerStep(c)
  PROVE  TypeOK'
<1>r. /\ caller \in [Callers -> CallerRecord] /\ caller[c] \in CallerRecord
      /\ draft \in [Drafts -> DraftRecord] /\ op \in [Key -> Operation]
  BY DEF TypeOK
<1>k. /\ caller[c].key \in Key /\ caller[c].content \in Contents
      /\ caller[c].policyRev \in 0 .. MaxAuthRevision /\ caller[c].grantRev \in 0 .. 2
      /\ caller[c].confirmed \in BOOLEAN
  BY <1>r DEF CallerRecord
<1>f. caller[c].key.draft \in Drafts /\ caller[c].key.rev \in Revisions
  BY <1>k, KeyFields
<1>d. ASSUME caller' \in [Callers -> CallerRecord],
             UNCHANGED <<draft, op, hostVars, accepted, worker>>
      PROVE  TypeOK'
  BY <1>d DEF TypeOK, hostVars
<1>i. [caller EXCEPT ![c] = IdleCaller] \in [Callers -> CallerRecord]
  BY <1>r, IdleTypes
<1>1. ASSUME NEW d \in Drafts, NEW new \in Contents, NEW step \in CallerPc,
             Call(c, step, Snapshot(d), new)
      PROVE  caller' \in [Callers -> CallerRecord]
  <2>1. Snapshot(d) \in Key
    BY <1>r, DigestTypes DEF Snapshot, Key, DraftRecord
  <2>2. [IdleCaller EXCEPT !.pc = step, !.key = Snapshot(d), !.content = new] \in CallerRecord
    BY <2>1, IdleTypes DEF CallerRecord
  <2>3. QED
    BY <2>2, <1>r, <1>1 DEF Call
<1>2. ASSUME NEW d \in Drafts, ReviewDraft(c, d) PROVE TypeOK'
  <2>1. draft[d].content \in Contents
    BY <1>r DEF DraftRecord
  <2>2. QED
    BY <2>1, <1>1, <1>2, <1>d, States DEF ReviewDraft
<1>3. ASSUME NEW d \in Drafts, NEW new \in Contents, ReadForEdit(c, d, new) PROVE TypeOK'
  BY <1>1, <1>3, <1>d, States DEF ReadForEdit
<1>4. CASE EvaluatePolicy(c)
  <2>1. PICK g \in 0 .. 2 :
          caller' = [caller EXCEPT ![c].pc = "evaluated", ![c].policyRev = policy.rev,
                                   ![c].grantRev = g]
    <3>1. PICK useGrant \in BOOLEAN :
            caller' = [caller EXCEPT ![c].pc = "evaluated", ![c].policyRev = policy.rev,
                                     ![c].grantRev = IF useGrant THEN grant.rev ELSE 0]
      BY <1>4 DEF EvaluatePolicy
    <3>2. (IF useGrant THEN grant.rev ELSE 0) \in 0 .. 2
      BY DEF TypeOK
    <3>3. QED
      BY <3>1, <3>2
  <2>2. policy.rev \in 0 .. MaxAuthRevision
    BY BoundAssumption DEF TypeOK
  <2>3. caller' \in [Callers -> CallerRecord]
    BY <2>1, <2>2, <1>r, States DEF CallerRecord
  <2>4. QED
    BY <2>3, <1>d, <1>4 DEF EvaluatePolicy
<1>11. CASE ConfirmSend(c)
  <2>1. PICK confirmed \in BOOLEAN :
          caller' = [caller EXCEPT ![c].pc = "decided", ![c].confirmed = confirmed]
    BY <1>11 DEF ConfirmSend
  <2>2. caller' \in [Callers -> CallerRecord]
    BY <2>1, <1>r, States DEF CallerRecord
  <2>3. QED
    BY <2>2, <1>d, <1>11 DEF ConfirmSend
<1>5. ASSUME NEW b, NEW a \in CallerPc, CheckRevision(c, b, a) PROVE TypeOK'
  <2>1. caller' \in [Callers -> CallerRecord]
    BY <1>5, <1>r DEF CheckRevision, CallerRecord
  <2>2. QED
    BY <2>1, <1>d, <1>5 DEF CheckRevision
<1>n. caller[c].key.rev < MaxRevision => caller[c].key.rev + 1 \in Revisions
  BY <1>f, BoundAssumption DEF Revisions
<1>6. CASE SaveApproved(c)
  <2>1. caller' \in [Callers -> CallerRecord]
    BY <1>6, <1>r, States DEF SaveApproved, CallerRecord
  <2>2. [rev |-> caller[c].key.rev + 1, content |-> caller[c].content, status |-> "approved"]
          \in DraftRecord
    BY <1>n, <1>k, <1>6 DEF SaveApproved, MayWrite, DraftRecord
  <2>3. draft' \in [Drafts -> DraftRecord]
    BY <2>2, <1>r, <1>f, <1>6 DEF SaveApproved
  <2>4. QED
    BY <2>1, <2>3, <1>6 DEF SaveApproved, TypeOK, hostVars
<1>7. CASE QueueOperation(c)
  <2>1. caller' \in [Callers -> CallerRecord]
    BY <1>7, <1>i DEF QueueOperation
  <2>2. [NoOperation EXCEPT !.status = "queued", !.policyRev = caller[c].policyRev,
                            !.grantRev = caller[c].grantRev,
                            !.confirmed = caller[c].confirmed] \in Operation
    <3>1. NoOperation \in Operation
      BY NoOperationType
    <3>2. QED
      BY <3>1, <1>k, States DEF Operation
  <2>3. op' \in [Key -> Operation]
    BY <2>2, <1>r, <1>k, <1>7 DEF QueueOperation
  <2>4. QED
    BY <2>1, <2>3, <1>7 DEF QueueOperation, TypeOK, hostVars
<1>8. CASE SaveEdit(c)
  <2>1. caller' \in [Callers -> CallerRecord]
    BY <1>8, <1>i DEF SaveEdit
  <2>2. [rev |-> caller[c].key.rev + 1, content |-> caller[c].content, status |-> "draft"]
          \in DraftRecord
    BY <1>n, <1>k, <1>8 DEF SaveEdit, MayWrite, DraftRecord
  <2>3. draft' \in [Drafts -> DraftRecord]
    BY <2>2, <1>r, <1>f, <1>8 DEF SaveEdit
  <2>4. QED
    BY <2>1, <2>3, <1>8 DEF SaveEdit, TypeOK, hostVars
<1>9. CASE CallerStops(c)
  BY <1>9, <1>i, <1>d DEF CallerStops
<1>10. QED
  BY <1>2, <1>3, <1>4, <1>5, <1>6, <1>7, <1>8, <1>9, <1>11, States DEF CallerStep

LEMMA WorkerStepType ==
  ASSUME TypeOK, NEW w \in Workers, WorkerStep(w)
  PROVE  TypeOK'
<1>r. /\ worker \in [Workers -> WorkerRecord] /\ worker[w] \in WorkerRecord
      /\ op \in [Key -> Operation] /\ accepted \in [Key -> Nat]
  BY DEF TypeOK
<1>k. worker[w].key \in Key /\ worker[w].result \in Results /\ worker[w].key.draft \in Drafts
  BY <1>r, KeyFields DEF WorkerRecord
<1>d. ASSUME worker' \in [Workers -> WorkerRecord],
             UNCHANGED <<draft, op, hostVars, accepted, caller>>
      PROVE  TypeOK'
  BY <1>d DEF TypeOK, hostVars
<1>i. [worker EXCEPT ![w] = IdleWorker] \in [Workers -> WorkerRecord]
  BY <1>r, IdleTypes
<1>s. \A s \in {"sending", "cleared", "calling"} :
        [worker EXCEPT ![w].pc = s] \in [Workers -> WorkerRecord]
  BY <1>r, States DEF WorkerRecord
<1>t. \A r \in Results :
        [worker EXCEPT ![w].pc = "replied", ![w].result = r] \in [Workers -> WorkerRecord]
  BY <1>r, States DEF WorkerRecord
<1>1. ASSUME NEW k \in Key, LeaseOperation(w, k) PROVE TypeOK'
  <2>1. op[k].fence + 1 \in 0 .. MaxFence /\ op[k] \in Operation
    BY <1>1, <1>r, BoundAssumption DEF LeaseOperation, Operation
  <2>2. [op[k] EXCEPT !.status = "leased", !.owner = WorkerId[w], !.fence = op[k].fence + 1,
                      !.expired = FALSE] \in Operation
    BY <2>1, States DEF Operation
  <2>3. op' \in [Key -> Operation]
    BY <2>2, <1>r, <1>1 DEF LeaseOperation
  <2>4. {x \in Contents : AuthorityStands(k, x)} \in SUBSET Contents
    OBVIOUS
  <2>5. [IdleWorker EXCEPT !.pc = "leased", !.key = k, !.token = op[k].fence + 1,
                           !.authAtLease = {x \in Contents : AuthorityStands(k, x)}]
          \in WorkerRecord
    BY <2>1, <2>4, States, IdleTypes DEF WorkerRecord
  <2>6. worker' \in [Workers -> WorkerRecord]
    BY <2>5, <1>r, <1>1 DEF LeaseOperation
  <2>7. QED
    BY <2>3, <2>6, <1>1 DEF LeaseOperation, TypeOK, hostVars
<1>2. CASE MarkSending(w)
  <2>1. op' \in [Key -> Operation]
    BY <1>2, <1>r, <1>k, States, OperationStatusUpdate DEF MarkSending
  <2>2. worker' \in [Workers -> WorkerRecord]
    BY <1>2, <1>s DEF MarkSending
  <2>3. QED
    BY <2>1, <2>2, <1>2 DEF MarkSending, TypeOK, hostVars
<1>3. CASE LoadSources(w)
  <2>1. draft[worker[w].key.draft] \in DraftRecord /\ connActive \in BOOLEAN
    BY <1>k DEF TypeOK
  <2>2. worker' \in [Workers -> WorkerRecord]
    BY <2>1, <1>3, <1>r, States DEF LoadSources, WorkerRecord, DraftRecord
  <2>3. QED
    BY <2>2, <1>d, <1>3 DEF LoadSources
<1>4. CASE Authorize(w)
  <2>1. worker' \in [Workers -> WorkerRecord]
    BY <1>4, <1>s, <1>t DEF Authorize, Results
  <2>2. QED
    BY <2>1, <1>d, <1>4 DEF Authorize
<1>5. CASE StopBeforeCall(w)
  <2>0. PICK r \in Results : worker' = [worker EXCEPT ![w].pc = "replied", ![w].result = r]
    BY <1>5 DEF StopBeforeCall, Results
  <2>1. worker' \in [Workers -> WorkerRecord]
    BY <2>0, <1>t
  <2>2. QED
    BY <2>1, <1>d, <1>5 DEF StopBeforeCall
<1>6. CASE StartCall(w)
  <2>1. worker' \in [Workers -> WorkerRecord]
    BY <1>6, <1>s DEF StartCall
  <2>2. QED
    BY <2>1, <1>d, <1>6 DEF StartCall
<1>7. CASE CallProvider(w)
  <2>1. PICK took \in BOOLEAN, r \in Results :
          /\ accepted' = [accepted EXCEPT ![worker[w].key] = IF took THEN @ + 1 ELSE @]
          /\ worker' = [worker EXCEPT ![w].pc = "replied", ![w].result = r]
    BY <1>7 DEF CallProvider
  <2>2. worker' \in [Workers -> WorkerRecord]
    BY <2>1, <1>t
  <2>3. accepted' \in [Key -> Nat]
    BY <2>1, <1>r, <1>k
  <2>4. QED
    BY <2>2, <2>3, <1>7 DEF CallProvider, TypeOK, hostVars
<1>8. CASE CompleteOperation(w)
  <2>1. worker[w].result \in OpStatus /\ op[worker[w].key] \in Operation
    BY <1>k, <1>r, States
  <2>2. op' \in [Key -> Operation]
    BY <2>1, <1>8, <1>k, <1>r, States DEF CompleteOperation, Operation
  <2>3. QED
    BY <2>2, <1>i, <1>8 DEF CompleteOperation, TypeOK, hostVars
<1>9. CASE FencedOut(w) \/ WorkerCrashes(w)
  BY <1>9, <1>i, <1>d DEF FencedOut, WorkerCrashes
<1>10. QED
  BY <1>1, <1>2, <1>3, <1>4, <1>5, <1>6, <1>7, <1>8, <1>9 DEF WorkerStep, WorkerProgress

LEMMA OperationStepType ==
  ASSUME TypeOK, NEW k \in Key, OperationStep(k)
  PROVE  TypeOK'
<1>r. op \in [Key -> Operation]
  BY DEF TypeOK
<1>1. CASE LeaseExpires(k)
  <2>1. op' \in [Key -> Operation]
    BY <1>1, <1>r, States, OperationStatusUpdate DEF LeaseExpires
  <2>2. QED
    BY <2>1, <1>1 DEF LeaseExpires, TypeOK, hostVars
<1>2. CASE RecoverExpired(k)
  <2>1. op' \in [Key -> Operation]
    BY <1>2, <1>r, States, OperationStatusUpdate DEF RecoverExpired
  <2>2. QED
    BY <2>1, <1>2 DEF RecoverExpired, TypeOK, hostVars
<1>3. ASSUME NEW s \in OpStatus, ReconcileOutcomeUnknown(k, s) PROVE TypeOK'
  <2>1. op' \in [Key -> Operation]
    BY <1>3, <1>r, States, OperationStatusUpdate DEF ReconcileOutcomeUnknown
  <2>2. QED
    BY <2>1, <1>3 DEF ReconcileOutcomeUnknown, TypeOK, hostVars
<1>4. QED
  BY <1>1, <1>2, <1>3 DEF OperationStep

LEMMA StutterType == TypeOK /\ UNCHANGED vars => TypeOK'
BY DEF TypeOK, vars, hostVars

LEMMA StepType == TypeOK /\ [Next]_vars => TypeOK'
BY HostStepType, CallerStepType, WorkerStepType, OperationStepType, StutterType DEF Next

\* Every variable keeps its type: rows, snapshots and handler states.
THEOREM TypeCorrect == Spec => []TypeOK
BY InitType, StepType, PTL DEF Spec

-----------------------------------------------------------------------------
(* Fencing: holds however late workers are, and whatever providers answer. *)

\* Every execution at work holds a token of its own for its operation.
TokenInv ==
  /\ \A w \in Workers : Busy(w) => worker[w].token <= op[worker[w].key].fence
  /\ \A v, w \in Workers :
       Busy(v) /\ Busy(w) /\ worker[v].key = worker[w].key /\ v # w
         => worker[v].token # worker[w].token

\* Only a held operation has an owner, and a missing row has nothing.
OwnerInv ==
  \A k \in Key : /\ op[k].owner # NoOne => op[k].status \in HeldStatus
                 /\ op[k].status = "none" => op[k] = NoOperation

FenceInv == TokenInv /\ OwnerInv

\* A step that takes no lease disturbs no token.
LEMMA TokenFrame ==
  ASSUME TypeOK, TypeOK', TokenInv,
         \A v \in Workers : Busy(v)' => /\ Busy(v)
                                        /\ worker'[v].key = worker[v].key
                                        /\ worker'[v].token = worker[v].token,
         \A k \in Key : op'[k].fence = op[k].fence
  PROVE  TokenInv'
<1>1. \A v \in Workers : worker'[v].key \in Key
  BY DEF TypeOK, WorkerRecord
<1>2. QED
  BY <1>1 DEF TokenInv

\* What one step may do to the worker that takes it, and to its operation.
LEMMA WorkerShape ==
  ASSUME TypeOK, NEW w \in Workers, WorkerProgress(w) \/ WorkerCrashes(w)
  PROVE  /\ \A v \in Workers : Busy(v)' => /\ Busy(v)
                                           /\ worker'[v].key = worker[v].key
                                           /\ worker'[v].token = worker[v].token
         /\ \A k \in Key : op'[k].fence = op[k].fence
<1>r. /\ worker \in [Workers -> WorkerRecord] /\ worker[w] \in WorkerRecord
      /\ op \in [Key -> Operation] /\ worker[w].key \in Key
  BY DEF TypeOK, WorkerRecord
<1>1. CASE FencedOut(w) \/ WorkerCrashes(w)
  BY <1>1, <1>r DEF FencedOut, WorkerCrashes, IdleWorker, Busy
<1>2. CASE CompleteOperation(w)
  BY <1>2, <1>r DEF CompleteOperation, IdleWorker, Busy, Operation
<1>3. CASE MarkSending(w)
  BY <1>3, <1>r DEF MarkSending, Busy, Operation, WorkerRecord
<1>4. CASE LoadSources(w)
  BY <1>4, <1>r DEF LoadSources, Busy, WorkerRecord
<1>5. CASE Authorize(w)
  BY <1>5, <1>r DEF Authorize, Busy, WorkerRecord
<1>6. CASE StopBeforeCall(w) \/ StartCall(w)
  BY <1>6, <1>r DEF StopBeforeCall, StartCall, Busy, WorkerRecord
<1>7. CASE CallProvider(w)
  BY <1>7, <1>r DEF CallProvider, Busy, WorkerRecord
<1>8. QED
  BY <1>1, <1>2, <1>3, <1>4, <1>5, <1>6, <1>7 DEF WorkerProgress

LEMMA FenceInductive == TypeOK /\ TypeOK' /\ FenceInv /\ [Next]_vars => FenceInv'
<1> SUFFICES ASSUME TypeOK, TypeOK', FenceInv, [Next]_vars PROVE FenceInv'
  OBVIOUS
<1>r. worker \in [Workers -> WorkerRecord] /\ op \in [Key -> Operation]
  BY DEF TypeOK
<1>1. CASE UNCHANGED <<op, worker>>
  BY <1>1 DEF FenceInv, TokenInv, OwnerInv, Busy
<1>2. ASSUME NEW w \in Workers, NEW k \in Key, LeaseOperation(w, k) PROVE FenceInv'
  <2>1. /\ op' = [op EXCEPT ![k].status = "leased", ![k].owner = WorkerId[w],
                            ![k].fence = op[k].fence + 1, ![k].expired = FALSE]
        /\ worker'[w].key = k /\ worker'[w].token = op[k].fence + 1
        /\ \A v \in Workers : v # w => worker'[v] = worker[v]
    BY <1>2, <1>r DEF LeaseOperation, IdleWorker
  <2>2. /\ op'[k].fence = op[k].fence + 1 /\ op'[k].status = "leased"
        /\ \A j \in Key : j # k => op'[j] = op[j]
    BY <2>1, <1>r DEF Operation
  <2>3. /\ \A j \in Key : op[j].fence \in Nat
        /\ \A v \in Workers : worker[v].key \in Key /\ worker[v].token \in Nat
    BY BoundAssumption DEF TypeOK, WorkerRecord, Operation
  <2>4. \A v \in Workers : Busy(v) => worker[v].token <= op[worker[v].key].fence
    BY DEF FenceInv, TokenInv
  <2>5. \A v \in Workers : v # w /\ Busy(v)' =>
          /\ worker'[v].token <= op[worker'[v].key].fence
          /\ worker'[v].key = k => worker'[v].token # op[k].fence + 1
    BY <2>1, <2>3, <2>4 DEF Busy
  <2>6. \A v \in Workers : Busy(v)' => worker'[v].token <= op'[worker'[v].key].fence
    <3>1. op'[k].fence \in Nat /\ worker'[w].token <= op'[k].fence
      BY <2>1, <2>2, <2>3
    <3>2. \A j \in Key : op[j].fence \in Nat /\ op'[j].fence \in Nat /\ op[j].fence <= op'[j].fence
      <4>1. \A j \in Key : j # k => op'[j].fence = op[j].fence
        BY <2>2
      <4>2. QED
        BY <4>1, <2>2, <2>3
    <3>3. \A v \in Workers : v # w => worker'[v].key \in Key /\ worker'[v].token \in Nat
      BY <2>1, <2>3
    <3>4. ASSUME NEW v \in Workers, v # w, Busy(v)'
          PROVE  worker'[v].token <= op'[worker'[v].key].fence
      BY <3>2, <3>3, <3>4, <2>5
    <3>5. worker'[w].token <= op'[worker'[w].key].fence
      BY <3>1, <2>1
    <3>6. QED
      BY <3>4, <3>5
  <2>7. \A u, v \in Workers :
          Busy(u)' /\ Busy(v)' /\ worker'[u].key = worker'[v].key /\ u # v
            => worker'[u].token # worker'[v].token
    BY <2>1, <2>5 DEF FenceInv, TokenInv, Busy
  <2>8. OwnerInv'
    BY <2>2 DEF FenceInv, OwnerInv, HeldStatus
  <2>9. QED
    BY <2>6, <2>7, <2>8 DEF FenceInv, TokenInv
<1>3. ASSUME NEW w \in Workers, WorkerProgress(w) \/ WorkerCrashes(w) PROVE FenceInv'
  <2>1. TokenInv'
    BY <1>3, WorkerShape, TokenFrame DEF FenceInv
  <2>2. worker[w].key \in Key
    BY <1>r DEF WorkerRecord
  <2>3. OwnerInv'
    <3>1. CASE MarkSending(w)
      BY <3>1, <1>r, <2>2 DEF MarkSending, FenceInv, OwnerInv, Operation, HeldStatus
    <3>2. CASE CompleteOperation(w)
      <4>1. /\ op'[worker[w].key].owner = NoOne /\ op'[worker[w].key].status = worker[w].result
            /\ \A j \in Key \ {worker[w].key} : op'[j] = op[j]
        BY <3>2, <1>r, <2>2 DEF CompleteOperation, Operation
      <4>2. worker[w].result # "none"
        BY <1>r DEF WorkerRecord, Results
      <4>. QED  BY <2>2, <4>1, <4>2 DEF FenceInv, OwnerInv
    <3>3. CASE UNCHANGED op
      BY <3>3 DEF FenceInv, OwnerInv
    <3>4. QED
      BY <1>3, <3>1, <3>2, <3>3 DEF WorkerProgress, WorkerCrashes, LoadSources, Authorize,
         StopBeforeCall, StartCall, CallProvider, FencedOut
  <2>4. QED
    BY <2>1, <2>3 DEF FenceInv
<1>4. ASSUME NEW k \in Key, OperationStep(k) PROVE FenceInv'
  <2> DEFINE Row(j) == /\ op'[j].fence = op[j].fence
                       /\ \/ op'[j].owner = NoOne
                          \/ op'[j].owner = op[j].owner /\ op'[j].status = op[j].status
                       /\ op'[j].status = "none" => op'[j] = op[j]
  <2>1. UNCHANGED worker /\ \A j \in Key : Row(j)
    <3>1. CASE LeaseExpires(k)
      BY <3>1, <1>r DEF LeaseExpires, Operation, HeldStatus
    <3>2. CASE RecoverExpired(k)
      BY <3>2, <1>r DEF RecoverExpired, Operation
    <3>3. ASSUME NEW s \in OpStatus, ReconcileOutcomeUnknown(k, s)
          PROVE  UNCHANGED worker /\ \A j \in Key : Row(j)
      BY <3>3, <1>r DEF ReconcileOutcomeUnknown, Evidence, Operation
    <3>4. QED
      BY <1>4, <3>1, <3>2, <3>3 DEF OperationStep
  <2>2. TokenInv'
    BY <2>1, TokenFrame DEF FenceInv, Busy
  <2>3. OwnerInv'
    BY <2>1 DEF FenceInv, OwnerInv
  <2>4. QED
    BY <2>2, <2>3 DEF FenceInv
<1>5. ASSUME NEW c \in Callers, QueueOperation(c) PROVE FenceInv'
  <2>1. caller[c].key \in Key
    BY DEF TypeOK, CallerRecord
  <2>2. \A j \in Key : op'[j] = op[j] \/ (op[j].status = "none" /\ op'[j].status = "queued"
                                          /\ op'[j].fence = 0 /\ op'[j].owner = NoOne)
    BY <1>5, <1>r, <2>1 DEF QueueOperation, NoOperation
  <2>3. \A j \in Key : op'[j].fence = op[j].fence
    BY <2>2 DEF FenceInv, OwnerInv, NoOperation
  <2>4. UNCHANGED worker
    BY <1>5 DEF QueueOperation
  <2>5. TokenInv'
    BY <2>3, <2>4, TokenFrame DEF FenceInv, Busy
  <2>6. OwnerInv'
    BY <2>2 DEF FenceInv, OwnerInv
  <2>7. QED
    BY <2>5, <2>6 DEF FenceInv
<1>6. ASSUME NEW c \in Callers, CallerStep(c), ~QueueOperation(c) PROVE FenceInv'
  <2>1. UNCHANGED <<op, worker>>
    BY <1>6 DEF CallerStep, ReviewDraft, ReadForEdit, EvaluatePolicy, ConfirmSend,
       CheckRevision, SaveApproved, SaveEdit, CallerStops
  <2>2. QED
    BY <2>1, <1>1
<1>7. CASE HostStep
  BY <1>1, <1>7 DEF HostStep, GrantApproval, RevokeApproval, SavePolicy, PolicyExpires,
     RevokeGrant, GrantExpires, ConnectionChanges
<1>8. CASE UNCHANGED vars
  BY <1>1, <1>8 DEF vars
<1>9. QED
  BY <1>2, <1>3, <1>4, <1>5, <1>6, <1>7, <1>8 DEF Next, WorkerStep

LEMMA FenceInit == Init => FenceInv
BY DEF Init, FenceInv, TokenInv, OwnerInv, IdleWorker, NoOperation, Busy

LEMMA FenceInvariant == Spec => []FenceInv
<1>1. TypeOK /\ TypeOK' /\ FenceInv /\ [Next]_vars => FenceInv'
  BY FenceInductive
<1>2. QED
  BY TypeCorrect, FenceInit, <1>1, PTL DEF Spec

\* At most one execution passes the lease check of an operation, for any number
\* of workers under any worker_ids and however late they are: the fencing token
\* alone tells them apart.
THEOREM FencedLease == Spec => []OneLeaseHolder
<1>1. TypeOK /\ FenceInv => OneLeaseHolder
  BY DEF FenceInv, TokenInv, OneLeaseHolder, Owned
<1>2. QED
  BY <1>1, TypeCorrect, FenceInvariant, PTL

\* No completion, recovery or reconciliation, however late, rewrites an outcome
\* that is final.
THEOREM FinalOutcomes == Spec => FinalOutcomeIsFinal
<1> DEFINE Kept == \A k \in Key : op[k].status \in FinalStatus => op'[k].status = op[k].status
<1>1. TypeOK /\ FenceInv /\ [Next]_vars => [Kept]_op
  <2> SUFFICES ASSUME TypeOK, FenceInv, [Next]_vars, op' # op PROVE Kept
    OBVIOUS
  <2> USE DEF FinalStatus
  <2>r. /\ worker \in [Workers -> WorkerRecord] /\ op \in [Key -> Operation]
        /\ \A w \in Workers : worker[w].key \in Key
        /\ \A c \in Callers : caller[c].key \in Key
    BY DEF TypeOK, WorkerRecord, CallerRecord
  <2>o. ASSUME NEW w \in Workers, Owned(w) PROVE op[worker[w].key].status \in HeldStatus
    BY <2>o, <2>r, WorkerIdAssumption DEF Owned, FenceInv, OwnerInv
  <2>1. ASSUME NEW w \in Workers, NEW k \in Key, LeaseOperation(w, k) PROVE Kept
    BY <2>1, <2>r DEF LeaseOperation, LeasableStatus, Operation
  <2>2. ASSUME NEW w \in Workers, MarkSending(w) PROVE Kept
    BY <2>2, <2>r, <2>o DEF MarkSending, HeldStatus, Operation
  <2>3. ASSUME NEW w \in Workers, CompleteOperation(w) PROVE Kept
    BY <2>3, <2>r, <2>o DEF CompleteOperation, HeldStatus, Operation
  <2>4. ASSUME NEW k \in Key, OperationStep(k) PROVE Kept
    <3>1. CASE LeaseExpires(k)
      BY <3>1, <2>r DEF LeaseExpires, Operation
    <3>2. CASE RecoverExpired(k)
      BY <3>2, <2>r DEF RecoverExpired, HeldStatus, Operation
    <3>3. ASSUME NEW s \in OpStatus, ReconcileOutcomeUnknown(k, s) PROVE Kept
      BY <3>3, <2>r DEF ReconcileOutcomeUnknown, Operation
    <3>4. QED
      BY <2>4, <3>1, <3>2, <3>3 DEF OperationStep
  <2>5. ASSUME NEW c \in Callers, QueueOperation(c) PROVE Kept
    BY <2>5, <2>r DEF QueueOperation
  <2>6. ASSUME NEW w \in Workers, WorkerProgress(w) \/ WorkerCrashes(w) PROVE Kept
    BY <2>6, <2>2, <2>3 DEF WorkerProgress, WorkerCrashes, LoadSources, Authorize,
       StopBeforeCall, StartCall, CallProvider, FencedOut
  <2>7. ASSUME NEW c \in Callers, CallerStep(c) PROVE Kept
    BY <2>7, <2>5 DEF CallerStep, ReviewDraft, ReadForEdit, EvaluatePolicy, ConfirmSend,
       CheckRevision, SaveApproved, SaveEdit, CallerStops
  <2>8. ~HostStep
    BY DEF HostStep, GrantApproval, RevokeApproval, SavePolicy, PolicyExpires, RevokeGrant,
       GrantExpires, ConnectionChanges
  <2>9. QED
    BY <2>1, <2>4, <2>6, <2>7, <2>8 DEF Next, WorkerStep, vars
<1>2. QED
  BY <1>1, TypeCorrect, FenceInvariant, PTL DEF Spec, FinalOutcomeIsFinal

-----------------------------------------------------------------------------
(* Delivery: workers outlive no lease and providers answer readably.       *)

\* What an execution at work relies on: the lease is its own and runs, and
\* nothing has been delivered but what its reply says.
WorkInv(w) ==
  LET k == worker[w].key IN
  /\ Owned(w) /\ op[k].status \in HeldStatus /\ ~op[k].expired
  /\ worker[w].pc # "replied" => accepted[k] = 0
  /\ worker[w].pc = "replied" =>
       /\ worker[w].result \in {"retry_wait", "dead_letter"} => accepted[k] = 0
       /\ worker[w].result = "succeeded" => accepted[k] = 1

\* What a row says of its message.
RowInv(k) ==
  /\ accepted[k] <= 1
  /\ op[k].status \in LeasableStatus \cup {"none", "dead_letter"} => accepted[k] = 0
  /\ op[k].status \in {"succeeded", "reconciled_succeeded"} => accepted[k] = 1

DeliveryInv ==
  /\ \A k \in Key : RowInv(k)
  /\ \A w \in Workers : Busy(w) => WorkInv(w)

\* The parts of the state DeliveryInv is about, typed.
LEMMA DeliveryTypes ==
  ASSUME TypeOK
  PROVE  /\ worker \in [Workers -> WorkerRecord] /\ op \in [Key -> Operation]
         /\ accepted \in [Key -> Nat]
         /\ \A w \in Workers : worker[w].key \in Key /\ worker[w] \in WorkerRecord
         /\ \A c \in Callers : caller[c].key \in Key
BY DEF TypeOK, WorkerRecord, CallerRecord

\* A step that leaves an operation alone leaves what is known of it alone.
LEMMA DeliveryFrame ==
  ASSUME NEW w \in Workers, WorkInv(w), worker'[w] = worker[w],
         op'[worker[w].key] = op[worker[w].key],
         accepted'[worker[w].key] = accepted[worker[w].key]
  PROVE  WorkInv(w)'
BY DEF WorkInv, Owned

LEMMA DeliveryWorkerStep ==
  ASSUME ~GarbledReceipts, TypeOK, OneLeaseHolder, DeliveryInv,
         NEW w \in Workers, WorkerProgress(w) \/ WorkerCrashes(w),
         NEW k \in Key, worker[w].key = k
  PROVE  DeliveryInv'
<1>r. /\ worker \in [Workers -> WorkerRecord] /\ op \in [Key -> Operation]
      /\ accepted \in [Key -> Nat] /\ worker[w] \in WorkerRecord
      /\ \A v \in Workers : worker[v].key \in Key
  BY DeliveryTypes
<1>b. Busy(w)
  BY DEF WorkerProgress, WorkerCrashes, MarkSending, LoadSources, Authorize, StopBeforeCall,
     StartCall, CallProvider, CompleteOperation, FencedOut, Busy
<1>w. WorkInv(w) /\ RowInv(k)
  BY <1>b, <1>r DEF DeliveryInv
<1>o. \A v \in Workers : v # w /\ Busy(v) => WorkInv(v) /\ worker[v].key # k
  BY <1>b, <1>w DEF DeliveryInv, WorkInv, OneLeaseHolder
<1>f. ASSUME \A v \in Workers : v # w => worker'[v] = worker[v],
             \A j \in Key : j # k => op'[j] = op[j] /\ accepted'[j] = accepted[j],
             RowInv(k)', Busy(w)' => WorkInv(w)'
      PROVE  DeliveryInv'
  <2>1. \A j \in Key : RowInv(j)'
    BY <1>f DEF DeliveryInv, RowInv
  <2>2. ASSUME NEW v \in Workers, v # w, Busy(v)' PROVE WorkInv(v)'
    <3>1. Busy(v)
      BY <1>f, <2>2 DEF Busy
    <3>2. QED
      BY <3>1, <1>f, <1>o, <1>r, <2>2, DeliveryFrame
  <2>3. QED
    BY <1>f, <2>1, <2>2 DEF DeliveryInv
<1>u. \A v \in Workers : v # w => worker'[v] = worker[v]
  BY <1>r DEF WorkerProgress, WorkerCrashes, MarkSending, LoadSources, Authorize,
     StopBeforeCall, StartCall, CallProvider, CompleteOperation, FencedOut
\* A step inside the worker: it stays short of the reply, or it ends.
<1>p. ASSUME UNCHANGED <<op, accepted>>, worker'[w].key = k, worker'[w].token = worker[w].token,
             worker[w].pc # "replied", worker'[w].pc = "replied" => worker'[w].result # "succeeded"
      PROVE  DeliveryInv'
  <2>1. RowInv(k)'
    BY <1>p, <1>w DEF RowInv
  <2>2. WorkInv(w)'
    BY <1>p, <1>w DEF WorkInv, Owned
  <2>3. QED
    BY <1>f, <1>u, <1>p, <2>1, <2>2
<1>1. CASE MarkSending(w)
  <2>1. /\ op' = [op EXCEPT ![k].status = "sending"]
        /\ worker' = [worker EXCEPT ![w].pc = "sending"] /\ UNCHANGED accepted
    BY <1>1 DEF MarkSending
  <2>2. /\ op'[k].status = "sending" /\ op'[k].owner = op[k].owner
        /\ op'[k].fence = op[k].fence /\ op'[k].expired = op[k].expired
        /\ \A j \in Key : j # k => op'[j] = op[j]
    BY <2>1, <1>r DEF Operation
  <2>3. worker'[w].pc = "sending" /\ worker'[w].key = k /\ worker'[w].token = worker[w].token
    BY <2>1, <1>r DEF WorkerRecord
  <2>4. accepted[k] = 0
    BY <1>1, <1>w DEF MarkSending, WorkInv
  <2>5. RowInv(k)'
    BY <2>1, <2>2, <2>4 DEF RowInv, LeasableStatus
  <2>6. WorkInv(w)'
    BY <2>1, <2>2, <2>3, <2>4, <1>w DEF WorkInv, Owned, HeldStatus
  <2>7. QED
    BY <2>1, <2>2, <2>5, <2>6, <1>f, <1>u
<1>2. CASE LoadSources(w)
  BY <1>2, <1>p, <1>r DEF LoadSources, WorkerRecord
<1>3. CASE Authorize(w)
  BY <1>3, <1>p, <1>r DEF Authorize, WorkerRecord
<1>4. CASE StopBeforeCall(w) \/ StartCall(w)
  BY <1>4, <1>p, <1>r DEF StopBeforeCall, StartCall, WorkerRecord
<1>5. CASE CallProvider(w)
  <2>1. PICK took \in BOOLEAN, r \in Results :
          /\ Outcome(k, took, r)
          /\ accepted' = [accepted EXCEPT ![k] = IF took THEN accepted[k] + 1 ELSE accepted[k]]
          /\ worker' = [worker EXCEPT ![w].pc = "replied", ![w].result = r]
    BY <1>5 DEF CallProvider
  <2>2. UNCHANGED op /\ accepted[k] = 0
    BY <1>5, <1>w DEF CallProvider, WorkInv
  <2>3. /\ worker'[w].pc = "replied" /\ worker'[w].result = r /\ worker'[w].key = k
        /\ worker'[w].token = worker[w].token
    BY <2>1, <1>r DEF WorkerRecord
  <2>4. /\ accepted'[k] = (IF took THEN 1 ELSE 0)
        /\ \A j \in Key : j # k => accepted'[j] = accepted[j]
    BY <2>1, <2>2, <1>r
  <2>5. /\ r = "succeeded" => took
        /\ r \in {"retry_wait", "dead_letter"} => ~took
    BY <2>1 DEF Outcome, TransientResult
  <2>6. RowInv(k)'
    BY <2>2, <2>4, <1>w DEF RowInv, WorkInv, HeldStatus, LeasableStatus
  <2>7. WorkInv(w)'
    BY <2>2, <2>3, <2>4, <2>5, <1>w DEF WorkInv, Owned
  <2>8. QED
    BY <2>2, <2>4, <2>6, <2>7, <1>f, <1>u
<1>6. CASE CompleteOperation(w)
  <2>1. /\ op'[k].status = worker[w].result /\ UNCHANGED accepted
        /\ \A j \in Key : j # k => op'[j] = op[j]
    BY <1>6, <1>r DEF CompleteOperation, Operation
  <2>2. ~Busy(w)'
    BY <1>6, <1>r DEF CompleteOperation, IdleWorker, Busy
  <2>3. worker[w].pc = "replied" /\ worker[w].result \in Results
    BY <1>6, <1>r DEF CompleteOperation, WorkerRecord
  <2>4. RowInv(k)'
    BY <2>1, <2>3, <1>w DEF RowInv, WorkInv, Results, LeasableStatus
  <2>5. QED
    BY <2>1, <2>2, <2>4, <1>f, <1>u
<1>7. CASE FencedOut(w) \/ WorkerCrashes(w)
  <2>1. UNCHANGED <<op, accepted>> /\ ~Busy(w)'
    BY <1>7, <1>r DEF FencedOut, WorkerCrashes, IdleWorker, Busy
  <2>2. RowInv(k)'
    BY <2>1, <1>w DEF RowInv
  <2>3. QED
    BY <2>1, <2>2, <1>f, <1>u
<1>8. QED
  BY <1>1, <1>2, <1>3, <1>4, <1>5, <1>6, <1>7 DEF WorkerProgress

\* Steps on a row nobody works on: only its own message is at stake.
LEMMA DeliveryRowStep ==
  ASSUME TypeOK, DeliveryInv, NEW k \in Key,
         UNCHANGED <<accepted, worker>>,
         \A j \in Key : j # k => op'[j] = op[j],
         RowInv(k)',
         \A w \in Workers : Busy(w) => worker[w].key # k
  PROVE  DeliveryInv'
<1>1. \A j \in Key : RowInv(j)'
  BY DEF DeliveryInv, RowInv
<1>2. ASSUME NEW w \in Workers, Busy(w)' PROVE WorkInv(w)'
  <2>1. Busy(w) /\ WorkInv(w) /\ worker[w].key \in Key
    BY <1>2, DeliveryTypes DEF Busy, DeliveryInv
  <2>2. QED
    BY <2>1, DeliveryFrame
<1>3. QED
  BY <1>1, <1>2 DEF DeliveryInv

LEMMA DeliveryInductive ==
  ASSUME TimelyWorkers, ~GarbledReceipts
  PROVE  TypeOK /\ OneLeaseHolder /\ DeliveryInv /\ [Next]_vars => DeliveryInv'
<1> SUFFICES ASSUME TypeOK, OneLeaseHolder, DeliveryInv, [Next]_vars PROVE DeliveryInv'
  OBVIOUS
<1>r. /\ worker \in [Workers -> WorkerRecord] /\ op \in [Key -> Operation]
      /\ accepted \in [Key -> Nat] /\ \A c \in Callers : caller[c].key \in Key
      /\ \A w \in Workers : worker[w].key \in Key
  BY DeliveryTypes
<1>s. /\ \A j \in Key : RowInv(j)
      /\ \A w \in Workers : Busy(w) => WorkInv(w)
  BY DEF DeliveryInv
<1>h. \A w \in Workers : Busy(w) =>
        op[worker[w].key].status \in HeldStatus /\ ~op[worker[w].key].expired
  BY <1>s DEF WorkInv
<1>1. CASE UNCHANGED <<op, accepted, worker>>
  BY <1>1 DEF DeliveryInv, RowInv, WorkInv, Busy, Owned
<1>2. ASSUME NEW w \in Workers, NEW k \in Key, LeaseOperation(w, k) PROVE DeliveryInv'
  <2>1. /\ ~Busy(w) /\ op[k].status \in LeasableStatus /\ UNCHANGED accepted
        /\ op' = [op EXCEPT ![k].status = "leased", ![k].owner = WorkerId[w],
                            ![k].fence = op[k].fence + 1, ![k].expired = FALSE]
        /\ worker' = [worker EXCEPT ![w] = [IdleWorker EXCEPT
                        !.pc = "leased", !.key = k, !.token = op[k].fence + 1,
                        !.authAtLease = {x \in Contents : AuthorityStands(k, x)}]]
    BY <1>2 DEF LeaseOperation
  <2>2. /\ op'[k].status = "leased" /\ op'[k].owner = WorkerId[w] /\ ~op'[k].expired
        /\ op'[k].fence = op[k].fence + 1 /\ \A j \in Key : j # k => op'[j] = op[j]
    BY <2>1, <1>r DEF Operation
  <2>3. /\ worker'[w].pc = "leased" /\ worker'[w].key = k
        /\ worker'[w].token = op[k].fence + 1
        /\ \A v \in Workers : v # w => worker'[v] = worker[v]
    BY <2>1, <1>r DEF IdleWorker
  <2>4. accepted[k] = 0
    BY <2>1, <1>s DEF RowInv
  <2>5. \A j \in Key : RowInv(j)'
    BY <2>1, <2>2, <2>4, <1>s DEF RowInv
  <2>6. WorkInv(w)'
    BY <2>1, <2>2, <2>3, <2>4 DEF WorkInv, Owned, HeldStatus
  <2>7. ASSUME NEW v \in Workers, v # w, Busy(v)' PROVE WorkInv(v)'
    <3>1. Busy(v) /\ WorkInv(v) /\ worker'[v] = worker[v]
      BY <2>3, <2>7, <1>s DEF Busy
    <3>2. worker[v].key # k
      BY <3>1, <1>h, <2>1 DEF HeldStatus, LeasableStatus
    <3>3. QED
      BY <3>1, <3>2, <2>1, <2>2, <1>r, DeliveryFrame
  <2>8. QED
    BY <2>5, <2>6, <2>7 DEF DeliveryInv
<1>3. ASSUME NEW w \in Workers, WorkerProgress(w) \/ WorkerCrashes(w) PROVE DeliveryInv'
  BY <1>3, <1>r, DeliveryWorkerStep
<1>4. ASSUME NEW k \in Key, LeaseExpires(k) PROVE DeliveryInv'
  <2>1. op'[k].status = op[k].status /\ UNCHANGED <<accepted, worker>>
        /\ \A j \in Key : j # k => op'[j] = op[j]
    BY <1>4, <1>r DEF LeaseExpires, Operation
  <2>2. \A w \in Workers : Busy(w) => worker[w].key # k
    BY <1>4 DEF LeaseExpires
  <2>3. RowInv(k)'
    BY <2>1, <1>s DEF RowInv
  <2>4. QED
    BY <2>1, <2>2, <2>3, DeliveryRowStep
<1>5. ASSUME NEW k \in Key, RecoverExpired(k) PROVE DeliveryInv'
  <2>1. op'[k].status = "outcome_unknown" /\ UNCHANGED <<accepted, worker>>
        /\ \A j \in Key : j # k => op'[j] = op[j]
    BY <1>5, <1>r DEF RecoverExpired, Operation
  <2>2. \A w \in Workers : Busy(w) => worker[w].key # k
    BY <1>5, <1>h DEF RecoverExpired
  <2>3. RowInv(k)'
    BY <2>1, <1>s DEF RowInv, LeasableStatus
  <2>4. QED
    BY <2>1, <2>2, <2>3, DeliveryRowStep
<1>6. ASSUME NEW k \in Key, NEW s \in OpStatus, ReconcileOutcomeUnknown(k, s) PROVE DeliveryInv'
  <2>1. op'[k].status = s /\ UNCHANGED <<accepted, worker>>
        /\ \A j \in Key : j # k => op'[j] = op[j]
    BY <1>6, <1>r DEF ReconcileOutcomeUnknown, Operation
  <2>2. \A w \in Workers : Busy(w) => worker[w].key # k
    BY <1>6, <1>h DEF ReconcileOutcomeUnknown, HeldStatus
  <2>3. RowInv(k)'
    BY <2>1, <1>s, <1>6, <1>r DEF RowInv, ReconcileOutcomeUnknown, Evidence, LeasableStatus
  <2>4. QED
    BY <2>1, <2>2, <2>3, DeliveryRowStep
<1>7. ASSUME NEW c \in Callers, NEW k \in Key, caller[c].key = k, QueueOperation(c)
      PROVE  DeliveryInv'
  <2>1. /\ UNCHANGED <<accepted, worker>> /\ \A j \in Key : j # k => op'[j] = op[j]
        /\ op[k].status # "none" => op'[k] = op[k]
        /\ op[k].status = "none" => op'[k].status = "queued"
    BY <1>7, <1>r DEF QueueOperation, NoOperation
  <2>2. CASE op[k].status = "none"
    <3>1. \A w \in Workers : Busy(w) => worker[w].key # k
      BY <2>2, <1>h DEF HeldStatus
    <3>2. RowInv(k)'
      BY <2>1, <2>2, <1>s DEF RowInv, LeasableStatus
    <3>3. QED
      BY <2>1, <3>1, <3>2, DeliveryRowStep
  <2>3. CASE op[k].status # "none"
    BY <2>1, <2>3, <1>r, <1>s, DeliveryFrame DEF DeliveryInv, RowInv, Busy
  <2>4. QED
    BY <2>2, <2>3
<1>8. ASSUME NEW c \in Callers, CallerStep(c) PROVE DeliveryInv'
  BY <1>1, <1>7, <1>8, <1>r DEF CallerStep, ReviewDraft, ReadForEdit, EvaluatePolicy,
     ConfirmSend, CheckRevision, SaveApproved, SaveEdit, CallerStops
<1>9. CASE HostStep
  BY <1>1, <1>9 DEF HostStep, GrantApproval, RevokeApproval, SavePolicy, PolicyExpires,
     RevokeGrant, GrantExpires, ConnectionChanges
<1>10. CASE UNCHANGED vars
  BY <1>1, <1>10 DEF vars
<1>11. QED
  BY <1>2, <1>3, <1>4, <1>5, <1>6, <1>8, <1>9, <1>10 DEF Next, WorkerStep, OperationStep

LEMMA DeliveryInit == Init => DeliveryInv
BY DEF Init, DeliveryInv, RowInv, Busy, IdleWorker, NoOperation, LeasableStatus

\* While workers finish within their leases and providers answer readably, no
\* message is accepted twice, and every recorded outcome is true, whatever
\* crashes, cancellations and reconciliations happen in between.
THEOREM SafeDelivery ==
  ASSUME TimelyWorkers, ~GarbledReceipts
  PROVE  Spec => [](NoDuplicateDelivery /\ HonestOutcome)
<1>1. TypeOK /\ OneLeaseHolder /\ DeliveryInv /\ [Next]_vars => DeliveryInv'
  BY DeliveryInductive
<1>2. TypeOK /\ DeliveryInv => NoDuplicateDelivery /\ HonestOutcome
  <2> SUFFICES ASSUME TypeOK, DeliveryInv PROVE NoDuplicateDelivery /\ HonestOutcome
    OBVIOUS
  <2>1. \A k \in Key : RowInv(k) /\ accepted[k] \in Nat
    BY DEF DeliveryInv, TypeOK
  <2>2. QED
    BY <2>1 DEF RowInv, NoDuplicateDelivery, HonestOutcome, Delivered
<1>3. QED
  BY <1>1, <1>2, TypeCorrect, FencedLease, DeliveryInit, PTL DEF Spec

\* While workers finish within their leases and providers answer readably, a recorded
\* outcome is true of the provider: a success was delivered, and what may be sent again or
\* was given up was not.
THEOREM HonestOutcomes ==
  ASSUME TimelyWorkers, ~GarbledReceipts
  PROVE  Spec => []HonestOutcome
BY SafeDelivery, PTL

-----------------------------------------------------------------------------
(* Drafts: save_draft tests the revision and writes at once.               *)

\* A draft that was approved as the operation of key k.
SentAs(k) ==
  /\ draft[k.draft].rev = k.rev + 1 /\ draft[k.draft].status = "approved"
  /\ DigestOf[draft[k.draft].content] = k.digest

\* A snapshot is the draft as it was, or as it still is: then it is unsent.
SnapshotInv(k) ==
  /\ k.rev <= draft[k.draft].rev
  /\ k.rev = draft[k.draft].rev => draft[k.draft].status = "draft"

CallerInv(c) ==
  /\ caller[c].pc \notin {"approve_checked", "edit_checked"}
  /\ caller[c].pc \in {"reviewing", "evaluated", "decided", "editing"} => SnapshotInv(caller[c].key)
  /\ caller[c].pc \in {"reviewing", "evaluated", "decided"} =>
       DigestOf[caller[c].content] = caller[c].key.digest
  /\ caller[c].pc = "saved" => SentAs(caller[c].key)

DraftInv ==
  /\ \A c \in Callers : CallerInv(c)
  /\ \A k \in Key : op[k].status # "none" => SentAs(k)

\* Only a queued operation is worked on or delivered.
QueuedInv ==
  /\ \A k \in Key : accepted[k] # 0 => op[k].status # "none"
  /\ \A w \in Workers : Busy(w) => op[worker[w].key].status # "none"

LEMMA DraftTypes ==
  ASSUME TypeOK
  PROVE  /\ caller \in [Callers -> CallerRecord] /\ draft \in [Drafts -> DraftRecord]
         /\ op \in [Key -> Operation] /\ worker \in [Workers -> WorkerRecord]
         /\ accepted \in [Key -> Nat]
         /\ \A c \in Callers : caller[c].key \in Key /\ caller[c] \in CallerRecord
         /\ \A w \in Workers : worker[w].key \in Key
         /\ \A d \in Drafts : draft[d].rev \in Nat
         /\ \A k \in Key : k.rev \in Nat /\ k.draft \in Drafts
BY BoundAssumption DEF TypeOK, CallerRecord, DraftRecord, WorkerRecord, Key, Revisions

LEMMA QueuedWorkerStep ==
  ASSUME TypeOK, QueuedInv, NEW w \in Workers, WorkerStep(w)
  PROVE  /\ QueuedInv'
         /\ \A k \in Key : op'[k].status # "none" <=> op[k].status # "none"
<1>r. /\ op \in [Key -> Operation] /\ worker \in [Workers -> WorkerRecord]
      /\ accepted \in [Key -> Nat] /\ \A v \in Workers : worker[v].key \in Key
      /\ worker[w] \in WorkerRecord
  BY DraftTypes DEF TypeOK
<1> DEFINE Same == \A k \in Key : op'[k].status # "none" <=> op[k].status # "none"
<1>f. ASSUME Same, UNCHANGED accepted,
             \A v \in Workers : Busy(v)' => Busy(v) /\ worker'[v].key = worker[v].key
      PROVE  QueuedInv'
  BY <1>f, <1>r DEF QueuedInv
<1>1. ASSUME NEW k \in Key, LeaseOperation(w, k) PROVE QueuedInv' /\ Same
  <2>1. /\ op[k].status \in LeasableStatus /\ UNCHANGED accepted
        /\ op'[k].status = "leased" /\ \A j \in Key : j # k => op'[j] = op[j]
    BY <1>1, <1>r DEF LeaseOperation, Operation
  <2>2. worker'[w].key = k /\ \A v \in Workers : v # w => worker'[v] = worker[v]
    BY <1>1, <1>r DEF LeaseOperation, IdleWorker
  <2>3. Same
    BY <2>1 DEF LeasableStatus
  <2>4. QED
    BY <2>1, <2>2, <2>3, <1>r DEF QueuedInv, Busy
<1>2. ASSUME WorkerProgress(w) \/ WorkerCrashes(w), ~CallProvider(w) PROVE QueuedInv' /\ Same
  <2>1. UNCHANGED accepted
    BY <1>2 DEF WorkerProgress, WorkerCrashes, MarkSending, LoadSources, Authorize,
       StopBeforeCall, StartCall, CompleteOperation, FencedOut
  <2>2. Same
    <3>1. CASE MarkSending(w)
      <4>1. op[worker[w].key].status # "none"
        BY <3>1 DEF QueuedInv, MarkSending, Busy
      <4>2. QED
        BY <3>1, <4>1, <1>r DEF MarkSending, Operation
    <3>2. CASE CompleteOperation(w)
      <4>1. op[worker[w].key].status # "none" /\ worker[w].result # "none"
        BY <3>2, <1>r DEF QueuedInv, CompleteOperation, Busy, WorkerRecord, Results
      <4>2. QED
        BY <3>2, <4>1, <1>r DEF CompleteOperation, Operation
    <3>3. CASE UNCHANGED op
      BY <3>3
    <3>4. QED
      BY <1>2, <3>1, <3>2, <3>3 DEF WorkerProgress, WorkerCrashes, LoadSources, Authorize,
         StopBeforeCall, StartCall, FencedOut
  <2>3. QED
    BY <1>2, <2>1, <2>2, <1>f, WorkerShape
<1>3. ASSUME CallProvider(w) PROVE QueuedInv' /\ Same
  <2>1. UNCHANGED op /\ \A j \in Key : j # worker[w].key => accepted'[j] = accepted[j]
    BY <1>3, <1>r DEF CallProvider
  <2>2. op[worker[w].key].status # "none"
    BY <1>3 DEF CallProvider, QueuedInv, Busy
  <2>3. \A v \in Workers : Busy(v)' => Busy(v) /\ worker'[v].key = worker[v].key
    BY <1>3, WorkerShape DEF WorkerProgress
  <2>4. QED
    BY <2>1, <2>2, <2>3, <1>r DEF QueuedInv
<1>4. QED
  BY <1>1, <1>2, <1>3 DEF WorkerStep, WorkerProgress

LEMMA QueuedRowStep ==
  ASSUME TypeOK, NEW k \in Key, OperationStep(k)
  PROVE  /\ UNCHANGED <<accepted, worker, draft, caller>>
         /\ \A j \in Key : op'[j].status # "none" <=> op[j].status # "none"
<1>r. op \in [Key -> Operation]
  BY DEF TypeOK
<1>1. CASE LeaseExpires(k)
  BY <1>1, <1>r DEF LeaseExpires, Operation
<1>2. CASE RecoverExpired(k)
  BY <1>2, <1>r DEF RecoverExpired, Operation, HeldStatus
<1>3. ASSUME NEW s \in OpStatus, ReconcileOutcomeUnknown(k, s)
      PROVE  /\ UNCHANGED <<accepted, worker, draft, caller>>
             /\ \A j \in Key : op'[j].status # "none" <=> op[j].status # "none"
  BY <1>3, <1>r DEF ReconcileOutcomeUnknown, Evidence, Operation
<1>4. QED
  BY <1>1, <1>2, <1>3 DEF OperationStep

LEMMA QueuedCallerStep ==
  ASSUME TypeOK, QueuedInv, NEW c \in Callers, CallerStep(c)
  PROVE  QueuedInv'
<1>1. \A k \in Key : op[k].status # "none" => op'[k].status # "none"
  BY DraftTypes DEF CallerStep, ReviewDraft, ReadForEdit, EvaluatePolicy, ConfirmSend,
     CheckRevision, SaveApproved, SaveEdit, QueueOperation, CallerStops
<1>2. UNCHANGED <<accepted, worker>>
  BY DEF CallerStep, ReviewDraft, ReadForEdit, EvaluatePolicy, ConfirmSend,
     CheckRevision, SaveApproved, SaveEdit, QueueOperation, CallerStops
<1>3. QED
  BY <1>1, <1>2, DraftTypes DEF QueuedInv, Busy

LEMMA HostFrame == HostStep => UNCHANGED <<draft, op, accepted, caller, worker>>
BY DEF HostStep, GrantApproval, RevokeApproval, SavePolicy, PolicyExpires, RevokeGrant,
   GrantExpires, ConnectionChanges

LEMMA QueuedInductive == TypeOK /\ QueuedInv /\ [Next]_vars => QueuedInv'
<1> SUFFICES ASSUME TypeOK, QueuedInv, [Next]_vars PROVE QueuedInv'
  OBVIOUS
<1>1. CASE HostStep \/ UNCHANGED vars
  BY <1>1, HostFrame DEF QueuedInv, Busy, vars
<1>2. ASSUME NEW k \in Key, OperationStep(k) PROVE QueuedInv'
  BY <1>2, QueuedRowStep, DraftTypes DEF QueuedInv, Busy
<1>3. QED
  BY <1>1, <1>2, QueuedWorkerStep, QueuedCallerStep DEF Next

\* A save against an unchanged revision finds an unsent draft, and leaves every
\* snapshot and every approved draft as they were.
LEMMA SaveFrame ==
  ASSUME AtomicSaves, TypeOK, DraftInv, NEW c \in Callers, NEW k \in Key, caller[c].key = k,
         caller[c].pc \in {"decided", "editing"}, RevisionUnchanged(c),
         NEW row \in DraftRecord, row.rev = k.rev + 1,
         draft' = [draft EXCEPT ![k.draft] = row]
  PROVE  /\ draft[k.draft].status = "draft"
         /\ \A j \in Key : SentAs(j) => SentAs(j)'
         /\ \A j \in Key : SnapshotInv(j) => SnapshotInv(j)'
<1>r. /\ draft \in [Drafts -> DraftRecord] /\ \A d \in Drafts : draft[d].rev \in Nat
      /\ \A j \in Key : j.rev \in Nat /\ j.draft \in Drafts
  BY DraftTypes
<1>1. draft[k.draft].rev = k.rev /\ draft[k.draft].status = "draft"
  BY <1>r DEF DraftInv, CallerInv, SnapshotInv, RevisionUnchanged
<1>2. \A j \in Key : j.draft # k.draft => draft'[j.draft] = draft[j.draft]
  BY <1>r
<1>3. \A j \in Key : SentAs(j) => SentAs(j)'
  BY <1>1, <1>2 DEF SentAs
<1>4. ASSUME NEW j \in Key, SnapshotInv(j) PROVE SnapshotInv(j)'
  <2>1. CASE j.draft = k.draft
    <3>1. draft'[j.draft].rev = k.rev + 1
      BY <2>1, <1>r
    <3>2. j.rev <= k.rev
      BY <1>4, <2>1, <1>1 DEF SnapshotInv
    <3>3. QED
      BY <3>1, <3>2, <1>r DEF SnapshotInv
  <2>2. CASE j.draft # k.draft
    BY <2>2, <1>2, <1>4 DEF SnapshotInv
  <2>3. QED
    BY <2>1, <2>2
<1>5. QED
  BY <1>1, <1>3, <1>4

LEMMA DraftInductive ==
  ASSUME AtomicSaves
  PROVE  TypeOK /\ QueuedInv /\ DraftInv /\ [Next]_vars => DraftInv'
<1> SUFFICES ASSUME TypeOK, QueuedInv, DraftInv, [Next]_vars PROVE DraftInv'
  OBVIOUS
<1>r. /\ caller \in [Callers -> CallerRecord] /\ draft \in [Drafts -> DraftRecord]
      /\ op \in [Key -> Operation] /\ worker \in [Workers -> WorkerRecord]
      /\ \A c \in Callers : caller[c].key \in Key /\ caller[c] \in CallerRecord
      /\ \A w \in Workers : worker[w].key \in Key
      /\ \A k \in Key : k.rev \in Nat /\ k.draft \in Drafts
  BY DraftTypes
<1>s. /\ \A c \in Callers : CallerInv(c)
      /\ \A k \in Key : op[k].status # "none" => SentAs(k)
  BY DEF DraftInv
\* Steps of workers and rows neither touch drafts nor undo that a row exists.
<1>1. ASSUME UNCHANGED <<draft, caller>>,
             \A k \in Key : op'[k].status # "none" => op[k].status # "none"
      PROVE  DraftInv'
  BY <1>1 DEF DraftInv, CallerInv, SentAs, SnapshotInv
\* Steps of one call that save nothing.
<1>2. ASSUME NEW c \in Callers, UNCHANGED draft, CallerInv(c)',
             \A b \in Callers : b # c => caller'[b] = caller[b],
             \A k \in Key : op'[k].status # "none" => op[k].status # "none" \/ SentAs(k)
      PROVE  DraftInv'
  BY <1>2 DEF DraftInv, CallerInv, SentAs, SnapshotInv
<1>i. ASSUME NEW c \in Callers, caller'[c].pc = "idle" PROVE CallerInv(c)'
  BY <1>i DEF CallerInv
<1>3. ASSUME NEW c \in Callers, NEW d \in Drafts, ReviewDraft(c, d) PROVE DraftInv'
  <2>1. /\ caller'[c].pc = "reviewing" /\ caller'[c].key.draft = d
        /\ caller'[c].key.rev = draft[d].rev
        /\ DigestOf[caller'[c].content] = caller'[c].key.digest
        /\ \A b \in Callers : b # c => caller'[b] = caller[b]
    BY <1>3, <1>r DEF ReviewDraft, Call, Snapshot, IdleCaller
  <2>2. UNCHANGED <<draft, op>> /\ draft[d].status = "draft"
    BY <1>3 DEF ReviewDraft
  <2>3. CallerInv(c)'
    BY <2>1, <2>2, DraftTypes DEF CallerInv, SnapshotInv
  <2>4. QED
    BY <2>1, <2>2, <2>3, <1>2
<1>4. ASSUME NEW c \in Callers, NEW d \in Drafts, NEW x \in Contents, ReadForEdit(c, d, x)
      PROVE  DraftInv'
  <2>1. /\ caller'[c].pc = "editing" /\ caller'[c].key.draft = d
        /\ caller'[c].key.rev = draft[d].rev
        /\ \A b \in Callers : b # c => caller'[b] = caller[b]
    BY <1>4, <1>r DEF ReadForEdit, Call, Snapshot, IdleCaller
  <2>2. UNCHANGED <<draft, op>> /\ draft[d].status = "draft"
    BY <1>4 DEF ReadForEdit
  <2>3. CallerInv(c)'
    BY <2>1, <2>2, DraftTypes DEF CallerInv, SnapshotInv
  <2>4. QED
    BY <2>1, <2>2, <2>3, <1>2
<1>5. ASSUME NEW c \in Callers, EvaluatePolicy(c) \/ ConfirmSend(c) PROVE DraftInv'
  <2>1. /\ caller'[c].pc \in {"evaluated", "decided"} /\ caller'[c].key = caller[c].key
        /\ caller'[c].content = caller[c].content
        /\ \A b \in Callers : b # c => caller'[b] = caller[b]
    <3>1. CASE EvaluatePolicy(c)
      <4>1. PICK p, g : caller' = [caller EXCEPT ![c].pc = "evaluated", ![c].policyRev = p,
                                                 ![c].grantRev = g]
        BY <3>1 DEF EvaluatePolicy
      <4>2. QED
        BY <4>1, <1>r DEF CallerRecord
    <3>2. CASE ConfirmSend(c)
      <4>1. PICK z : caller' = [caller EXCEPT ![c].pc = "decided", ![c].confirmed = z]
        BY <3>2 DEF ConfirmSend
      <4>2. QED
        BY <4>1, <1>r DEF CallerRecord
    <3>3. QED
      BY <1>5, <3>1, <3>2
  <2>2. UNCHANGED <<draft, op>> /\ caller[c].pc \in {"reviewing", "evaluated"}
    BY <1>5 DEF EvaluatePolicy, ConfirmSend
  <2>3. CallerInv(c)'
    BY <2>1, <2>2, <1>s DEF CallerInv, SnapshotInv
  <2>4. QED
    BY <2>1, <2>2, <2>3, <1>2
<1>6. ASSUME NEW c \in Callers, NEW k \in Key, caller[c].key = k, SaveApproved(c)
      PROVE  DraftInv'
  <2> DEFINE row == [rev |-> k.rev + 1, content |-> caller[c].content, status |-> "approved"]
  <2>1. /\ caller[c].pc = "decided" /\ RevisionUnchanged(c) /\ UNCHANGED op
        /\ DigestOf[caller[c].content] = k.digest
        /\ draft' = [draft EXCEPT ![k.draft] = row]
        /\ caller' = [caller EXCEPT ![c].pc = "saved"]
        /\ k.rev < MaxRevision
    BY <1>6, <1>s DEF SaveApproved, MayWrite, CallerInv
  <2>2. row \in DraftRecord
    BY <2>1, <1>r, KeyFields, BoundAssumption DEF DraftRecord, Revisions, CallerRecord
  <2>3. /\ \A j \in Key : SentAs(j) => SentAs(j)'
        /\ \A j \in Key : SnapshotInv(j) => SnapshotInv(j)'
    BY <1>6, <2>1, <2>2, SaveFrame
  <2>4. /\ caller'[c].pc = "saved" /\ caller'[c].key = k
        /\ \A b \in Callers : b # c => caller'[b] = caller[b]
    BY <1>6, <2>1, <1>r DEF CallerRecord
  <2>5. SentAs(k)'
    BY <2>1, <1>r DEF SentAs
  <2>6. CallerInv(c)'
    BY <2>4, <2>5 DEF CallerInv, SentAs
  <2>7. ASSUME NEW b \in Callers, b # c PROVE CallerInv(b)'
    BY <2>3, <2>4, <2>7, <1>r, <1>s DEF CallerInv, SentAs, SnapshotInv
  <2>8. QED
    BY <2>1, <2>3, <2>6, <2>7, <1>s DEF DraftInv
<1>7. ASSUME NEW c \in Callers, NEW k \in Key, caller[c].key = k, SaveEdit(c) PROVE DraftInv'
  <2> DEFINE row == [rev |-> k.rev + 1, content |-> caller[c].content, status |-> "draft"]
  <2>1. /\ caller[c].pc = "editing" /\ RevisionUnchanged(c) /\ UNCHANGED op
        /\ draft' = [draft EXCEPT ![k.draft] = row]
        /\ caller' = [caller EXCEPT ![c] = IdleCaller]
        /\ k.rev < MaxRevision
    BY <1>7, <1>s DEF SaveEdit, MayWrite, CallerInv
  <2>2. row \in DraftRecord
    BY <2>1, <1>r, KeyFields, BoundAssumption DEF DraftRecord, Revisions, CallerRecord
  <2>3. /\ \A j \in Key : SentAs(j) => SentAs(j)'
        /\ \A j \in Key : SnapshotInv(j) => SnapshotInv(j)'
    BY <1>7, <2>1, <2>2, SaveFrame
  <2>4. /\ caller'[c].pc = "idle" /\ \A b \in Callers : b # c => caller'[b] = caller[b]
    BY <2>1, <1>r DEF IdleCaller
  <2>5. ASSUME NEW b \in Callers, b # c PROVE CallerInv(b)'
    BY <2>3, <2>4, <2>5, <1>r, <1>s DEF CallerInv, SentAs, SnapshotInv
  <2>6. QED
    BY <2>1, <2>3, <2>4, <2>5, <1>i, <1>s DEF DraftInv
<1>8. ASSUME NEW c \in Callers, QueueOperation(c) PROVE DraftInv'
  <2>1. caller'[c].pc = "idle" /\ \A b \in Callers : b # c => caller'[b] = caller[b]
    BY <1>8, <1>r DEF QueueOperation, IdleCaller
  <2>2. SentAs(caller[c].key) /\ UNCHANGED draft
    BY <1>8, <1>s DEF QueueOperation, CallerInv
  <2>3. \A k \in Key : k # caller[c].key => op'[k] = op[k]
    BY <1>8, <1>r DEF QueueOperation
  <2>4. QED
    BY <2>1, <2>2, <2>3, <1>2, <1>i
<1>9. ASSUME NEW c \in Callers, CallerStops(c) PROVE DraftInv'
  BY <1>9, <1>2, <1>i, <1>r DEF CallerStops, IdleCaller
<1>10. ASSUME NEW c \in Callers, CallerStep(c) PROVE DraftInv'
  BY <1>3, <1>4, <1>5, <1>6, <1>7, <1>8, <1>9, <1>10, <1>r DEF CallerStep, CheckRevision
<1>11. ASSUME NEW w \in Workers, WorkerStep(w) PROVE DraftInv'
  <2>1. UNCHANGED <<draft, caller>>
    BY <1>11 DEF WorkerStep, WorkerProgress, WorkerCrashes, LeaseOperation, MarkSending,
       LoadSources, Authorize, StopBeforeCall, StartCall, CallProvider, CompleteOperation,
       FencedOut
  <2>2. \A k \in Key : op'[k].status # "none" => op[k].status # "none"
    BY <1>11, QueuedWorkerStep
  <2>3. QED
    BY <2>1, <2>2, <1>1
<1>12. ASSUME NEW k \in Key, OperationStep(k) PROVE DraftInv'
  BY <1>12, <1>1, QueuedRowStep
<1>13. CASE HostStep \/ UNCHANGED vars
  BY <1>13, <1>1, HostFrame DEF vars
<1>14. QED
  BY <1>10, <1>11, <1>12, <1>13 DEF Next

LEMMA DraftInit == Init => DraftInv /\ QueuedInv
BY DEF Init, DraftInv, QueuedInv, CallerInv, IdleCaller, IdleWorker, NoOperation, Busy

LEMMA DraftInvariant == ASSUME AtomicSaves PROVE Spec => [](DraftInv /\ QueuedInv)
<1>1. TypeOK /\ QueuedInv /\ [Next]_vars => QueuedInv'
  BY QueuedInductive
<1>2. TypeOK /\ QueuedInv /\ DraftInv /\ [Next]_vars => DraftInv'
  BY DraftInductive
<1>3. QED
  BY <1>1, <1>2, DraftInit, TypeCorrect, PTL DEF Spec

\* A draft goes out under one operation at most, when the repository tests and
\* writes a revision at once: no interleaving of edits and send calls queues it
\* in two forms.
THEOREM SentOnce == ASSUME AtomicSaves PROVE Spec => []OneMessagePerDraft
<1>1. TypeOK /\ DraftInv /\ QueuedInv => OneMessagePerDraft
  <2> SUFFICES ASSUME TypeOK, DraftInv, QueuedInv, NEW j \in Key, NEW k \in Key,
                      Delivered(j), Delivered(k), j.draft = k.draft
               PROVE  j = k
    BY DEF OneMessagePerDraft
  <2>1. SentAs(j) /\ SentAs(k)
    BY DraftTypes DEF DraftInv, QueuedInv, Delivered
  <2>2. j.digest = k.digest /\ j.rev + 1 = k.rev + 1
    BY <2>1 DEF SentAs
  <2>3. j.rev \in Nat /\ k.rev \in Nat
    BY DraftTypes
  <2>4. j.rev = k.rev
    BY <2>2, <2>3
  <2>5. QED
    BY <2>2, <2>4 DEF Key
<1>2. QED
  BY <1>1, TypeCorrect, DraftInvariant, PTL

\* An approved draft never changes again, when the repository tests and writes a
\* revision at once.
THEOREM ApprovedDrafts == ASSUME AtomicSaves PROVE Spec => ApprovedDraftIsFinal
<1> DEFINE Kept == \A d \in Drafts : draft[d].status = "approved" => draft'[d] = draft[d]
<1>1. TypeOK /\ DraftInv /\ [Next]_vars => [Kept]_draft
  <2> SUFFICES ASSUME TypeOK, DraftInv, [Next]_vars, draft' # draft PROVE Kept
    OBVIOUS
  <2>r. /\ draft \in [Drafts -> DraftRecord]
        /\ \A c \in Callers : caller[c].key \in Key /\ CallerInv(c)
    BY DraftTypes DEF DraftInv
  <2>1. ASSUME NEW c \in Callers, SaveApproved(c) \/ SaveEdit(c) PROVE Kept
    <3>1. /\ caller[c].pc \in {"decided", "editing"} /\ RevisionUnchanged(c)
          /\ \E row \in {[rev |-> caller[c].key.rev + 1, content |-> caller[c].content,
                          status |-> "approved"],
                         [rev |-> caller[c].key.rev + 1, content |-> caller[c].content,
                          status |-> "draft"]} :
               draft' = [draft EXCEPT ![caller[c].key.draft] = row]
      BY <2>1, <2>r DEF SaveApproved, SaveEdit, MayWrite, CallerInv
    <3>2. draft[caller[c].key.draft].status = "draft"
      <4> DEFINE k == caller[c].key
      <4>1. k.rev \in Nat /\ draft[k.draft].rev \in Nat
        BY <2>r, DraftTypes
      <4>2. k.rev <= draft[k.draft].rev /\ draft[k.draft].rev <= k.rev
        BY <3>1, <2>r DEF CallerInv, SnapshotInv, RevisionUnchanged
      <4>3. k.rev = draft[k.draft].rev
        BY <4>1, <4>2
      <4>4. QED
        BY <3>1, <4>3, <2>r DEF CallerInv, SnapshotInv
    <3>3. QED
      BY <3>1, <3>2, <2>r
  <2>2. ASSUME NEW c \in Callers, CallerStep(c) PROVE Kept
    BY <2>2, <2>1 DEF CallerStep, ReviewDraft, ReadForEdit, EvaluatePolicy, ConfirmSend,
       CheckRevision, QueueOperation, CallerStops
  <2>3. ASSUME NEW w \in Workers, WorkerStep(w) PROVE UNCHANGED draft
    BY <2>3 DEF WorkerStep, WorkerProgress, WorkerCrashes, LeaseOperation, MarkSending,
       LoadSources, Authorize, StopBeforeCall, StartCall, CallProvider, CompleteOperation,
       FencedOut
  <2>4. QED
    BY <2>2, <2>3, QueuedRowStep, HostFrame DEF Next, vars
<1>2. QED
  BY <1>1, TypeCorrect, DraftInvariant, PTL DEF Spec, ApprovedDraftIsFinal

-----------------------------------------------------------------------------
(* Authority: what stood when an operation was leased.                     *)

\* A request was evaluated under a policy not newer than the one in force, and confirmed
\* with an approval that was given.
Decided(policyRev, confirmed, k) ==
  policyRev <= policy.rev /\ (confirmed => approval[k] # "none")

DecisionInv ==
  /\ \A c \in Callers : Decided(caller[c].policyRev, caller[c].confirmed, caller[c].key)
  /\ \A k \in Key : Decided(op[k].policyRev, op[k].confirmed, k)

\* An authority that stands stood when the operation was leased; an execution that was
\* cleared found it standing for what it sends, and the digest it was queued with.
AuthorityInv ==
  \A w \in Workers : Busy(w) =>
    /\ op[worker[w].key].status # "none"
    /\ \A x \in Contents : AuthorityStands(worker[w].key, x) => x \in worker[w].authAtLease
    /\ worker[w].pc \in {"cleared", "calling"} =>
         worker[w].content \in worker[w].authAtLease /\ InputUnchanged(w)

\* Policies are replaced by newer ones, and what ran out stays so; an approval is given
\* once.
LEMMA HostMoves ==
  ASSUME TypeOK, [Next]_vars
  PROVE  /\ policy.rev <= policy'.rev
         /\ policy'.rev = policy.rev /\ policy'.inForce => policy.inForce
         /\ grant'.inForce => grant' = grant
         /\ \A k \in Key : approval[k] # "none" => /\ approval'[k] # "none"
                                                   /\ approval'[k] = "valid" => approval[k] = "valid"
<1>r. /\ policy.rev \in Nat /\ policy.inForce \in BOOLEAN
      /\ policy \in [rev : 1 .. MaxAuthRevision, inForce : BOOLEAN]
      /\ approval \in [Key -> {"none", "valid", "revoked"}]
      /\ grant \in [rev : 1 .. 2, inForce : BOOLEAN]
  BY BoundAssumption DEF TypeOK
<1>1. CASE UNCHANGED hostVars
  BY <1>1, <1>r DEF hostVars
<1>2. ASSUME NEW k \in Key, GrantApproval(k) \/ RevokeApproval(k)
      PROVE  /\ UNCHANGED <<policy, grant>>
             /\ \A j \in Key : approval[j] # "none" =>
                  approval'[j] # "none" /\ (approval'[j] = "valid" => approval[j] = "valid")
  BY <1>2, <1>r DEF GrantApproval, RevokeApproval
<1>3. ASSUME NEW e \in BOOLEAN, SavePolicy(e)
      PROVE  UNCHANGED <<grant, approval>> /\ policy'.rev = policy.rev + 1
  BY <1>3 DEF SavePolicy
<1>4. CASE PolicyExpires
  BY <1>4, <1>r DEF PolicyExpires
<1>5. CASE RevokeGrant \/ GrantExpires
  BY <1>5, <1>r DEF RevokeGrant, GrantExpires
<1>6. CASE ConnectionChanges
  BY <1>6, <1>r DEF ConnectionChanges
<1>7. CASE HostStep
  BY <1>2, <1>3, <1>4, <1>5, <1>6, <1>7, <1>r DEF HostStep
<1>8. ASSUME NEW c \in Callers, CallerStep(c) PROVE UNCHANGED hostVars
  BY <1>8 DEF CallerStep, ReviewDraft, ReadForEdit, EvaluatePolicy, ConfirmSend,
     CheckRevision, SaveApproved, QueueOperation, SaveEdit, CallerStops
<1>9. ASSUME NEW w \in Workers, WorkerStep(w) PROVE UNCHANGED hostVars
  BY <1>9 DEF WorkerStep, WorkerProgress, WorkerCrashes, LeaseOperation, MarkSending,
     LoadSources, Authorize, StopBeforeCall, StartCall, CallProvider, CompleteOperation,
     FencedOut
<1>10. ASSUME NEW k \in Key, OperationStep(k) PROVE UNCHANGED hostVars
  BY <1>10 DEF OperationStep, LeaseExpires, RecoverExpired, ReconcileOutcomeUnknown
<1>11. CASE UNCHANGED vars
  BY <1>1, <1>11 DEF vars, hostVars
<1>. QED  BY <1>1, <1>7, <1>8, <1>9, <1>10, <1>11 DEF Next

\* What a row says of the authority an operation was queued under.
SameAuthority(k) ==
  /\ op'[k].policyRev = op[k].policyRev /\ op'[k].grantRev = op[k].grantRev
  /\ op'[k].confirmed = op[k].confirmed

\* A queued operation keeps the authority it was queued under; one that is queued takes
\* that of the call that queues it.
LEMMA AuthorityFixed ==
  ASSUME TypeOK, QueuedInv, [Next]_vars, NEW k \in Key
  PROVE  /\ op[k].status # "none" => op'[k].status # "none" /\ SameAuthority(k)
         /\ \/ SameAuthority(k)
            \/ \E c \in Callers : /\ caller[c].key = k
                                  /\ op'[k].policyRev = caller[c].policyRev
                                  /\ op'[k].confirmed = caller[c].confirmed
<1>r. /\ op \in [Key -> Operation] /\ op[k] \in Operation
      /\ \A w \in Workers : worker[w].key \in Key
  BY DraftTypes
<1>1. CASE UNCHANGED op
  BY <1>1 DEF SameAuthority
<1>2. ASSUME NEW c \in Callers, QueueOperation(c), op'[k] # op[k]
      PROVE  /\ op[k].status = "none" /\ caller[c].key = k
             /\ op'[k].policyRev = caller[c].policyRev /\ op'[k].confirmed = caller[c].confirmed
  BY <1>2, <1>r, NoOperationType DEF QueueOperation, Operation
<1>3. ASSUME NEW c \in Callers, CallerStep(c), ~QueueOperation(c) PROVE UNCHANGED op
  BY <1>3 DEF CallerStep, ReviewDraft, ReadForEdit, EvaluatePolicy, ConfirmSend,
     CheckRevision, SaveApproved, SaveEdit, CallerStops
<1>4. ASSUME NEW w \in Workers, WorkerStep(w) PROVE SameAuthority(k)
  <2>1. ASSUME NEW j \in Key, LeaseOperation(w, j) PROVE SameAuthority(k)
    BY <2>1, <1>r DEF LeaseOperation, Operation, SameAuthority
  <2>2. CASE MarkSending(w)
    BY <2>2, <1>r DEF MarkSending, Operation, SameAuthority
  <2>3. CASE CompleteOperation(w)
    BY <2>3, <1>r DEF CompleteOperation, Operation, SameAuthority
  <2>4. CASE UNCHANGED op
    BY <2>4 DEF SameAuthority
  <2>. QED  BY <1>4, <2>1, <2>2, <2>3, <2>4 DEF WorkerStep, WorkerProgress, WorkerCrashes,
            LoadSources, Authorize, StopBeforeCall, StartCall, CallProvider, FencedOut
<1>5. ASSUME NEW j \in Key, OperationStep(j) PROVE SameAuthority(k)
  <2>1. CASE LeaseExpires(j)
    BY <2>1, <1>r DEF LeaseExpires, Operation, SameAuthority
  <2>2. CASE RecoverExpired(j)
    BY <2>2, <1>r DEF RecoverExpired, Operation, SameAuthority
  <2>3. ASSUME NEW s \in OpStatus, ReconcileOutcomeUnknown(j, s) PROVE SameAuthority(k)
    BY <2>3, <1>r DEF ReconcileOutcomeUnknown, Operation, SameAuthority
  <2>. QED  BY <1>5, <2>1, <2>2, <2>3 DEF OperationStep
<1>6. ASSUME op[k].status # "none" PROVE op'[k].status # "none"
  <2>1. ASSUME NEW c \in Callers, CallerStep(c) PROVE op'[k] = op[k]
    BY <1>2, <1>3, <1>6, <2>1
  <2>. QED  BY <1>6, <2>1, QueuedWorkerStep, QueuedRowStep, HostFrame DEF Next, vars
<1>7. ASSUME NEW c \in Callers, CallerStep(c), op'[k] = op[k] PROVE SameAuthority(k)
  BY <1>7 DEF SameAuthority
<1>. QED
  BY <1>1, <1>2, <1>3, <1>4, <1>5, <1>6, <1>7, HostFrame DEF Next, vars

\* What was decided stands: policies are only replaced by newer ones, and that an approval
\* was given is not forgotten.
LEMMA DecidedKept ==
  ASSUME TypeOK, [Next]_vars, NEW k \in Key, NEW p \in Nat, NEW z \in BOOLEAN, Decided(p, z, k)
  PROVE  p <= policy'.rev /\ (z => approval'[k] # "none")
<1>1. policy.rev \in Nat /\ policy'.rev \in Nat
  <2>1. TypeOK'
    BY StepType
  <2>. QED  BY <2>1, BoundAssumption DEF TypeOK
<1>. QED  BY <1>1, HostMoves DEF Decided

\* What a step makes of a call: nothing more is decided, the policy that is in force is, or
\* an approval that is valid.
LEMMA CallDecides ==
  ASSUME TypeOK, NEW c \in Callers, CallerStep(c), NEW b \in Callers
  PROVE  \/ /\ caller'[b].policyRev = caller[b].policyRev /\ caller'[b].key = caller[b].key
            /\ caller'[b].confirmed = caller[b].confirmed
         \/ caller'[b].policyRev = 0 /\ caller'[b].confirmed = FALSE
         \/ /\ caller'[b].policyRev = policy.rev /\ caller'[b].key = caller[b].key
            /\ caller'[b].confirmed = caller[b].confirmed
         \/ /\ caller'[b].policyRev = caller[b].policyRev /\ caller'[b].key = caller[b].key
            /\ caller'[b].confirmed => approval[caller[b].key] # "none"
<1>r. caller \in [Callers -> CallerRecord] /\ caller[b] \in CallerRecord
  BY DraftTypes
<1>1. ASSUME NEW step, NEW k, NEW x, Call(c, step, k, x)
      PROVE  \/ caller'[b] = caller[b]
             \/ caller'[b].policyRev = 0 /\ caller'[b].confirmed = FALSE
  <2>1. CASE b = c
    <3>1. caller'[b] = [IdleCaller EXCEPT !.pc = step, !.key = k, !.content = x]
      BY <1>1, <1>r, <2>1 DEF Call
    <3>2. caller'[b].policyRev = IdleCaller.policyRev /\ caller'[b].confirmed = IdleCaller.confirmed
      BY <3>1, IdleTypes DEF CallerRecord
    <3>. QED  BY <3>2 DEF IdleCaller
  <2>2. CASE b # c
    BY <1>1, <1>r, <2>2 DEF Call
  <2>. QED  BY <2>1, <2>2
<1>2. ASSUME NEW d \in Drafts, ReviewDraft(c, d) \/ \E x \in Contents : ReadForEdit(c, d, x)
      PROVE  \/ caller'[b] = caller[b]
             \/ caller'[b].policyRev = 0 /\ caller'[b].confirmed = FALSE
  BY <1>2, <1>1 DEF ReviewDraft, ReadForEdit
<1>3. CASE EvaluatePolicy(c)
  <2>1. PICK g : caller' = [caller EXCEPT ![c].pc = "evaluated", ![c].policyRev = policy.rev,
                                          ![c].grantRev = g]
    BY <1>3 DEF EvaluatePolicy
  <2>. QED  BY <2>1, <1>r DEF CallerRecord
<1>4. CASE ConfirmSend(c)
  <2>1. PICK z \in BOOLEAN : /\ z => approval[caller[c].key] = "valid"
                             /\ caller' = [caller EXCEPT ![c].pc = "decided", ![c].confirmed = z]
    BY <1>4 DEF ConfirmSend
  <2>. QED  BY <2>1, <1>r DEF CallerRecord
<1>5. ASSUME NEW before, NEW after, CheckRevision(c, before, after)
      PROVE  /\ caller'[b].policyRev = caller[b].policyRev /\ caller'[b].key = caller[b].key
             /\ caller'[b].confirmed = caller[b].confirmed
  BY <1>5, <1>r DEF CheckRevision, CallerRecord
<1>6. CASE SaveApproved(c)
  BY <1>6, <1>r DEF SaveApproved, CallerRecord
<1>7. CASE QueueOperation(c) \/ SaveEdit(c) \/ CallerStops(c)
  BY <1>7, <1>r DEF QueueOperation, SaveEdit, CallerStops, IdleCaller
<1>. QED  BY <1>2, <1>3, <1>4, <1>5, <1>6, <1>7 DEF CallerStep

\* What a step does to decisions: those taken stand, and a new one is taken under the
\* policy in force or with the approval that is given.
LEMMA DecisionInductive == TypeOK /\ QueuedInv /\ DecisionInv /\ [Next]_vars => DecisionInv'
<1> SUFFICES ASSUME TypeOK, QueuedInv, DecisionInv, [Next]_vars PROVE DecisionInv'
  OBVIOUS
<1>r. /\ \A c \in Callers : caller[c].key \in Key /\ caller[c].policyRev \in Nat
      /\ \A c \in Callers : caller[c].confirmed \in BOOLEAN
      /\ \A k \in Key : op[k].policyRev \in Nat /\ op[k].confirmed \in BOOLEAN
      /\ policy.rev \in Nat /\ policy'.rev \in Nat
  BY StepType, BoundAssumption DEF CallerRecord, Operation, TypeOK
<1>k. /\ \A c \in Callers : caller[c].policyRev <= policy'.rev
      /\ \A c \in Callers : caller[c].confirmed => approval'[caller[c].key] # "none"
      /\ \A k \in Key : op[k].policyRev <= policy'.rev
      /\ \A k \in Key : op[k].confirmed => approval'[k] # "none"
  BY <1>r, DecidedKept DEF DecisionInv
<1>1. ASSUME NEW b \in Callers
      PROVE  Decided(caller[b].policyRev, caller[b].confirmed, caller[b].key)'
  <2>1. CASE UNCHANGED caller
    BY <2>1, <1>k, Zenon DEF Decided
  <2>2. ASSUME NEW c \in Callers, CallerStep(c)
        PROVE  Decided(caller[b].policyRev, caller[b].confirmed, caller[b].key)'
    <3>1. policy.rev <= policy'.rev /\ 0 <= policy'.rev
          /\ (approval[caller[b].key] # "none" => approval'[caller[b].key] # "none")
      BY <1>r, HostMoves
    <3>2. caller'[b].policyRev <= policy'.rev
      BY <2>2, <3>1, <1>k, CallDecides
    <3>3. caller'[b].confirmed => approval'[caller'[b].key] # "none"
      BY <2>2, <3>1, <1>k, CallDecides, Zenon
    <3>. QED  BY <3>2, <3>3, Zenon DEF Decided
  <2>3. ASSUME NEW w \in Workers, WorkerStep(w) PROVE UNCHANGED caller
    BY <2>3 DEF WorkerStep, WorkerProgress, WorkerCrashes, LeaseOperation, MarkSending,
       LoadSources, Authorize, StopBeforeCall, StartCall, CallProvider, CompleteOperation,
       FencedOut
  <2>. QED  BY <2>1, <2>2, <2>3, QueuedRowStep, HostFrame DEF Next, vars
<1>2. ASSUME NEW k \in Key PROVE Decided(op[k].policyRev, op[k].confirmed, k)'
  <2>1. CASE SameAuthority(k)
    BY <2>1, <1>k, Zenon DEF SameAuthority, Decided
  <2>2. ASSUME NEW c \in Callers, caller[c].key = k, op'[k].policyRev = caller[c].policyRev,
               op'[k].confirmed = caller[c].confirmed
        PROVE  Decided(op[k].policyRev, op[k].confirmed, k)'
    BY <2>2, <1>k, Zenon DEF Decided
  <2>. QED  BY <2>1, <2>2, AuthorityFixed
<1>. QED  BY <1>1, <1>2 DEF DecisionInv

\* An authority that stands after a step stood before it: what was revoked, replaced or
\* ran out does not come back for an operation that is queued.
LEMMA StandsBefore ==
  ASSUME TypeOK, QueuedInv, DecisionInv, [Next]_vars, NEW k \in Key, op[k].status # "none",
         NEW x \in Contents, AuthorityStands(k, x)'
  PROVE  AuthorityStands(k, x)
<1>1. SameAuthority(k)
  BY AuthorityFixed
<1>2. policy'.rev = op[k].policyRev /\ policy'.inForce
  BY <1>1 DEF AuthorityStands, SameAuthority
<1>3. Decided(op[k].policyRev, op[k].confirmed, k)
  BY DEF DecisionInv
<1>4. policy.rev \in Nat /\ policy'.rev \in Nat
  BY StepType, BoundAssumption DEF TypeOK
<1>5. policy.rev = op[k].policyRev /\ policy.inForce
  BY <1>2, <1>3, <1>4, HostMoves DEF Decided
<1>6. op[k].grantRev # 0 => grant.rev = op[k].grantRev /\ grant.inForce
  BY <1>1, HostMoves DEF AuthorityStands, SameAuthority
<1>7. x \in RiskyContents => op[k].confirmed /\ approval[k] = "valid"
  BY <1>1, <1>3, HostMoves DEF AuthorityStands, SameAuthority, Allowed, Decided
<1>8. x \notin RiskyContents => op[k].grantRev # 0 /\ grant.inForce
  BY <1>1, <1>6 DEF AuthorityStands, SameAuthority, Allowed
<1>. QED  BY <1>5, <1>6, <1>7, <1>8 DEF AuthorityStands, Allowed

\* A step of one worker: what the other workers know is kept, and its own it learns by
\* leasing and by Authorize.
LEMMA AuthorityInductive ==
  TypeOK /\ QueuedInv /\ DecisionInv /\ AuthorityInv /\ [Next]_vars => AuthorityInv'
<1> SUFFICES ASSUME TypeOK, QueuedInv, DecisionInv, AuthorityInv, [Next]_vars PROVE AuthorityInv'
  OBVIOUS
<1>r. /\ worker \in [Workers -> WorkerRecord] /\ op \in [Key -> Operation]
      /\ \A w \in Workers : worker[w] \in WorkerRecord /\ worker[w].key \in Key
  BY DraftTypes DEF TypeOK
<1> DEFINE Known(w) == /\ op[worker[w].key].status # "none"
                       /\ \A x \in Contents :
                            AuthorityStands(worker[w].key, x) => x \in worker[w].authAtLease
                       /\ worker[w].pc \in {"cleared", "calling"} =>
                            worker[w].content \in worker[w].authAtLease /\ InputUnchanged(w)
<1>1. ASSUME NEW w \in Workers, Busy(w), Busy(w)', worker'[w].key = worker[w].key,
             worker'[w].authAtLease = worker[w].authAtLease,
             worker'[w].pc \in {"cleared", "calling"} =>
               worker'[w].content \in worker'[w].authAtLease /\ InputUnchanged(w)'
      PROVE  Known(w)'
  <2> DEFINE k == worker[w].key
  <2>1. op[k].status # "none" /\ k \in Key
        /\ \A x \in Contents : AuthorityStands(k, x) => x \in worker[w].authAtLease
    BY <1>1, <1>r DEF AuthorityInv
  <2>2. op'[k].status # "none"
    BY <2>1, AuthorityFixed
  <2>3. ASSUME NEW x \in Contents, AuthorityStands(worker[w].key, x)'
        PROVE  x \in worker'[w].authAtLease
    <3> DEFINE j == worker'[w].key
    <3>1. j = k
      BY <1>1
    <3>2. AuthorityStands(k, x)'
      BY <2>3, <3>1 DEF AuthorityStands
    <3>. QED  BY <1>1, <2>1, <3>2, StandsBefore
  <2>. QED  BY <1>1, <2>2, <2>3
<1>2. ASSUME NEW w \in Workers, Busy(w)', worker'[w] = worker[w] PROVE Known(w)'
  BY <1>1, <1>2 DEF AuthorityInv, Busy, InputUnchanged
<1>3. ASSUME UNCHANGED worker PROVE AuthorityInv'
  BY <1>2, <1>3 DEF AuthorityInv
<1>4. ASSUME NEW w \in Workers, WorkerStep(w) PROVE AuthorityInv'
  <2>u. \A v \in Workers : v # w => worker'[v] = worker[v]
    BY <1>4, <1>r DEF WorkerStep, WorkerProgress, WorkerCrashes, LeaseOperation, MarkSending,
       LoadSources, Authorize, StopBeforeCall, StartCall, CallProvider, CompleteOperation,
       FencedOut
  <2>f. ASSUME Busy(w)' => Known(w)' PROVE AuthorityInv'
    BY <2>f, <2>u, <1>2 DEF AuthorityInv
  <2>1. ASSUME NEW k \in Key, LeaseOperation(w, k) PROVE AuthorityInv'
    <3>1. /\ worker'[w].key = k /\ worker'[w].pc = "leased"
          /\ worker'[w].authAtLease = {x \in Contents : AuthorityStands(k, x)}
          /\ op[k].status # "none"
      BY <2>1, <1>r DEF LeaseOperation, IdleWorker, LeasableStatus
    <3>2. op'[k].status # "none" /\ \A x \in Contents : AuthorityStands(k, x)' => AuthorityStands(k, x)
      BY <3>1, AuthorityFixed, StandsBefore
    <3>3. \A x \in Contents : AuthorityStands(worker[w].key, x)' => AuthorityStands(k, x)'
      BY <3>1 DEF AuthorityStands
    <3>. QED  BY <3>1, <3>2, <3>3, <2>f
  <2>2. CASE MarkSending(w) \/ LoadSources(w) \/ StopBeforeCall(w) \/ CallProvider(w)
    <3> DEFINE StaysBusy == /\ Busy(w) /\ Busy(w)' /\ worker'[w].key = worker[w].key
                            /\ worker'[w].authAtLease = worker[w].authAtLease
                            /\ worker'[w].pc \notin {"cleared", "calling"}
    <3> SUFFICES StaysBusy
      BY <1>1, <2>f
    <3>1. CASE MarkSending(w)
      BY <3>1, <1>r DEF MarkSending, Busy, WorkerRecord
    <3>2. CASE LoadSources(w)
      BY <3>2, <1>r DEF LoadSources, Busy, WorkerRecord
    <3>3. CASE StopBeforeCall(w) \/ CallProvider(w)
      <4>1. PICK r : worker' = [worker EXCEPT ![w].pc = "replied", ![w].result = r]
        BY <3>3 DEF StopBeforeCall, CallProvider
      <4>2. Busy(w)
        BY <3>3 DEF StopBeforeCall, CallProvider, Busy
      <4>. QED  BY <1>r, <4>1, <4>2 DEF Busy, WorkerRecord
    <3>. QED  BY <2>2, <3>1, <3>2, <3>3
  <2>3. CASE Authorize(w)
    <3>1. /\ Busy(w) /\ worker'[w].key = worker[w].key /\ worker'[w].rev = worker[w].rev
          /\ worker'[w].content = worker[w].content
          /\ worker'[w].authAtLease = worker[w].authAtLease
          /\ \/ /\ worker'[w].pc = "cleared" /\ InputUnchanged(w)
                /\ AuthorityStands(worker[w].key, worker[w].content)
             \/ worker'[w].pc = "replied"
      BY <2>3, <1>r DEF Authorize, Busy, WorkerRecord
    <3>2. worker'[w].pc = "cleared" =>
            worker'[w].content \in worker'[w].authAtLease /\ InputUnchanged(w)'
      BY <3>1, <1>r DEF AuthorityInv, InputUnchanged, WorkerRecord
    <3>3. Busy(w)' /\ worker'[w].pc # "calling"
      BY <3>1 DEF Busy
    <3>. QED  BY <3>1, <3>2, <3>3, <1>1, <2>f
  <2>4. CASE StartCall(w)
    <3>1. /\ Busy(w) /\ worker'[w] = [worker[w] EXCEPT !.pc = "calling"] /\ worker[w].pc = "cleared"
      BY <2>4, <1>r DEF StartCall, Busy
    <3>2. /\ worker'[w].key = worker[w].key /\ worker'[w].rev = worker[w].rev
          /\ worker'[w].content = worker[w].content /\ worker'[w].pc = "calling"
          /\ worker'[w].authAtLease = worker[w].authAtLease
      BY <3>1, <1>r DEF WorkerRecord
    <3>3. worker'[w].content \in worker'[w].authAtLease /\ InputUnchanged(w)'
      BY <3>1, <3>2 DEF AuthorityInv, InputUnchanged
    <3>4. Busy(w)'
      BY <3>2 DEF Busy
    <3>. QED  BY <3>1, <3>2, <3>3, <3>4, <1>1, <2>f
  <2>5. CASE CompleteOperation(w) \/ FencedOut(w) \/ WorkerCrashes(w)
    BY <2>5, <2>f, <1>r DEF CompleteOperation, FencedOut, WorkerCrashes, IdleWorker, Busy
  <2>. QED  BY <1>4, <2>1, <2>2, <2>3, <2>4, <2>5 DEF WorkerStep, WorkerProgress
<1>5. ASSUME NEW c \in Callers, CallerStep(c) PROVE UNCHANGED worker
  BY <1>5 DEF CallerStep, ReviewDraft, ReadForEdit, EvaluatePolicy, ConfirmSend,
     CheckRevision, SaveApproved, QueueOperation, SaveEdit, CallerStops
<1>. QED  BY <1>3, <1>4, <1>5, QueuedRowStep, HostFrame DEF Next, vars

\* What reaches the provider is, but for its subject, what was queued, under an authority to
\* send just that which stood when the operation was leased, however late workers are and whatever is edited, revoked, replaced
\* or runs out in between.
THEOREM CallsAuthorized == Spec => []CallsAreAuthorized
<1>1. Init => QueuedInv /\ DecisionInv /\ AuthorityInv
  BY DraftInit DEF Init, DecisionInv, Decided, AuthorityInv, IdleCaller, IdleWorker, NoOperation, Busy
<1>2. AuthorityInv => CallsAreAuthorized
  BY DEF AuthorityInv, CallsAreAuthorized, Busy
<1>. QED
  BY <1>1, <1>2, QueuedInductive, DecisionInductive, AuthorityInductive, TypeCorrect, PTL DEF Spec

-----------------------------------------------------------------------------
(* Refinement: the outbox implements the abstract dispatch of MailDispatch. *)

\* The outcome a reader of the dispatch sees, and whose message a draft is.
Seen == [k \in Key |-> MessageOutcome(k)]
DraftOfKey == [k \in Key |-> k.draft]

\* What every reachable state satisfies, as far as the refinement needs it.
DispatchInv == TypeOK /\ OneLeaseHolder /\ DeliveryInv /\ DraftInv /\ QueuedInv

DispatchStep == Dispatch!DispatchNext \/ UNCHANGED Dispatch!dispatchVars

\* What each status says.
LEMMA SeenOutcome ==
  ASSUME NEW k \in Key
  PROVE  /\ op[k].status = "none" => Seen[k] = "none"
         /\ op[k].status \in {"queued", "retry_wait", "leased", "sending"} => Seen[k] = "pending"
         /\ op[k].status = "outcome_unknown" => Seen[k] = "uncertain"
         /\ op[k].status \in {"succeeded", "reconciled_succeeded"} => Seen[k] = "sent"
         /\ op[k].status = "dead_letter" => Seen[k] = "failed"
         /\ op[k].status = "manual_resolution" => Seen[k] = "manual"
BY DEF Seen, MessageOutcome, HeldStatus, LeasableStatus

LEMMA SeenOutcomeAfter ==
  ASSUME NEW k \in Key
  PROVE  /\ op'[k].status = "none" => Seen'[k] = "none"
         /\ op'[k].status \in {"queued", "retry_wait", "leased", "sending"} => Seen'[k] = "pending"
         /\ op'[k].status = "outcome_unknown" => Seen'[k] = "uncertain"
         /\ op'[k].status \in {"succeeded", "reconciled_succeeded"} => Seen'[k] = "sent"
         /\ op'[k].status = "dead_letter" => Seen'[k] = "failed"
         /\ op'[k].status = "manual_resolution" => Seen'[k] = "manual"
BY DEF Seen, MessageOutcome, HeldStatus, LeasableStatus

\* A step that changes one operation changes one outcome.
LEMMA SeenChanges ==
  ASSUME NEW k \in Key, \A j \in Key : j # k => op'[j] = op[j]
  PROVE  Seen' = [Seen EXCEPT ![k] = Seen'[k]]
<1>1. ASSUME NEW j \in Key, j # k PROVE Seen'[j] = Seen[j]
  <2>1. op'[j] = op[j]
    BY <1>1
  <2>2. MessageOutcome(j)' = MessageOutcome(j)
    BY <2>1 DEF MessageOutcome
  <2>. QED  BY <2>2 DEF Seen
<1>2. Seen' = [j \in Key |-> Seen'[j]] /\ Seen = [j \in Key |-> Seen[j]]
  BY DEF Seen
<1>. QED  BY <1>1, <1>2

\* A step that keeps what a status says, of the one operation it changes, is not seen.
LEMMA SeenStutters ==
  ASSUME NEW k \in Key, \A j \in Key : j # k => op'[j] = op[j], Seen'[k] = Seen[k],
         UNCHANGED accepted
  PROVE  DispatchStep
<1>1. Seen = [j \in Key |-> Seen[j]]
  BY DEF Seen
<1>2. Seen' = Seen
  BY <1>1, SeenChanges
<1>. QED  BY <1>2 DEF DispatchStep, Dispatch!dispatchVars, Seen

LEMMA NothingSeen ==
  ASSUME UNCHANGED <<op, accepted>>
  PROVE  DispatchStep
BY DEF DispatchStep, Dispatch!dispatchVars, MessageOutcome

LEMMA DispatchMoves ==
  ASSUME NEW k \in Key,
         Dispatch!Request(k) \/ Dispatch!Deliver(k) \/ Dispatch!Settle(k) \/ Dispatch!Resolve(k)
  PROVE  DispatchStep
BY DEF DispatchStep, Dispatch!DispatchNext

\* A draft approved as an operation whose message is not delivered is not delivered: an
\* operation of another revision of the draft was never queued.
LEMMA NotDelivered ==
  ASSUME DispatchInv, NEW k \in Key, SentAs(k), accepted[k] = 0
  PROVE  ~Dispatch!DraftDelivered(k)
<1> SUFFICES ASSUME NEW n \in Key, n.draft = k.draft, accepted[n] = 1 PROVE FALSE
  BY DEF Dispatch!DraftDelivered
<1>1. SentAs(n)
  BY DEF DispatchInv, DraftInv, QueuedInv
<1>2. n.digest = k.digest /\ n.rev + 1 = k.rev + 1
  BY <1>1 DEF SentAs
<1>3. n.rev \in Nat /\ k.rev \in Nat
  BY DraftTypes DEF DispatchInv
<1>4. n.rev = k.rev
  BY <1>2, <1>3
<1>5. n = k
  BY <1>2, <1>4 DEF Key
<1>. QED  BY <1>5

\* queue_draft_send requests the dispatch, or finds that it was requested.
LEMMA QueueDispatches ==
  ASSUME DispatchInv, NEW c \in Callers, QueueOperation(c)
  PROVE  DispatchStep
<1>1. PICK k \in Key : k = caller[c].key
  BY DraftTypes DEF DispatchInv
<1>r. op \in [Key -> Operation] /\ UNCHANGED accepted
  BY DraftTypes DEF DispatchInv, QueueOperation
<1>2. CASE op[k].status # "none"
  BY <1>1, <1>2, <1>r, NothingSeen DEF QueueOperation
<1>3. CASE op[k].status = "none"
  <2>1. op'[k].status = "queued" /\ \A j \in Key : j # k => op'[j] = op[j]
    BY <1>1, <1>3, <1>r DEF QueueOperation, NoOperation
  <2>2. SentAs(k) /\ accepted[k] = 0
    BY <1>1, <1>3 DEF DispatchInv, DraftInv, CallerInv, QueueOperation, DeliveryInv, RowInv
  <2>3. Seen[k] = "none" /\ Seen'[k] = "pending"
    BY <1>3, <2>1, SeenOutcome, SeenOutcomeAfter
  <2>4. Seen' = [Seen EXCEPT ![k] = "pending"]
    BY <2>1, <2>3, SeenChanges
  <2>5. Dispatch!Request(k)
    BY <1>r, <2>2, <2>3, <2>4, NotDelivered DEF Dispatch!Request, Seen
  <2>. QED  BY <2>5, DispatchMoves
<1>. QED  BY <1>2, <1>3

\* What holds of a worker at work, and of its operation.
LEMMA AtWork ==
  ASSUME DispatchInv, NEW w \in Workers, Busy(w), NEW k \in Key, k = worker[w].key
  PROVE  /\ WorkInv(w) /\ SentAs(k) /\ Seen[k] = "pending"
         /\ op[k].status \in {"leased", "sending"}
<1>1. WorkInv(w) /\ op[k].status \in {"leased", "sending"}
  BY DEF DispatchInv, DeliveryInv, WorkInv, HeldStatus
<1>. QED  BY <1>1, SeenOutcome DEF DispatchInv, DraftInv

\* connector.send delivers the message of a pending dispatch, or does not.
LEMMA CallDelivers ==
  ASSUME DispatchInv, NEW w \in Workers, CallProvider(w)
  PROVE  DispatchStep
<1>1. PICK k \in Key : k = worker[w].key
  BY DraftTypes DEF DispatchInv
<1>r. accepted \in [Key -> Nat] /\ UNCHANGED op /\ Busy(w) /\ worker[w].pc # "replied"
  BY DraftTypes DEF DispatchInv, CallProvider, Busy
<1>2. SentAs(k) /\ Seen[k] = "pending" /\ accepted[k] = 0
  BY <1>1, <1>r, AtWork DEF WorkInv
<1>3. PICK took \in BOOLEAN :
        accepted' = [accepted EXCEPT ![k] = IF took THEN accepted[k] + 1 ELSE accepted[k]]
  BY <1>1 DEF CallProvider
<1>4. CASE took
  <2>1. accepted' = [accepted EXCEPT ![k] = 1]
    BY <1>2, <1>3, <1>4
  <2>2. Seen' = Seen
    BY <1>r DEF Seen, MessageOutcome
  <2>3. Dispatch!Deliver(k)
    BY <1>2, <2>1, <2>2, NotDelivered DEF Dispatch!Deliver, Seen
  <2>. QED  BY <2>3, DispatchMoves
<1>5. CASE ~took
  BY <1>3, <1>5, <1>r, NothingSeen
<1>. QED  BY <1>4, <1>5

\* complete_operation settles the dispatch as the provider left it, in doubt, or leaves it
\* pending for a retry.
LEMMA CompletionSettles ==
  ASSUME DispatchInv, NEW w \in Workers, CompleteOperation(w)
  PROVE  DispatchStep
<1>1. PICK k \in Key : k = worker[w].key
  BY DraftTypes DEF DispatchInv
<1>r. /\ op \in [Key -> Operation] /\ UNCHANGED accepted /\ Busy(w) /\ worker[w].pc = "replied"
      /\ worker[w].result \in {"succeeded", "retry_wait", "outcome_unknown", "dead_letter"}
  BY DeliveryTypes DEF DispatchInv, CompleteOperation, Busy, WorkerRecord, Results
<1>2. /\ Seen[k] = "pending"
      /\ worker[w].result \in {"retry_wait", "dead_letter"} => accepted[k] = 0
      /\ worker[w].result = "succeeded" => accepted[k] = 1
  BY <1>1, <1>r, AtWork DEF WorkInv
<1>3. op'[k].status = worker[w].result /\ \A j \in Key : j # k => op'[j] = op[j]
  BY <1>1, <1>r DEF CompleteOperation, Operation
<1>4. CASE worker[w].result = "retry_wait"
  BY <1>2, <1>3, <1>4, <1>r, SeenOutcomeAfter, SeenStutters
<1>5. CASE worker[w].result # "retry_wait"
  <2> DEFINE o == IF worker[w].result = "outcome_unknown" THEN "uncertain"
                  ELSE IF accepted[k] = 1 THEN "sent" ELSE "failed"
  <2>1. Seen'[k] = o
    BY <1>2, <1>3, <1>5, <1>r, SeenOutcomeAfter
  <2>2. Seen' = [Seen EXCEPT ![k] = o]
    BY <1>3, <2>1, SeenChanges
  <2>3. o \in {"uncertain", IF accepted[k] = 1 THEN "sent" ELSE "failed"}
    OBVIOUS
  <2>4. Dispatch!Settle(k)
    BY <1>2, <1>r, <2>2, <2>3 DEF Dispatch!Settle, Seen
  <2>. QED  BY <2>4, DispatchMoves
<1>. QED  BY <1>4, <1>5

\* Steps on rows: an expired lease ends in doubt, and reconciliation ends a doubt.
LEMMA RowStepDispatches ==
  ASSUME DispatchInv, NEW k \in Key, OperationStep(k)
  PROVE  DispatchStep
<1>r. op \in [Key -> Operation] /\ op[k] \in Operation /\ accepted \in [Key -> Nat]
  BY DraftTypes DEF DispatchInv
<1>1. CASE LeaseExpires(k)
  <2>1. /\ UNCHANGED accepted /\ op'[k].status = op[k].status
        /\ op[k].status \in {"leased", "sending"}
        /\ \A j \in Key : j # k => op'[j] = op[j]
    BY <1>1, <1>r DEF LeaseExpires, Operation, HeldStatus
  <2>. QED  BY <2>1, SeenOutcome, SeenOutcomeAfter, SeenStutters
<1>2. CASE RecoverExpired(k)
  <2>1. /\ UNCHANGED accepted /\ op'[k].status = "outcome_unknown"
        /\ op[k].status \in {"leased", "sending"}
        /\ \A j \in Key : j # k => op'[j] = op[j]
    BY <1>2, <1>r DEF RecoverExpired, Operation, HeldStatus
  <2>2. Seen[k] = "pending" /\ Seen'[k] = "uncertain"
    BY <2>1, SeenOutcome, SeenOutcomeAfter
  <2>3. Seen' = [Seen EXCEPT ![k] = "uncertain"]
    BY <2>1, <2>2, SeenChanges
  <2>4. Dispatch!Settle(k)
    BY <2>1, <2>2, <2>3 DEF Dispatch!Settle, Seen
  <2>. QED  BY <2>4, DispatchMoves
<1>3. ASSUME NEW s \in OpStatus, ReconcileOutcomeUnknown(k, s) PROVE DispatchStep
  <2>1. /\ UNCHANGED accepted /\ op'[k].status = s /\ op[k].status = "outcome_unknown"
        /\ \A j \in Key : j # k => op'[j] = op[j]
    BY <1>3, <1>r DEF ReconcileOutcomeUnknown, Operation
  <2>2. accepted[k] <= 1 /\ accepted[k] \in Nat
    BY <1>r DEF DispatchInv, DeliveryInv, RowInv
  <2>3. \/ s = "reconciled_succeeded" /\ accepted[k] = 1
        \/ s = "retry_wait" /\ accepted[k] = 0
        \/ s = "manual_resolution"
    BY <1>3, <2>2 DEF ReconcileOutcomeUnknown, Evidence
  <2>4. /\ Seen[k] = "uncertain"
        /\ Seen'[k] \in {"manual", IF accepted[k] = 1 THEN "sent" ELSE "pending"}
    BY <2>1, <2>3, SeenOutcome, SeenOutcomeAfter
  <2>5. Seen' = [Seen EXCEPT ![k] = Seen'[k]]
    BY <2>1, SeenChanges
  <2>6. Dispatch!Resolve(k)
    BY <2>1, <2>4, <2>5 DEF Dispatch!Resolve, Seen
  <2>. QED  BY <2>6, DispatchMoves
<1>. QED  BY <1>1, <1>2, <1>3 DEF OperationStep

\* Leasing and marking an operation are not seen.
LEMMA WorkIsNotSeen ==
  ASSUME DispatchInv, NEW w \in Workers, WorkerStep(w), ~CallProvider(w), ~CompleteOperation(w)
  PROVE  DispatchStep
<1>r. op \in [Key -> Operation] /\ worker[w].key \in Key
  BY DraftTypes DEF DispatchInv
<1>1. ASSUME NEW k \in Key, LeaseOperation(w, k) PROVE DispatchStep
  <2>1. /\ UNCHANGED accepted /\ op'[k].status = "leased"
        /\ op[k].status \in {"queued", "retry_wait"}
        /\ \A j \in Key : j # k => op'[j] = op[j]
    BY <1>1, <1>r DEF LeaseOperation, Operation, LeasableStatus
  <2>. QED  BY <2>1, SeenOutcome, SeenOutcomeAfter, SeenStutters
<1>2. CASE MarkSending(w)
  <2>1. PICK k \in Key : k = worker[w].key
    BY <1>r
  <2>2. /\ UNCHANGED accepted /\ op'[k].status = "sending"
        /\ \A j \in Key : j # k => op'[j] = op[j]
    BY <1>2, <1>r, <2>1 DEF MarkSending, Operation
  <2>3. Seen[k] = "pending"
    BY <1>2, <2>1, AtWork DEF MarkSending, Busy
  <2>. QED  BY <2>2, <2>3, SeenOutcomeAfter, SeenStutters
<1>3. CASE UNCHANGED <<op, accepted>>
  BY <1>3, NothingSeen
<1>. QED  BY <1>1, <1>2, <1>3 DEF WorkerStep, WorkerProgress, WorkerCrashes, LoadSources,
          Authorize, StopBeforeCall, StartCall, FencedOut

\* ImplementsDispatch: whatever interleaving of calls, workers, expiring leases and
\* reconciliations, the outbox dispatches a draft once, delivers its message at most once and
\* reports outcomes that agree with the provider or are uncertain, when a save tests and
\* writes at once, workers finish within their leases and providers answer readably.
THEOREM ImplementsDispatchTheorem ==
  ASSUME AtomicSaves, TimelyWorkers, ~GarbledReceipts
  PROVE  Spec => ImplementsDispatch
<1>1. Init => Dispatch!DispatchInit
  <2> SUFFICES ASSUME Init PROVE Dispatch!DispatchInit
    OBVIOUS
  <2>1. \A k \in Key : op[k].status = "none" /\ accepted[k] = 0
    BY DEF Init, NoOperation
  <2>2. \A k \in Key : MessageOutcome(k) = "none"
    <3>1. ASSUME NEW k \in Key PROVE Seen[k] = "none"
      BY <2>1, SeenOutcome
    <3>. QED  BY <3>1 DEF Seen
  <2>3. accepted = [k \in Key |-> 0]
    BY DEF Init
  <2>. QED  BY <2>2, <2>3 DEF Dispatch!DispatchInit
<1>2. DispatchInv /\ [Next]_vars => [Dispatch!DispatchNext]_(Dispatch!dispatchVars)
  <2> SUFFICES ASSUME DispatchInv, [Next]_vars PROVE DispatchStep
    BY DEF DispatchStep
  <2>1. ASSUME NEW c \in Callers, CallerStep(c) PROVE DispatchStep
    BY <2>1, QueueDispatches, NothingSeen DEF CallerStep, ReviewDraft, ReadForEdit,
       EvaluatePolicy, ConfirmSend, CheckRevision, SaveApproved, SaveEdit, CallerStops
  <2>2. ASSUME NEW w \in Workers, WorkerStep(w) PROVE DispatchStep
    BY <2>2, CallDelivers, CompletionSettles, WorkIsNotSeen
  <2>3. CASE HostStep \/ UNCHANGED vars
    BY <2>3, HostFrame, NothingSeen DEF vars
  <2>. QED  BY <2>1, <2>2, <2>3, RowStepDispatches DEF Next
<1>3. TypeOK /\ OneLeaseHolder /\ DeliveryInv /\ [Next]_vars => DeliveryInv'
  BY DeliveryInductive
<1>4. TypeOK /\ OneLeaseHolder /\ DeliveryInv /\ (DraftInv /\ QueuedInv) => DispatchInv
  BY DEF DispatchInv
<1>5. Spec => [](DraftInv /\ QueuedInv)
  BY DraftInvariant
<1>. QED
  BY <1>1, <1>2, <1>3, <1>4, <1>5, TypeCorrect, FencedLease, DeliveryInit, PTL
     DEF Spec, ImplementsDispatch, Dispatch!DispatchSpec

-----------------------------------------------------------------------------
(* Who may send: the cutover between two systems (SenderCutover).           *)
(*                                                                         *)
(* A controller reads its batch, awaits the interlock and replaces the     *)
(* batch by a copy of what it read, so that the batch alone does not say   *)
(* who relies on the lease: an answer on its way back does too.            *)

\* A batch counts on the lease once the interlock has said yes, be it recorded or not.
Relies(b) ==
  batch[b] = "send_claimed" \/ \E c \in Calls : turn[c] = [pc |-> "claimed", batch |-> b]

\* A batch that counts on the lease and has not lost it belongs to its holder, and the
\* lease runs: nobody else's claim is granted.
LeaseBacksInv ==
  \A b \in Batches : Relies(b) /\ b \notin lapsed => lease.owner = OwnerOf[b] /\ lease.live

\* A batch that two calls are at work on is one of those set aside.
OneCallInv ==
  \A c, d \in Calls :
    c # d /\ turn[c].pc # "idle" /\ turn[d].pc # "idle" /\ turn[c].batch = turn[d].batch
      => turn[c].batch \in overlapped

\* What a claim that goes on alone read of its batch still holds of it.
ReadHoldsInv ==
  \A c \in Calls :
    turn[c].pc \in {"claim", "claimed"} /\ turn[c].batch \notin overlapped
      => batch[turn[c].batch] = "planned"

Exclusive ==
  /\ CutoverTypeOK
  /\ LeaseBacksInv
  /\ RolledBackStays
  /\ OneCallInv
  /\ ReadHoldsInv

\* A call's record is known by its two fields.
LEMMA TurnFields ==
  ASSUME NEW t \in Turn
  PROVE  /\ t.pc \in {"idle", "claim", "claimed", "release", "released"}
         /\ t.batch \in Batches
         /\ t = [pc |-> t.pc, batch |-> t.batch]
BY DEF Turn

\* The lease has an owner or none, and a batch's owner is somebody.
LEMMA LeaseFields ==
  ASSUME lease \in Lease
  PROVE  /\ lease.owner \in Senders \cup {NoOwner}
         /\ lease.live \in BOOLEAN
         /\ lease.fence \in Nat
         /\ \A b \in Batches : OwnerOf[b] \in Senders /\ OwnerOf[b] # NoOwner
BY OwnerAssumption DEF Lease, Senders

LEMMA ExclusiveInit == CutoverInit => Exclusive
<1> SUFFICES ASSUME CutoverInit  PROVE Exclusive
  OBVIOUS
<1> USE DEF CutoverInit
<1>1. (CHOOSE b \in Batches : TRUE) \in Batches
  BY BatchAssumption
<1>2. lease \in Lease
  BY DEF Lease
<1>3. turn \in [Calls -> Turn]
  BY <1>1 DEF Turn
<1>4. \A b \in Batches : ~Relies(b)
  BY DEF Relies
<1>5. CutoverTypeOK
  BY <1>2, <1>3 DEF CutoverTypeOK, BatchState
<1>6. LeaseBacksInv
  BY <1>4 DEF LeaseBacksInv
<1>7. RolledBackStays /\ OneCallInv /\ ReadHoldsInv
  BY DEF RolledBackStays, OneCallInv, ReadHoldsInv
<1>. QED  BY <1>5, <1>6, <1>7 DEF Exclusive

\* Types.
LEMMA CutoverTypes ==
  ASSUME CutoverTypeOK, CutoverNext
  PROVE  CutoverTypeOK'
<1> USE DEF CutoverTypeOK
<1> DEFINE Pcs == {"idle", "claim", "claimed", "release", "released"}
<1>0. \A c \in Calls : \A pc \in Pcs : Moves(c, pc) => turn' \in [Calls -> Turn]
  BY DEF Moves, Turn
<1>1. ASSUME NEW b \in Batches, StartBatch(b)  PROVE CutoverTypeOK'
  BY <1>1 DEF StartBatch, BatchState
<1>2. ASSUME NEW c \in Calls, NEW b \in Batches, NEW pc \in Pcs, Enters(c, b, pc)
      PROVE  CutoverTypeOK'
  <2>1. [pc |-> pc, batch |-> b] \in Turn
    BY DEF Turn
  <2>. QED  BY <2>1, <1>2 DEF Enters
<1>3. ASSUME NEW c \in Calls, InterlockClaims(c)  PROVE CutoverTypeOK'
  <2>1. turn[c].batch \in Batches
    BY TurnFields
  <2>2. CASE Grants(OwnerOf[turn[c].batch])
    <3>1. [owner |-> OwnerOf[turn[c].batch], live |-> TRUE, fence |-> lease.fence + 1] \in Lease
      BY <2>1, LeaseFields DEF Lease
    <3>. QED  BY <1>3, <1>0, <2>1, <2>2, <3>1 DEF InterlockClaims, Relying
  <2>3. CASE ~Grants(OwnerOf[turn[c].batch])
    BY <1>3, <1>0, <2>3 DEF InterlockClaims
  <2>. QED  BY <2>2, <2>3
<1>4. ASSUME NEW c \in Calls, InterlockReleases(c)  PROVE CutoverTypeOK'
  <2>1. Freed => lease' \in Lease
    BY DEF Freed, Lease
  <2>. QED  BY <1>4, <1>0, <2>1 DEF InterlockReleases, Relying
<1>5. ASSUME NEW c \in Calls, RecordClaim(c) \/ RecordRelease(c) \/ InterlockFails(c)
      PROVE  CutoverTypeOK'
  BY <1>5, <1>0, TurnFields DEF RecordClaim, RecordRelease, InterlockFails, BatchState
<1>6. ASSUME LeaseRunsOut  PROVE CutoverTypeOK'
  BY <1>6 DEF LeaseRunsOut, Relying, Lease
<1>7. ASSUME NEW bs \in SUBSET Batches, ControllerRestarts(bs)  PROVE CutoverTypeOK'
  <2>1. turn' \in [Calls -> Turn]
    BY <1>7 DEF ControllerRestarts, Turn
  <2>2. lease' \in Lease
    BY <1>7 DEF ControllerRestarts, Freed, Lease
  <2>3. batch' \in [Batches -> BatchState]
    BY <1>7 DEF ControllerRestarts, BatchState
  <2>. QED  BY <1>7, <2>1, <2>2, <2>3 DEF ControllerRestarts
<1>. QED
  BY <1>1, <1>2, <1>3, <1>4, <1>5, <1>6, <1>7
  DEF CutoverNext, CallStep, ClaimSendAuthority, ReleaseSendAuthority

\* What a call's own step leaves of the records.
LEMMA MovedTurn ==
  ASSUME turn \in [Calls -> Turn], NEW c \in Calls, NEW pc, Moves(c, pc)
  PROVE  /\ turn'[c].pc = pc /\ turn'[c].batch = turn[c].batch
         /\ \A d \in Calls \ {c} : turn'[d] = turn[d]
BY DEF Moves, Turn

\* A batch relies on no more than before, and the lease is what it was.
LEMMA LeaseKeeps ==
  ASSUME LeaseBacksInv, lease' = lease,
         \A b \in Batches : Relies(b)' /\ b \notin lapsed' => Relies(b) /\ b \notin lapsed
  PROVE  LeaseBacksInv'
BY DEF LeaseBacksInv

\* A call that moves to a place other than "claimed" makes no batch rely.
LEMMA RelyKeeps ==
  ASSUME CutoverTypeOK, NEW c \in Calls, NEW pc, Moves(c, pc), pc # "claimed",
         NEW b \in Batches, batch'[b] = "send_claimed" => batch[b] = "send_claimed",
         Relies(b)'
  PROVE  Relies(b)
<1>1. CASE batch'[b] = "send_claimed"
  BY <1>1 DEF Relies
<1>2. CASE \E d \in Calls : turn'[d] = [pc |-> "claimed", batch |-> b]
  <2>1. PICK d \in Calls : turn'[d] = [pc |-> "claimed", batch |-> b]
    BY <1>2
  <2>2. turn'[d].pc = "claimed"
    BY <2>1
  <2>3. d # c /\ turn'[d] = turn[d]
    BY <2>2, MovedTurn DEF CutoverTypeOK
  <2>. QED  BY <2>1, <2>3 DEF Relies
<1>. QED  BY <1>1, <1>2 DEF Relies

LEMMA LeaseBacksStep ==
  ASSUME Exclusive, CutoverNext
  PROVE  LeaseBacksInv'
<1>0. CutoverTypeOK /\ LeaseBacksInv
  BY DEF Exclusive
<1>t. /\ turn \in [Calls -> Turn] /\ batch \in [Batches -> BatchState] /\ lease \in Lease
      /\ lapsed \in SUBSET Batches
  BY <1>0 DEF CutoverTypeOK
<1>f. ASSUME NEW c \in Calls  PROVE turn[c].batch \in Batches /\ turn[c] = [pc |-> turn[c].pc, batch |-> turn[c].batch]
  BY <1>t, TurnFields
<1>1. ASSUME NEW b \in Batches, StartBatch(b)  PROVE LeaseBacksInv'
  <2>1. \A a \in Batches : Relies(a)' => Relies(a)
    BY <1>1, <1>t DEF StartBatch, Relies
  <2>. QED  BY <2>1, <1>0, <1>1, LeaseKeeps DEF StartBatch
<1>2. ASSUME NEW c \in Calls, NEW b \in Batches, NEW pc \in {"claim", "release"}, Enters(c, b, pc)
      PROVE  LeaseBacksInv'
  <2>1. ASSUME NEW a \in Batches, Relies(a)'  PROVE Relies(a)
    <3>1. CASE batch'[a] = "send_claimed"
      BY <3>1, <1>2 DEF Enters, Relies
    <3>2. ASSUME NEW d \in Calls, turn'[d] = [pc |-> "claimed", batch |-> a]  PROVE Relies(a)
      <4>1. turn'[d].pc = "claimed"
        BY <3>2
      <4>2. d # c
        BY <4>1, <1>2, <1>t DEF Enters
      <4>3. turn'[d] = turn[d]
        BY <4>2, <1>2, <1>t DEF Enters
      <4>. QED  BY <3>2, <4>3 DEF Relies
    <3>. QED  BY <2>1, <3>1, <3>2 DEF Relies
  <2>. QED  BY <2>1, <1>0, <1>2, LeaseKeeps DEF Enters
<1>3. ASSUME NEW c \in Calls, InterlockClaims(c)  PROVE LeaseBacksInv'
  <2> DEFINE b == turn[c].batch
             o == OwnerOf[b]
  <2>1. CASE ~Grants(o)
    <3>1. Moves(c, "idle") /\ UNCHANGED <<lease, lapsed, batch>>
      BY <2>1, <1>3 DEF InterlockClaims
    <3>2. \A a \in Batches : Relies(a)' => Relies(a)
      BY <3>1, <1>0, RelyKeeps
    <3>. QED  BY <3>1, <3>2, <1>0, LeaseKeeps
  <2>2. CASE Grants(o)
    <3> SUFFICES ASSUME NEW a \in Batches, Relies(a)', a \notin lapsed'
                 PROVE  lease'.owner = OwnerOf[a] /\ lease'.live
      BY DEF LeaseBacksInv
    <3>1. /\ lease' = [owner |-> o, live |-> TRUE, fence |-> lease.fence + 1]
          /\ lapsed' = lapsed \ {b}
          /\ Moves(c, "claimed") /\ batch' = batch
      BY <2>2, <1>3 DEF InterlockClaims
    <3>2. lease'.owner = o /\ lease'.live
      BY <3>1
    <3>3. CASE a = b
      BY <3>2, <3>3
    <3>4. CASE a # b
      <4>1. Relies(a)
        <5>1. ASSUME NEW d \in Calls, turn'[d] = [pc |-> "claimed", batch |-> a]
              PROVE  turn[d] = [pc |-> "claimed", batch |-> a]
          <6>1. turn'[d].batch = a
            BY <5>1
          <6>2. d # c
            BY <6>1, <3>1, <3>4, <1>t, MovedTurn
          <6>. QED  BY <6>2, <5>1, <3>1, <1>t, MovedTurn
        <5>. QED  BY <3>1, <5>1 DEF Relies
      <4>2. a \notin lapsed
        BY <3>1, <3>4
      <4>3. lease.owner = OwnerOf[a] /\ lease.live
        BY <4>1, <4>2, <1>0 DEF LeaseBacksInv
      <4>4. lease.owner # NoOwner
        BY <4>3, <1>t, LeaseFields
\* What the interlock grants while a lease runs, it grants to its owner.
      <4>5. lease.owner = o
        BY <2>2, <4>3, <4>4 DEF Grants
      <4>. QED  BY <3>2, <4>3, <4>5
    <3>. QED  BY <3>3, <3>4
  <2>. QED  BY <2>1, <2>2
<1>4. ASSUME NEW c \in Calls, InterlockReleases(c)  PROVE LeaseBacksInv'
  <2> DEFINE o == OwnerOf[turn[c].batch]
  <2>1. \E pc \in {"idle", "released"} : Moves(c, pc)
    BY <1>4 DEF InterlockReleases
  <2>2. batch' = batch
    BY <1>4 DEF InterlockReleases
  <2>3. \A a \in Batches : Relies(a)' => Relies(a)
    BY <2>1, <2>2, <1>0, RelyKeeps
  <2>4. CASE lease.owner = o
    <3>1. lapsed' = lapsed \cup Relying(o)
      <4>1. o # NoOwner
        BY <1>f, <1>t, LeaseFields
      <4>. QED  BY <2>4, <4>1, <1>4 DEF InterlockReleases
    <3>2. \A a \in Batches : ~(Relies(a)' /\ a \notin lapsed')
      BY <3>1, <2>3, <2>4, <1>0 DEF LeaseBacksInv, Relying, Relies
    <3>. QED  BY <3>2 DEF LeaseBacksInv
  <2>5. CASE lease.owner # o
    BY <2>5, <1>4, <2>3, <1>0, LeaseKeeps DEF InterlockReleases
  <2>. QED  BY <2>4, <2>5
<1>5. ASSUME NEW c \in Calls, RecordClaim(c)  PROVE LeaseBacksInv'
  <2>1. Moves(c, "idle") /\ UNCHANGED <<lease, lapsed>>
    BY <1>5 DEF RecordClaim
  <2>2. batch' = [batch EXCEPT ![turn[c].batch] = "send_claimed"]
    BY <1>5 DEF RecordClaim
  <2>3. Relies(turn[c].batch)
    BY <1>5, <1>f DEF RecordClaim, Relies
  <2>4. ASSUME NEW a \in Batches, Relies(a)'  PROVE Relies(a)
    <3>1. CASE a = turn[c].batch
      BY <3>1, <2>3
    <3>2. CASE a # turn[c].batch
      BY <3>2, <2>1, <2>2, <2>4, <1>0, <1>t, RelyKeeps
    <3>. QED  BY <3>1, <3>2
  <2>. QED  BY <2>1, <2>4, <1>0, LeaseKeeps
<1>6. ASSUME NEW c \in Calls, RecordRelease(c)  PROVE LeaseBacksInv'
  <2>1. \A a \in Batches : batch'[a] = "send_claimed" => batch[a] = "send_claimed"
    BY <1>6, <1>t DEF RecordRelease
  <2>2. \A a \in Batches : Relies(a)' => Relies(a)
    BY <1>6, <2>1, <1>0, RelyKeeps DEF RecordRelease
  <2>. QED  BY <1>6, <2>2, <1>0, LeaseKeeps DEF RecordRelease
<1>7. ASSUME NEW c \in Calls, InterlockFails(c)  PROVE LeaseBacksInv'
  <2>1. \A a \in Batches : Relies(a)' => Relies(a)
    BY <1>7, <1>0, RelyKeeps DEF InterlockFails
  <2>. QED  BY <1>7, <2>1, <1>0, LeaseKeeps DEF InterlockFails
<1>8. ASSUME LeaseRunsOut  PROVE LeaseBacksInv'
  <2>1. \A a \in Batches : Relies(a)' => Relies(a)
    BY <1>8 DEF LeaseRunsOut, Relies
  <2>2. \A a \in Batches : ~(Relies(a)' /\ a \notin lapsed')
    BY <1>8, <2>1, <1>0 DEF LeaseRunsOut, LeaseBacksInv, Relying, Relies
  <2>. QED  BY <2>2 DEF LeaseBacksInv
<1>9. ASSUME NEW bs \in SUBSET Batches, ControllerRestarts(bs)  PROVE LeaseBacksInv'
  <2>1. ASSUME NEW a \in Batches, Relies(a)'  PROVE a \notin bs /\ Relies(a)
    <3>1. CASE batch'[a] = "send_claimed"
      BY <3>1, <1>9, <1>t DEF ControllerRestarts, Relies
    <3>2. ASSUME NEW d \in Calls, turn'[d] = [pc |-> "claimed", batch |-> a]
          PROVE  a \notin bs /\ Relies(a)
      <4>0. turn'[d].pc = "claimed"
        BY <3>2
      <4>1. turn[d].batch \notin bs
        BY <4>0, <1>9, <1>t DEF ControllerRestarts, Turn
      <4>2. turn'[d] = turn[d]
        BY <4>1, <1>9 DEF ControllerRestarts
      <4>3. turn[d].batch = a
        BY <4>2, <3>2
      <4>. QED  BY <3>2, <4>1, <4>2, <4>3 DEF Relies
    <3>. QED  BY <2>1, <3>1, <3>2 DEF Relies
  <2>2. CASE interlock = "process"
    BY <2>1, <2>2, <1>9 DEF ControllerRestarts, LeaseBacksInv
  <2>3. CASE interlock # "process"
    BY <2>1, <2>3, <1>9, <1>0, LeaseKeeps DEF ControllerRestarts
  <2>. QED  BY <2>2, <2>3
<1>. QED
  BY <1>1, <1>2, <1>3, <1>4, <1>5, <1>6, <1>7, <1>8, <1>9
  DEF CutoverNext, CallStep, ClaimSendAuthority, ReleaseSendAuthority

\* A step in which no call starts, no batch loses its mark, and no batch changes that a
\* claim is under way for, keeps both facts about calls.
LEMMA CallsKeep ==
  ASSUME OneCallInv, ReadHoldsInv, overlapped' = overlapped,
         \A c \in Calls : turn'[c].pc # "idle" =>
           /\ turn[c].pc # "idle" /\ turn'[c].batch = turn[c].batch
           /\ turn'[c].pc \in {"claim", "claimed"} =>
                /\ turn[c].pc \in {"claim", "claimed"}
                /\ turn[c].batch \notin overlapped =>
                     batch'[turn[c].batch] = batch[turn[c].batch]
  PROVE  OneCallInv' /\ ReadHoldsInv'
<1>1. OneCallInv'
  BY DEF OneCallInv
<1>2. ReadHoldsInv'
  BY DEF ReadHoldsInv
<1>. QED  BY <1>1, <1>2

LEMMA CallsStep ==
  ASSUME Exclusive, CutoverNext
  PROVE  RolledBackStays' /\ OneCallInv' /\ ReadHoldsInv'
<1>0. CutoverTypeOK /\ RolledBackStays /\ OneCallInv /\ ReadHoldsInv
  BY DEF Exclusive
<1>t. turn \in [Calls -> Turn] /\ batch \in [Batches -> BatchState] /\ overlapped \in SUBSET Batches
  BY <1>0 DEF CutoverTypeOK
<1>f. \A c \in Calls : turn[c].batch \in Batches
  BY <1>t, TurnFields
<1>1. ASSUME NEW b \in Batches, StartBatch(b)
      PROVE  RolledBackStays' /\ OneCallInv' /\ ReadHoldsInv'
  <2>1. UNCHANGED <<turn, overlapped, undone>>
    BY <1>1 DEF StartBatch
  <2>2. \A a \in Batches : batch[a] = "planned" => batch'[a] = batch[a]
    BY <1>1, <1>t DEF StartBatch
  <2>3. OneCallInv' /\ ReadHoldsInv'
    BY <2>1, <2>2, <1>0, <1>f, CallsKeep DEF ReadHoldsInv
  <2>. QED  BY <2>1, <2>3, <1>0 DEF RolledBackStays
<1>2. ASSUME NEW c \in Calls, NEW b \in Batches, NEW pc \in {"claim", "release"}, Enters(c, b, pc),
             pc = "claim" => batch[b] = "planned"
      PROVE  RolledBackStays' /\ OneCallInv' /\ ReadHoldsInv'
  <2>1. /\ overlapped' = IF InFlight(b) THEN overlapped \cup {b} ELSE overlapped
        /\ batch' = batch /\ undone' = undone
        /\ turn'[c] = [pc |-> pc, batch |-> b]
        /\ \A d \in Calls \ {c} : turn'[d] = turn[d]
    BY <1>2, <1>t DEF Enters
  <2>2. RolledBackStays'
    BY <2>1, <1>0 DEF RolledBackStays
  <2>3. OneCallInv'
    <3> SUFFICES ASSUME NEW d \in Calls, NEW e \in Calls, d # e, turn'[d].pc # "idle",
                        turn'[e].pc # "idle", turn'[d].batch = turn'[e].batch
                 PROVE  turn'[d].batch \in overlapped'
      BY DEF OneCallInv
    <3>1. CASE d # c /\ e # c
      BY <3>1, <2>1, <1>0 DEF OneCallInv
    <3>2. CASE d = c
      <4>1. turn[e].pc # "idle" /\ turn[e].batch = b
        BY <3>2, <2>1
      <4>. QED  BY <4>1, <3>2, <2>1 DEF InFlight
    <3>3. CASE e = c
      <4>1. turn[d].pc # "idle" /\ turn[d].batch = b
        BY <3>3, <2>1
      <4>. QED  BY <4>1, <3>3, <2>1 DEF InFlight
    <3>. QED  BY <3>1, <3>2, <3>3
  <2>4. ReadHoldsInv'
    <3> SUFFICES ASSUME NEW d \in Calls, turn'[d].pc \in {"claim", "claimed"},
                        turn'[d].batch \notin overlapped'
                 PROVE  batch[turn'[d].batch] = "planned"
      BY <2>1 DEF ReadHoldsInv
    <3>1. CASE d = c
      BY <3>1, <2>1, <1>2
    <3>2. CASE d # c
      BY <3>2, <2>1, <1>0 DEF ReadHoldsInv
    <3>. QED  BY <3>1, <3>2
  <2>. QED  BY <2>2, <2>3, <2>4
<1>3. ASSUME NEW c \in Calls, InterlockClaims(c) \/ InterlockReleases(c) \/ InterlockFails(c)
      PROVE  RolledBackStays' /\ OneCallInv' /\ ReadHoldsInv'
  <2>1. /\ UNCHANGED <<batch, overlapped, undone>>
        /\ turn[c].pc # "idle"
        /\ \E pc \in {"idle", "claimed", "released"} :
             Moves(c, pc) /\ (pc = "claimed" => turn[c].pc = "claim")
    BY <1>3 DEF InterlockClaims, InterlockReleases, InterlockFails
  <2>2. PICK pc \in {"idle", "claimed", "released"} :
          Moves(c, pc) /\ (pc = "claimed" => turn[c].pc = "claim")
    BY <2>1
  <2>3. OneCallInv' /\ ReadHoldsInv'
    BY <2>1, <2>2, <1>0, <1>t, MovedTurn, CallsKeep
  <2>. QED  BY <2>1, <2>3, <1>0 DEF RolledBackStays
<1>4. ASSUME NEW c \in Calls, RecordClaim(c) \/ RecordRelease(c)
      PROVE  RolledBackStays' /\ OneCallInv' /\ ReadHoldsInv'
  <2> DEFINE b == turn[c].batch
  <2>1. /\ turn[c].pc \in {"claimed", "released"}
        /\ Moves(c, "idle") /\ overlapped' = overlapped
        /\ \A a \in Batches : a # b => batch'[a] = batch[a]
    BY <1>4, <1>t DEF RecordClaim, RecordRelease
  <2>2. ASSUME NEW d \in Calls, turn'[d].pc # "idle"
        PROVE  /\ turn'[d] = turn[d]
               /\ turn[d].batch \notin overlapped => batch'[turn[d].batch] = batch[turn[d].batch]
    <3>1. d # c /\ turn'[d] = turn[d]
      BY <2>1, <2>2, <1>t, MovedTurn
    <3>2. turn[d].batch = b => b \in overlapped
      BY <3>1, <2>1, <2>2, <1>0 DEF OneCallInv
    <3>. QED  BY <3>1, <3>2, <2>1, <1>f
  <2>3. OneCallInv' /\ ReadHoldsInv'
    BY <2>1, <2>2, <1>0, CallsKeep
  <2>4. undone' \subseteq overlapped
    <3>1. CASE RecordClaim(c)
      <4>1. batch[b] = "rolled_back" => b \in overlapped
        BY <3>1, <1>0 DEF RecordClaim, ReadHoldsInv
      <4>. QED  BY <3>1, <4>1, <1>0 DEF RecordClaim, RolledBackStays
    <3>2. CASE RecordRelease(c)
      BY <3>2, <1>0 DEF RecordRelease, RolledBackStays
    <3>. QED  BY <1>4, <3>1, <3>2
  <2>. QED  BY <2>1, <2>3, <2>4 DEF RolledBackStays
<1>5. ASSUME LeaseRunsOut
      PROVE  RolledBackStays' /\ OneCallInv' /\ ReadHoldsInv'
  BY <1>5, <1>0 DEF LeaseRunsOut, RolledBackStays, OneCallInv, ReadHoldsInv
<1>6. ASSUME NEW bs \in SUBSET Batches, ControllerRestarts(bs)
      PROVE  RolledBackStays' /\ OneCallInv' /\ ReadHoldsInv'
  <2>1. /\ overlapped' = overlapped \ bs /\ undone' = undone \ bs
        /\ \A a \in Batches \ bs : batch'[a] = batch[a]
    BY <1>6 DEF ControllerRestarts
  <2>2. ASSUME NEW c \in Calls, turn'[c].pc # "idle"
        PROVE  turn'[c] = turn[c] /\ turn[c].batch \in Batches \ bs
    <3>1. turn[c].batch \notin bs
      BY <2>2, <1>6, <1>t DEF ControllerRestarts, Turn
    <3>. QED  BY <3>1, <1>6, <1>f DEF ControllerRestarts
  <2>3. RolledBackStays'
    BY <2>1, <1>0 DEF RolledBackStays
  <2>4. OneCallInv'
    BY <2>1, <2>2, <1>0 DEF OneCallInv
  <2>5. ReadHoldsInv'
    <3> SUFFICES ASSUME NEW c \in Calls, turn'[c].pc \in {"claim", "claimed"},
                        turn'[c].batch \notin overlapped'
                 PROVE  batch'[turn'[c].batch] = "planned"
      BY DEF ReadHoldsInv
    <3>1. turn'[c] = turn[c] /\ turn[c].batch \in Batches \ bs
      BY <2>2
    <3>. QED  BY <3>1, <2>1, <1>0 DEF ReadHoldsInv
  <2>. QED  BY <2>3, <2>4, <2>5
<1>. QED
  BY <1>1, <1>2, <1>3, <1>4, <1>5, <1>6
  DEF CutoverNext, CallStep, ClaimSendAuthority, ReleaseSendAuthority

LEMMA ExclusiveStep == Exclusive /\ [CutoverNext]_cutoverVars => Exclusive'
<1> SUFFICES ASSUME Exclusive, [CutoverNext]_cutoverVars  PROVE Exclusive'
  OBVIOUS
<1>1. CASE CutoverNext
  <2>1. CutoverTypeOK'
    BY <1>1, CutoverTypes DEF Exclusive
  <2>2. LeaseBacksInv'
    BY <1>1, LeaseBacksStep
  <2>3. RolledBackStays' /\ OneCallInv' /\ ReadHoldsInv'
    BY <1>1, CallsStep
  <2>. QED  BY <2>1, <2>2, <2>3 DEF Exclusive
<1>2. CASE UNCHANGED cutoverVars
  BY <1>2 DEF cutoverVars, Exclusive, CutoverTypeOK, LeaseBacksInv, Relies, RolledBackStays,
              OneCallInv, ReadHoldsInv
<1>. QED  BY <1>1, <1>2

\* However claims, releases, lost answers, leases that run out and restarts of controllers
\* interleave: a batch that says it may send holds the lease unless it lost it behind its
\* back, so that two owners are never both right about it; and a batch that was rolled
\* back is not claimed again by a call that had it to itself.
THEOREM AuthorityIsExclusiveTheorem == CutoverSpec => []AuthorityIsExclusive
<1>1. Exclusive => AuthorityIsExclusive
  <2> SUFFICES ASSUME Exclusive  PROVE AuthorityIsExclusive
    OBVIOUS
  <2>1. ClaimIsHeld
    BY DEF Exclusive, LeaseBacksInv, Relies, ClaimIsHeld
  <2>2. OneSender
    BY <2>1 DEF ClaimIsHeld, OneSender
  <2>. QED  BY <2>1, <2>2 DEF Exclusive, AuthorityIsExclusive
<1>. QED  BY <1>1, ExclusiveInit, ExclusiveStep, PTL DEF CutoverSpec
=============================================================================
