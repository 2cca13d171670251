------------------------------ MODULE MailCandidate ------------------------------
(***************************************************************************)
(* The candidates of one message: proposed by an analysis, reviewed and     *)
(* revoked by the owner, applied by the host through its ledger.            *)
(*                                                                          *)
(* Every operation reads, and later saves what it computed, with requests   *)
(* to the host in between. InMemoryMailRepository compares revisions and    *)
(* writes under one lock; SQLAlchemyMailRepository compares in one          *)
(* statement and writes in the next, and its table has a unique key and a   *)
(* reference to the message.                                                *)
(***************************************************************************)
EXTENDS HostLedger, FiniteSets

CONSTANTS
  Callers,    \* concurrent requests
  MaxEvents   \* bound: requests and deletions together

ASSUME CallerAssumption == IsFiniteSet(Callers) /\ IsFiniteSet(Candidates) /\ MaxEvents \in Nat

VARIABLES
  locked,    \* does the repository compare and write under one lock? fixed at start
  stored,    \* is the message stored?
  rows,      \* mail_action_candidates
  calls,     \* local state of each request
  events,
  removed,   \* history: deletions of the message
  overtaken, \* history: saves over a row that the call had no way to know
  clicked    \* history: the actions the owner confirmed

history == <<removed, overtaken, clicked>>
vars == <<ledger, locked, stored, rows, calls, events, history>>

-----------------------------------------------------------------------------
Status == {"none", "proposed", "approved", "rejected", "revoked", "applied"}
Row == [status : Status, rev : Nat]
NoRow == [status |-> "none", rev |-> 0]

NoCandidate == <<>>
Pc == {"idle", "list", "propose", "save", "insert", "update",
       "read", "verify", "claim", "dispatch", "complete", "fail", "gate", "submit"}

\* seen is the row read, next the row to save, life the number of deletions when it was
\* read. want is the revision the approval is for; waiting says whether the caller of
\* the host is still there; todo holds the revisions of the candidates to propose.
Call == [pc : Pc, cand : Candidates \cup {NoCandidate}, seen : Row, next : Row, life : Nat,
         want : Nat, gate : Nat, waiting : BOOLEAN, todo : [Candidates -> Nat]]

Nothing == [x \in Candidates |-> 0]
Idle == [pc |-> "idle", cand |-> NoCandidate, seen |-> NoRow, next |-> NoRow, life |-> 0,
         want |-> 0, gate |-> 0, waiting |-> FALSE, todo |-> Nothing]

Placed(c) == calls[c].pc \notin {"idle", "list", "propose"} => calls[c].cand \in Candidates

TypeOK ==
  /\ LedgerType
  /\ locked \in BOOLEAN /\ stored \in BOOLEAN
  /\ rows \in [Candidates -> Row]
  /\ calls \in [Callers -> Call]
  /\ \A c \in Callers : Placed(c)
  /\ events \in 0 .. MaxEvents
  /\ removed \in Nat /\ overtaken \in [Candidates -> Nat]
  /\ clicked \subseteq Actions

Siblings(x) == {y \in Candidates : (y \in Knowledge) = (x \in Knowledge)}
Exists(x) == rows[x].rev > 0
Action(c) == <<calls[c].cand, calls[c].seen.rev>>
OfHost == {"dispatch", "complete", "fail"}

\* An analysis has found some of the tasks, and some of these have been approved
\* since, or rejected again and again; no two of one type have the same revision.
Found == {NoRow, [status |-> "approved", rev |-> 2], [status |-> "rejected", rev |-> 5]}

Init ==
  /\ LedgerInit
  /\ locked \in BOOLEAN
  /\ stored = TRUE
  /\ rows \in [Candidates -> Found] /\ \A x \in Knowledge : ~Exists(x)
  /\ \A x, y \in Candidates : y \in Siblings(x) /\ Exists(x) /\ rows[x] = rows[y] => x = y
  /\ calls = [c \in Callers |-> Idle]
  /\ events = 0
  /\ removed = 0 /\ overtaken = Nothing /\ clicked = {}

Happens == events < MaxEvents /\ events' = events + 1
Stop(c) == calls' = [calls EXCEPT ![c] = Idle]
Goto(c, pc) == calls' = [calls EXCEPT ![c].pc = pc]

-----------------------------------------------------------------------------
(* The message                                                              *)

\* delete_message: its candidates go with it, whatever became of them.
DeleteMessage ==
  /\ stored
  /\ Happens
  /\ stored' = FALSE
  /\ rows' = [x \in Candidates |-> NoRow]
  /\ removed' = removed + 1
  /\ UNCHANGED <<ledger, locked, calls, overtaken, clicked>>

\* A synchronisation stores it again; its identity is that of the provider's reference.
MessageReturns ==
  /\ ~stored
  /\ stored' = TRUE
  /\ UNCHANGED <<ledger, locked, rows, calls, events, history>>

-----------------------------------------------------------------------------
(* analyze_message                                                          *)

Analyze(c) ==
  /\ calls[c].pc = "idle" /\ stored
  /\ Happens
  /\ Goto(c, "list")
  /\ UNCHANGED <<ledger, locked, stored, rows, history>>

\* _assign_candidate_revisions: from the highest listed of the message and the type.
Highest(x, listed) ==
  CHOOSE r \in {0} \cup {rows[y].rev : y \in listed \cap Siblings(x)} :
    \A y \in listed \cap Siblings(x) : rows[y].rev <= r

Numbered(new, rank) ==
  /\ \A x \in new : rank[x] <= Cardinality(new \cap Siblings(x))
  /\ \A x, y \in new : y \in Siblings(x) /\ rank[x] = rank[y] => x = y

\* The 200 newest candidates of the subject are listed: an older one may be left out.
\* What is listed is not proposed again.
List(c, listed, new, rank) ==
  /\ calls[c].pc = "list"
  /\ \A x \in listed : Exists(x)
  /\ new \cap listed = {} /\ Numbered(new, rank)
  /\ calls' = [calls EXCEPT ![c].pc = "propose",
                 ![c].todo = [x \in Candidates |->
                                IF x \in new THEN Highest(x, listed) + rank[x] ELSE 0]]
  /\ UNCHANGED <<ledger, locked, stored, rows, events, history>>

Propose(c, x) ==
  /\ calls[c].pc = "propose"
  /\ calls[c].todo[x] > 0
  /\ \A y \in Siblings(x) : calls[c].todo[y] > 0 => calls[c].todo[x] <= calls[c].todo[y]
  /\ calls' = [calls EXCEPT ![c].pc = "save", ![c].cand = x, ![c].todo[x] = 0,
                 ![c].seen = NoRow,
                 ![c].next = [status |-> "proposed", rev |-> calls[c].todo[x]]]
  /\ UNCHANGED <<ledger, locked, stored, rows, events, history>>

Proposed(c) ==
  /\ calls[c].pc = "propose" /\ calls[c].todo = Nothing
  /\ Stop(c)
  /\ UNCHANGED <<ledger, locked, stored, rows, events, history>>

-----------------------------------------------------------------------------
(* review_candidate, revoke_candidate                                       *)

Decides(c, x, status) ==
  /\ calls[c].pc = "idle"
  /\ Happens
  /\ calls' = [calls EXCEPT ![c].pc = "save", ![c].cand = x, ![c].life = removed,
                 ![c].seen = rows[x], ![c].next = [status |-> status, rev |-> rows[x].rev + 1]]
  /\ UNCHANGED <<ledger, locked, stored, rows, history>>

\* Mutation of Reviewable: an approval can be given again.
ReviewableAgain == {"proposed", "rejected", "approved"}

Reviewable == {"proposed", "rejected"}
Revocable == {"proposed", "approved", "rejected"}   \* no code writes "failed"

Review(c, x, approved) ==
  /\ rows[x].status \in Reviewable
  /\ Decides(c, x, IF approved THEN "approved" ELSE "rejected")

Revoke(c, x) ==
  /\ rows[x].status \in Revocable
  /\ Decides(c, x, "revoked")

-----------------------------------------------------------------------------
(* save_candidate                                                           *)

\* Mutation of Caught: only a later revision is a conflict.
CaughtLate(c) == rows[calls[c].cand].rev > calls[c].next.rev

Caught(c) == rows[calls[c].cand].rev >= calls[c].next.rev

Known(c) == /\ calls[c].seen # NoRow
            /\ calls[c].life = removed

Written(c) ==
  LET x == calls[c].cand
  IN  /\ rows' = [rows EXCEPT ![x] = calls[c].next]
      /\ overtaken' = IF ~Known(c) /\ rows[x] # calls[c].seen
                        THEN [overtaken EXCEPT ![x] = @ + 1] ELSE overtaken
      /\ UNCHANGED <<removed, clicked>>

\* An analysis goes on with its next candidate.
Saved(c) == IF calls[c].next.status = "proposed"
              THEN calls' = [calls EXCEPT ![c] = [Idle EXCEPT !.pc = "propose",
                                                              !.todo = calls[c].todo]]
              ELSE Stop(c)

\* InMemoryMailRepository. A row whose message is gone is written all the same.
Save(c) ==
  /\ calls[c].pc = "save" /\ locked
  /\ IF Caught(c)
       THEN Stop(c) /\ UNCHANGED <<rows, history>>
       ELSE Written(c) /\ Saved(c)
  /\ UNCHANGED <<ledger, locked, stored, events>>

\* SQLAlchemyMailRepository: the row is selected without a lock ...
Select(c) ==
  /\ calls[c].pc = "save" /\ ~locked
  /\ IF Caught(c)
       THEN Stop(c)
       ELSE Goto(c, IF Exists(calls[c].cand) THEN "update" ELSE "insert")
  /\ UNCHANGED <<ledger, locked, stored, rows, events, history>>

\* UNIQUE (tenant_id, message_id, candidate_type, revision)
Taken(c) == \E y \in Siblings(calls[c].cand) \ {calls[c].cand} : rows[y].rev = calls[c].next.rev

\* ... and updated by its identity alone: nothing happens to a row that is gone.
Update(c) ==
  /\ calls[c].pc = "update"
  /\ CASE ~Exists(calls[c].cand) -> Saved(c) /\ UNCHANGED <<rows, history>>
       [] Exists(calls[c].cand) /\ Taken(c) -> Stop(c) /\ UNCHANGED <<rows, history>>
       [] OTHER -> Written(c) /\ Saved(c)
  /\ UNCHANGED <<ledger, locked, stored, events>>

Insert(c) ==
  /\ calls[c].pc = "insert"
  /\ IF ~stored \/ Exists(calls[c].cand) \/ Taken(c)
       THEN Stop(c) /\ UNCHANGED <<rows, history>>
       ELSE Written(c) /\ Saved(c)
  /\ UNCHANGED <<ledger, locked, stored, events>>

-----------------------------------------------------------------------------
(* apply_candidate                                                          *)

\* The BFF reads the candidate for the owner who clicks, and issues an approval for the
\* revision it has read.
Click(c, x) ==
  /\ calls[c].pc = "idle" /\ rows[x].status = "approved"
  /\ Happens
  /\ calls' = [calls EXCEPT ![c].pc = "read", ![c].cand = x, ![c].want = rows[x].rev]
  /\ clicked' = clicked \cup {<<x, rows[x].rev>>}
  /\ UNCHANGED <<ledger, locked, stored, rows, removed, overtaken>>

\* A candidate that is applied is answered from its row; one that is not approved, or
\* whose message is gone, is refused.
Read(c) ==
  /\ calls[c].pc = "read"
  /\ LET row == rows[calls[c].cand]
     IN  IF row.status = "approved" /\ stored
           THEN calls' = [calls EXCEPT ![c].pc = "verify", ![c].seen = row,
                            ![c].life = removed,
                            ![c].next = [status |-> "applied", rev |-> row.rev + 1]]
           ELSE Stop(c)
  /\ UNCHANGED <<ledger, locked, stored, rows, events, history>>

\* Mutation of Verify: the approval is for the candidate, whatever its revision.
VerifyCandidate(c, expired) ==
  /\ calls[c].pc = "verify"
  /\ IF ~expired
       THEN Goto(c, IF calls[c].cand \in Knowledge THEN "gate" ELSE "claim")
       ELSE Stop(c)
  /\ UNCHANGED <<ledger, locked, stored, rows, events, history>>

\* verify_confirmation binds the approval to the action, if it is for its revision and
\* has not expired.
Verify(c, expired) ==
  /\ calls[c].pc = "verify"
  /\ IF ~expired /\ calls[c].want = calls[c].seen.rev
       THEN Goto(c, IF calls[c].cand \in Knowledge THEN "gate" ELSE "claim")
       ELSE Stop(c)
  /\ UNCHANGED <<ledger, locked, stored, rows, events, history>>

Claimed(c) ==
  /\ calls[c].pc = "claim"
  /\ IF Replayed(Action(c))
       THEN Goto(c, "save") /\ UNCHANGED ledger
       ELSE /\ Claim(Action(c))
            /\ calls' = [calls EXCEPT ![c].pc = "dispatch", ![c].waiting = TRUE]
  /\ UNCHANGED <<locked, stored, rows, events, history>>

\* The task is created and the answer read, or created and the answer lost.
Dispatch(c, answered) ==
  /\ calls[c].pc = "dispatch"
  /\ CreateTask(Action(c))
  /\ Goto(c, IF answered THEN "complete" ELSE "fail")
  /\ UNCHANGED <<locked, stored, rows, events, history>>

\* No session of the owner, a blocked preflight, a candidate that is no task.
DispatchRefused(c) ==
  /\ calls[c].pc = "dispatch"
  /\ Goto(c, "fail")
  /\ UNCHANGED <<ledger, locked, stored, rows, events, history>>

Completed(c) ==
  /\ calls[c].pc = "complete"
  /\ Complete(Action(c))
  /\ IF Completes(Action(c)) /\ calls[c].waiting THEN Goto(c, "save") ELSE Stop(c)
  /\ UNCHANGED <<locked, stored, rows, events, history>>

Failed(c) ==
  /\ calls[c].pc = "fail"
  /\ MarkRetryable(Action(c))
  /\ Stop(c)
  /\ UNCHANGED <<locked, stored, rows, events, history>>

\* The safety gate is asked anew by every attempt.
Evaluate(c) ==
  /\ calls[c].pc = "gate"
  /\ IssueGate
  /\ calls' = [calls EXCEPT ![c].pc = "submit", ![c].gate = gates + 1]
  /\ UNCHANGED <<locked, stored, rows, events, history>>

Submitted(c) ==
  /\ calls[c].pc = "submit"
  /\ Submit(calls[c].cand, calls[c].gate)
  /\ Goto(c, "save")
  /\ UNCHANGED <<locked, stored, rows, events, history>>

SubmissionConflict(c) ==
  /\ calls[c].pc = "submit" /\ Conflicts(calls[c].cand, calls[c].gate)
  /\ Stop(c)
  /\ UNCHANGED <<ledger, locked, stored, rows, events, history>>

\* The process dies, the host refuses, or its answer comes too late: the host goes on
\* with a request it has, and nobody waits for the answer.
GiveUp(c) ==
  /\ calls[c].pc # "idle"
  /\ IF calls[c].pc \in OfHost
       THEN calls' = [calls EXCEPT ![c].waiting = FALSE]
       ELSE Stop(c)
  /\ UNCHANGED <<ledger, locked, stored, rows, events, history>>

\* initialize: what was running is to be retried.
HostRestarts ==
  /\ \E c \in Callers : calls[c].pc \in OfHost
  /\ Restart
  /\ calls' = [c \in Callers |-> IF calls[c].pc \in OfHost THEN Idle ELSE calls[c]]
  /\ UNCHANGED <<locked, stored, rows, events, history>>

-----------------------------------------------------------------------------
Apply(c) ==
  \/ \E x \in Candidates : Click(c, x)
  \/ Read(c)
  \/ \E expired \in BOOLEAN : Verify(c, expired)
  \/ Claimed(c)
  \/ \E answered \in BOOLEAN : Dispatch(c, answered)
  \/ DispatchRefused(c) \/ Completed(c) \/ Failed(c)
  \/ Evaluate(c) \/ Submitted(c) \/ SubmissionConflict(c)

Step(c) ==
  \/ Analyze(c) \/ Proposed(c)
  \/ \E listed, new \in SUBSET Candidates :
       \E rank \in [new -> 1 .. Cardinality(new)] : List(c, listed, new, rank)
  \/ \E x \in Candidates, approved \in BOOLEAN : Review(c, x, approved)
  \/ \E x \in Candidates : Propose(c, x) \/ Revoke(c, x)
  \/ Save(c) \/ Select(c) \/ Update(c) \/ Insert(c)
  \/ Apply(c) \/ GiveUp(c)

Next == DeleteMessage \/ MessageReturns \/ HostRestarts \/ \E c \in Callers : Step(c)

Spec == Init /\ [][Next]_vars

-----------------------------------------------------------------------------
(* Properties                                                               *)

\* A row says applied only if the host has created the task for the revision that was
\* approved, or has accepted the knowledge: no failure, replay or late answer is taken
\* for a success, in either repository.
AppliedIsReal ==
  \A x \in Candidates : rows[x].status = "applied" =>
    IF x \in Knowledge THEN intake[x] > 0 ELSE <<x, rows[x].rev - 1>> \in tasks

\* Under one lock a candidate becomes at most one task, and one more for every deletion
\* of its message and every save by a call that could not know its row: retries, lost
\* answers, restarts of the host and concurrent requests do not add one.
AppliedOnce ==
  locked => \A x \in Candidates :
    Cardinality({a \in tasks : a[1] = x}) <= 1 + removed + overtaken[x]

\* A task is created only for a revision the owner confirmed, however the candidate
\* changes between the click, the reading and the execution.
ConfirmedOnly == tasks \subseteq clicked

\* Under one lock a candidate that is applied or revoked stays so until its message is
\* deleted, except for an analysis that had not listed it or a call that read it before
\* a deletion.
DecisionsStand ==
  [][locked => \A x \in Candidates :
       rows[x].status \in {"applied", "revoked"} /\ rows'[x] # rows[x]
         => removed' # removed \/ overtaken'[x] # overtaken[x]]_vars
================================================================================
