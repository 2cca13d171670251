------------------------------- MODULE HostLedger -------------------------------
(***************************************************************************)
(* The action ledger of the host (CAPlatform BFF): operations claimed and   *)
(* completed by action, the tasks they create, and the intake of knowledge  *)
(* candidates. An action is a candidate and the revision it was approved    *)
(* at, which is what action_id is computed from.                            *)
(*                                                                          *)
(* The ledger is one SQLite file and every operation one transaction. Its   *)
(* rows with status retry_wait are claimed as those that are absent, so     *)
(* neither is recorded here.                                                *)
(***************************************************************************)
EXTENDS Integers

CONSTANTS
  Candidates,
  Knowledge      \* those of type knowledge; the others are for the task system

ASSUME KnowledgeAssumption == Knowledge \subseteq Candidates

VARIABLES
  running,    \* actions claimed and not answered
  succeeded,  \* actions whose result is stored
  tasks,      \* tasks created, by the idempotency key they were created with
  gates,      \* safety gates issued so far; each is another token
  intake      \* the gate the accepted submission of a candidate carries, 0 for none

ledger == <<running, succeeded, tasks, gates, intake>>

Actions == Candidates \X Nat

LedgerType ==
  /\ running \subseteq Actions /\ succeeded \subseteq Actions
  /\ tasks \subseteq Actions
  /\ gates \in Nat
  /\ intake \in [Candidates -> Nat]

LedgerInit ==
  /\ running = {} /\ succeeded = {} /\ tasks = {}
  /\ gates = 0
  /\ intake = [x \in Candidates |-> 0]

-----------------------------------------------------------------------------
(* An action that has succeeded is answered from the ledger; every other one *)
(* is executed, whether or not another request is executing it.              *)
\* Mutation of Replayed: an action that is running is taken for one that has succeeded.
ReplayedEarly(a) == a \in succeeded \/ a \in running

Replayed(a) == a \in succeeded

Claim(a) ==
  /\ ~Replayed(a)
  /\ running' = running \cup {a}
  /\ UNCHANGED <<succeeded, tasks, gates, intake>>

\* ca.project.create_task, idempotent by action.
CreateTask(a) ==
  /\ tasks' = tasks \cup {a}
  /\ UNCHANGED <<running, succeeded, gates, intake>>

\* A result is stored only while the action is running; a conflict otherwise.
Completes(a) == a \in running

Complete(a) ==
  /\ IF Completes(a)
       THEN running' = running \ {a} /\ succeeded' = succeeded \cup {a}
       ELSE UNCHANGED <<running, succeeded>>
  /\ UNCHANGED <<tasks, gates, intake>>

MarkRetryable(a) ==
  /\ running' = running \ {a}
  /\ UNCHANGED <<succeeded, tasks, gates, intake>>

Restart ==
  /\ running' = {}
  /\ UNCHANGED <<succeeded, tasks, gates, intake>>

\* A gate is an encrypted token with a time in it: never the same twice.
IssueGate ==
  /\ gates' = gates + 1
  /\ UNCHANGED <<running, succeeded, tasks, intake>>

\* The digest of a submission covers the gate it carries.
Conflicts(x, gate) == intake[x] \notin {0, gate}

Submit(x, gate) ==
  /\ ~Conflicts(x, gate)
  /\ intake' = [intake EXCEPT ![x] = gate]
  /\ UNCHANGED <<running, succeeded, tasks, gates>>

================================================================================
