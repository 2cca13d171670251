-------------------------------- MODULE MailRule --------------------------------
(***************************************************************************)
(* Bounded rules (L3A): a rule and its versions, the authority given for    *)
(* it, and concurrent calls of execute_rule, each over a batch of messages. *)
(*                                                                          *)
(* For every message a call inserts a row of mail_rule_executions, whose    *)
(* identity is (rule, version, message, mode), decides, asks the kill       *)
(* switch, acts through the host and writes the result. Rule, policy and    *)
(* grant are read once, before the first message. Rows go with their        *)
(* message when the provider deletes it, and the message may come back      *)
(* under the same identity.                                                 *)
(***************************************************************************)
EXTENDS Integers, FiniteSets

CONSTANTS
  Callers,       \* concurrent calls of execute_rule
  Messages,
  MaxVersion,    \* bound: versions of the rule
  MaxPerWindow,  \* the narrower of max_per_hour and max_per_day
  MaxEvents      \* bound: calls, decisions of owner and host, and deletions together

ASSUME PartyAssumption == IsFiniteSet(Callers) /\ IsFiniteSet(Messages)
ASSUME LimitAssumption ==
  MaxVersion \in Nat \ {0} /\ MaxPerWindow \in Nat \ {0} /\ MaxEvents \in Nat

VARIABLES
  rule,     \* mail_rules: version and enabled
  granted,  \* is the policy enabled and the delegation not revoked?
  open,     \* does the kill switch let through?
  stored,   \* the messages of the mailbox that are stored
  rows,     \* mail_rule_executions
  recent,   \* rows executed and updated within the window
  calls,    \* local state of each call
  events,
  acts,     \* history: calls of the host, by the row they are made for
  removed,  \* history: deletions of a message
  leaked    \* history: callers that called the host since the switch moved

env == <<rule, granted, open>>
vars == <<env, stored, rows, recent, calls, events, acts, removed, leaked>>

-----------------------------------------------------------------------------
Versions == 1 .. MaxVersion
Keys == Versions \X Messages \X BOOLEAN      \* version, message, dry run?

\* "allowed" is PROPOSED with the reason policy_allowed.
Status == {"none", "proposed", "allowed", "executed", "skipped", "blocked",
           "failed", "outcome_unknown", "dry_run"}
Row == [status : Status, rev : 0 .. 3]
NoRow == [status |-> "none", rev |-> 0]

NoKey == <<>>
Pc == {"idle", "fetch", "create", "decide", "switch", "act", "save"}
Call == [pc : Pc, version : Versions, enabled : BOOLEAN, granted : BOOLEAN, dry : BOOLEAN,
         key : Keys \cup {NoKey}, todo : SUBSET Messages, rev : 0 .. 2, result : Status]

Idle == [pc |-> "idle", version |-> 1, enabled |-> FALSE, granted |-> FALSE,
         dry |-> FALSE, key |-> NoKey, todo |-> {}, rev |-> 0, result |-> "none"]

Key(c) == calls[c].key
Message(k) == k[2]

Placed(c) == /\ calls[c].pc \notin {"idle", "fetch"} => Key(c) \in Keys
             /\ calls[c].pc \in {"decide", "switch"} => calls[c].rev = 1

TypeOK ==
  /\ rule \in [version : Versions, enabled : BOOLEAN]
  /\ granted \in BOOLEAN /\ open \in BOOLEAN
  /\ stored \subseteq Messages
  /\ rows \in [Keys -> Row]
  /\ recent \subseteq Keys
  /\ calls \in [Callers -> Call]
  /\ \A c \in Callers : Placed(c)
  /\ events \in 0 .. MaxEvents
  /\ acts \in [Keys -> Nat]
  /\ removed \in [Messages -> Nat]
  /\ leaked \subseteq Callers

Init ==
  /\ rule = [version |-> 1, enabled |-> TRUE]   \* published; versions count from here
  /\ granted = TRUE /\ open = TRUE
  /\ stored = Messages
  /\ rows = [k \in Keys |-> NoRow]
  /\ recent = {} /\ leaked = {}
  /\ calls = [c \in Callers |-> Idle]
  /\ events = 0
  /\ acts = [k \in Keys |-> 0]
  /\ removed = [m \in Messages |-> 0]

Happens == events < MaxEvents /\ events' = events + 1

-----------------------------------------------------------------------------
(* The owner, the host and the mailbox.                                     *)

\* create_rule: a new version of the rule, enabled or not.
Publish(enabled) ==
  /\ rule.version < MaxVersion
  /\ Happens
  /\ rule' = [version |-> rule.version + 1, enabled |-> enabled]
  /\ UNCHANGED <<granted, open, stored, rows, recent, calls, acts, removed, leaked>>

\* revoke_grant, disable_policy: neither is taken back.
Revoke ==
  /\ granted
  /\ Happens
  /\ granted' = FALSE
  /\ UNCHANGED <<rule, open, stored, rows, recent, calls, acts, removed, leaked>>

SwitchMoves ==
  /\ Happens
  /\ open' = ~open /\ leaked' = {}
  /\ UNCHANGED <<rule, granted, stored, rows, recent, calls, acts, removed>>

\* delete_message_by_provider_ref: the rows of the message go with it.
DeleteMessage(m) ==
  /\ m \in stored
  /\ Happens
  /\ stored' = stored \ {m}
  /\ rows' = [k \in Keys |-> IF Message(k) = m THEN NoRow ELSE rows[k]]
  /\ recent' = {k \in recent : Message(k) # m}
  /\ removed' = [removed EXCEPT ![m] = @ + 1]
  /\ UNCHANGED <<env, calls, acts, leaked>>

\* A synchronisation stores it again; its identity is that of the provider's reference.
MessageReturns(m) ==
  /\ m \in Messages \ stored
  /\ stored' = stored \cup {m}
  /\ UNCHANGED <<env, rows, recent, calls, events, acts, removed, leaked>>

LeavesWindow(k) ==
  /\ k \in recent
  /\ recent' = recent \ {k}
  /\ UNCHANGED <<env, stored, rows, calls, events, acts, removed, leaked>>

-----------------------------------------------------------------------------
(* execute_rule                                                             *)

Goto(c, pc) == calls' = [calls EXCEPT ![c].pc = pc]
Stop(c) == calls' = [calls EXCEPT ![c] = Idle]
NextMessage(c) ==
  IF calls[c].todo = {}
    THEN Stop(c)
    ELSE calls' = [calls EXCEPT ![c].pc = "fetch", ![c].key = NoKey, ![c].rev = 0,
                                ![c].result = "none"]

\* save_rule_execution: refused when the row has caught up; a row that is gone is written again.
Saves(c, status) == rows' = [rows EXCEPT ![Key(c)] = [status |-> status, rev |-> calls[c].rev + 1]]
SaveRefused(c) == rows[Key(c)].rev > calls[c].rev

\* The rule, the policy and the grant are read here, for the whole batch.
Start(c, batch, dry) ==
  /\ calls[c].pc = "idle" /\ batch # {}
  /\ Happens
  /\ calls' = [calls EXCEPT ![c].pc = "fetch", ![c].todo = batch, ![c].dry = dry,
                            ![c].version = rule.version, ![c].enabled = rule.enabled,
                            ![c].granted = granted]
  /\ UNCHANGED <<env, stored, rows, recent, acts, removed, leaked>>

\* A message that is no longer stored ends the call: rule_execution_message_not_found.
Fetch(c, m) ==
  /\ calls[c].pc = "fetch" /\ m \in calls[c].todo
  /\ IF m \in stored
       THEN calls' = [calls EXCEPT ![c].pc = "create", ![c].todo = @ \ {m},
                                   ![c].key = <<calls[c].version, m, calls[c].dry>>]
       ELSE Stop(c)
  /\ UNCHANGED <<env, stored, rows, recent, events, acts, removed, leaked>>

\* Mutation of Create: a row left behind as proposed is taken up again.
CreateOrResume(c) ==
  /\ calls[c].pc = "create"
  /\ IF rows[Key(c)].status \in {"none", "proposed", "allowed"}
       THEN /\ rows' = [rows EXCEPT ![Key(c)] = [status |-> "proposed", rev |-> 1]]
            /\ calls' = [calls EXCEPT ![c].pc = "decide", ![c].rev = 1]
       ELSE NextMessage(c) /\ UNCHANGED rows
  /\ UNCHANGED <<env, stored, recent, events, acts, removed, leaked>>

\* create_or_get_rule_execution: a row that is there is the answer, whatever its status.
Create(c) ==
  /\ calls[c].pc = "create"
  /\ IF rows[Key(c)] = NoRow
       THEN /\ rows' = [rows EXCEPT ![Key(c)] = [status |-> "proposed", rev |-> 1]]
            /\ calls' = [calls EXCEPT ![c].pc = "decide", ![c].rev = 1]
       ELSE NextMessage(c) /\ UNCHANGED rows
  /\ UNCHANGED <<env, stored, recent, events, acts, removed, leaked>>

\* evaluate_rule: a rule that is disabled, not in force or not met does not match.
Matches(c, met) == calls[c].enabled /\ met

\* evaluate_policy, on the policy and the grant the call has read.
Authorized(c) == calls[c].granted

\* Mutation of Within: the limits are compared with "greater than".
WithinOrAt == Cardinality(recent) <= MaxPerWindow

\* count_rule_executions_since, against the limits of the rule.
Within == Cardinality(recent) < MaxPerWindow

Results(c, met) ==
  CASE Matches(c, met) /\ ~(Authorized(c) /\ Within) -> "blocked"
    [] ~Matches(c, met) /\ ~calls[c].dry -> "skipped"
    [] OTHER -> "dry_run"

Decide(c, met) ==
  /\ calls[c].pc = "decide"
  /\ IF Matches(c, met) /\ Authorized(c) /\ Within /\ ~calls[c].dry
       THEN Goto(c, "switch")
       ELSE calls' = [calls EXCEPT ![c].pc = "save", ![c].result = Results(c, met)]
  /\ UNCHANGED <<env, stored, rows, recent, events, acts, removed, leaked>>

\* _check_kill_switch and, when it lets through, the row saved as allowed. Nothing but
\* the row is shared between the two, so they are one step.
Passes(c) ==
  /\ calls[c].pc = "switch" /\ open
  /\ IF SaveRefused(c)
       THEN Stop(c) /\ UNCHANGED rows
       ELSE /\ Saves(c, "allowed")
            /\ calls' = [calls EXCEPT ![c].pc = "act", ![c].rev = @ + 1]
  /\ UNCHANGED <<env, stored, recent, events, acts, removed, leaked>>

\* The switch is closed, does not answer, or answers with something unreadable.
Blocked(c) ==
  /\ calls[c].pc = "switch"
  /\ calls' = [calls EXCEPT ![c].pc = "save", ![c].result = "blocked"]
  /\ UNCHANGED <<env, stored, rows, recent, events, acts, removed, leaked>>

\* host_action_port.execute. How a lost answer is recorded is up to the adapter:
\* HttpHostActionAdapter raises what execute_rule records as failed.
Act(c, result) ==
  /\ calls[c].pc = "act"
  /\ result \in {"executed", "failed", "outcome_unknown"}
  /\ acts' = [acts EXCEPT ![Key(c)] = @ + 1]
  /\ leaked' = leaked \cup {c}
  /\ calls' = [calls EXCEPT ![c].pc = "save", ![c].result = result]
  /\ UNCHANGED <<env, stored, rows, recent, events, removed>>

\* Mutation of Save: the switch is asked for the first message of a batch only.
SaveAndActOn(c) ==
  /\ calls[c].pc = "save"
  /\ IF SaveRefused(c)
       THEN Stop(c) /\ UNCHANGED <<rows, recent>>
       ELSE /\ Saves(c, calls[c].result)
            /\ recent' = IF calls[c].result = "executed" THEN recent \cup {Key(c)} ELSE recent
            /\ IF calls[c].result = "executed" /\ calls[c].todo # {}
                 THEN \E m \in calls[c].todo :
                        calls' = [calls EXCEPT ![c].pc = "act", ![c].todo = @ \ {m},
                                    ![c].key = <<calls[c].version, m, calls[c].dry>>]
                 ELSE NextMessage(c)
  /\ UNCHANGED <<env, stored, events, acts, removed, leaked>>

Save(c) ==
  /\ calls[c].pc = "save"
  /\ IF SaveRefused(c)
       THEN Stop(c) /\ UNCHANGED <<rows, recent>>
       ELSE /\ Saves(c, calls[c].result)
            /\ recent' = IF calls[c].result = "executed" THEN recent \cup {Key(c)} ELSE recent
            /\ NextMessage(c)
  /\ UNCHANGED <<env, stored, events, acts, removed, leaked>>

\* The process dies: what the call has written stays, and nothing takes it up.
Crash(c) ==
  /\ calls[c].pc # "idle"
  /\ Stop(c)
  /\ UNCHANGED <<env, stored, rows, recent, events, acts, removed, leaked>>

-----------------------------------------------------------------------------
Step(c) ==
  \/ \E batch \in SUBSET Messages, dry \in BOOLEAN : Start(c, batch, dry)
  \/ \E m \in Messages : Fetch(c, m)
  \/ Create(c)
  \/ \E met \in BOOLEAN : Decide(c, met)
  \/ Passes(c) \/ Blocked(c)
  \/ \E result \in Status : Act(c, result)
  \/ Save(c) \/ Crash(c)

World ==
  \/ \E enabled \in BOOLEAN : Publish(enabled)
  \/ Revoke \/ SwitchMoves
  \/ \E m \in Messages : DeleteMessage(m) \/ MessageReturns(m)
  \/ \E k \in Keys : LeavesWindow(k)

Next == World \/ \E c \in Callers : Step(c)

Spec == Init /\ [][Next]_vars

-----------------------------------------------------------------------------
(* Properties                                                               *)

\* For one version of a rule the host is asked to act on a message at most once,
\* and once more for every time the message was deleted with its rows: retries,
\* concurrent batches, crashes and saves that are refused do not add a call.
ActsOnce == \A k \in Keys : acts[k] <= 1 + removed[Message(k)]

\* Once the kill switch is closed, a batch calls the host at most once more, for the
\* message it had asked the switch about: a caller that has called the host since then
\* is not about to call it again. Rule, policy and grant do not stop a batch.
ClosedSwitchStops == \A c \in leaked : ~open => calls[c].pc # "act"

\* The rows executed within the window exceed the limit by no more than the calls that
\* counted before another one wrote its result.
LimitHolds == Cardinality(recent) <= MaxPerWindow + Cardinality(Callers) - 1

================================================================================
