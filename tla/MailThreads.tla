---------------------------- MODULE MailThreads ----------------------------
(***************************************************************************)
(* The unified inbox: the thread rows that synchronisations keep up to date *)
(* as they store messages, and the two readers that take several awaits to  *)
(* put an answer together: a client that asks list_thread_page for one page *)
(* after the other, and export_subject_data.                                *)
(*                                                                         *)
(* A synchronisation reads the thread, saves the message and saves the     *)
(* thread it made of what it read, without a compare-and-set; a deletion is *)
(* one step that counts anew. The rows are those of PostgreSQL, where a    *)
(* message needs its thread. Threads are numbers, which order them where   *)
(* latest_at does not.                                                     *)
(***************************************************************************)
EXTENDS Integers, FiniteSets, FiniteSetsExt

CONSTANTS
  Messages,
  ThreadOf,   \* the thread of each message
  At,         \* received_at
  Unread,     \* messages that are not read
  Syncs,      \* executions of _sync_connection
  PageSize,   \* limit of a page
  Window,     \* threads a reader is given at most (200 in the code)
  MaxSaves    \* bound: messages saved

ASSUME MessageAssumption ==
  /\ Messages # {} /\ IsFiniteSet(Messages)
  /\ ThreadOf \in [Messages -> Nat] /\ At \in [Messages -> Nat \ {0}]
ASSUME LimitAssumption == PageSize \in Nat \ {0} /\ Window \in Nat \ {0} /\ MaxSaves \in Nat

VARIABLES
  thread,    \* the threads table
  stored,    \* message projections
  saving,    \* what each execution is at
  walk,      \* the client: its filter, its cursor, the page in the making
  export,    \* an export in the making
  saves,     \* bound
  raced,     \* history: threads whose row may be wrong
  steady,    \* history: threads the walk must show
  fell       \* history: threads whose latest_at went down since the walk began

inboxVars == <<thread, stored, saving, walk, export, saves, raced, steady, fell>>

Threads == {ThreadOf[m] : m \in Messages}
Row == [latest : Nat, count : Nat]  \* a row with latest 0 does not exist
NoRow == [latest |-> 0, count |-> 0]
Key == Nat \X Nat
NoKey == <<0, 0>>

In(t) == {m \in stored : ThreadOf[m] = t}
Exists(t) == thread[t] # NoRow

InboxTypeOK ==
  /\ thread \in [Threads -> Row]
  /\ stored \in SUBSET Messages
  /\ saving \in [Syncs -> [pc : {"idle", "read", "insert", "update"}, msg : Messages, seen : Row]]
  /\ walk \in [pc : {"idle", "ask", "page", "done"}, unread : BOOLEAN, after : Key,
               rows : [Threads -> Row], shown : SUBSET Threads, twice : SUBSET Threads]
  /\ export \in [pc : {"idle", "threads", "hydrate", "done", "failed"},
                 messages : SUBSET Messages, threads : SUBSET Threads, purged : BOOLEAN]
  /\ saves \in 0 .. MaxSaves
  /\ raced \in SUBSET Threads
  /\ steady \in SUBSET Threads
  /\ fell \in SUBSET Threads

NoWalk == [pc |-> "idle", unread |-> FALSE, after |-> NoKey,
           rows |-> [t \in Threads |-> NoRow], shown |-> {}, twice |-> {}]
NoExport == [pc |-> "idle", messages |-> {}, threads |-> {}, purged |-> FALSE]

InboxInit ==
  /\ thread = [t \in Threads |-> NoRow]
  /\ stored = {}
  /\ saving = [s \in Syncs |-> [pc |-> "idle", msg |-> CHOOSE m \in Messages : TRUE, seen |-> NoRow]]
  /\ walk = NoWalk
  /\ export = NoExport
  /\ saves = 0
  /\ raced = {}
  /\ steady = {}
  /\ fell = {}

-----------------------------------------------------------------------------
(* Synchronisations.                                                       *)

Busy(t) == {s \in Syncs : saving[s].pc # "idle" /\ ThreadOf[saving[s].msg] = t}
Readers == <<walk, export>>

\* What a walk may count on: a thread stays as it was.
SavesRow(t, row) ==
  /\ thread' = [thread EXCEPT ![t] = row]
  /\ steady' = steady \ {t}
  /\ fell' = IF walk.pc # "idle" /\ row.latest < thread[t].latest THEN fell \cup {t} ELSE fell

\* Two executions overlap, on one folder after a lost lease or on two of the mailbox.
ReadThread(s, m) ==
  /\ saving[s].pc = "idle" /\ saves < MaxSaves
  /\ saves' = saves + 1
  /\ saving' = [saving EXCEPT ![s] = [pc |-> IF Exists(ThreadOf[m]) THEN "insert" ELSE "read",
                                      msg |-> m, seen |-> thread[ThreadOf[m]]]]
  /\ raced' = IF Busy(ThreadOf[m]) = {} THEN raced ELSE raced \cup {ThreadOf[m]}
  /\ UNCHANGED <<thread, stored, Readers, steady, fell>>

\* A new thread is saved before its first message, which it counts.
SaveNewThread(s) ==
  /\ saving[s].pc = "read"
  /\ SavesRow(ThreadOf[saving[s].msg], [latest |-> At[saving[s].msg], count |-> 1])
  /\ saving' = [saving EXCEPT ![s].pc = "insert"]
  /\ UNCHANGED <<stored, Readers, saves, raced>>

\* Only a message that was not there advances a thread that was.
InsertMessage(s) ==
  /\ saving[s].pc = "insert" /\ Exists(ThreadOf[saving[s].msg])
  /\ LET m == saving[s].msg
     IN /\ stored' = stored \cup {m}
        /\ saving' = [saving EXCEPT ![s].pc =
                        IF m \notin stored /\ saving[s].seen # NoRow THEN "update" ELSE "idle"]
        /\ steady' = IF m \in stored THEN steady ELSE steady \ {ThreadOf[m]}
  /\ UNCHANGED <<thread, Readers, saves, raced, fell>>

Updated(seen, m) ==
  [latest |-> Max({seen.latest, At[m]}), count |-> seen.count + 1]

UpdateThread(s) ==
  /\ saving[s].pc = "update"
  /\ SavesRow(ThreadOf[saving[s].msg], Updated(saving[s].seen, saving[s].msg))
  /\ saving' = [saving EXCEPT ![s].pc = "idle"]
  /\ UNCHANGED <<stored, Readers, saves, raced>>

\* The store, the object store or the process fails between two saves.
SaveFails(s) ==
  /\ saving[s].pc # "idle"
  /\ saving' = [saving EXCEPT ![s].pc = "idle"]
  /\ raced' = raced \cup {ThreadOf[saving[s].msg]}
  /\ UNCHANGED <<thread, stored, Readers, saves, steady, fell>>

\* delete_message_by_provider_ref counts what remains, and keeps the date of a thread
\* that nothing remains of.
Recounted(t, remaining) ==
  [latest |-> IF remaining = {} THEN thread[t].latest ELSE Max({At[m] : m \in remaining}),
   count |-> Cardinality(remaining)]

DeleteMessage(m) ==
  /\ m \in stored
  /\ stored' = stored \ {m}
  /\ LET t == ThreadOf[m]
     IN /\ SavesRow(t, Recounted(t, In(t) \ {m}))
        /\ raced' = IF Busy(t) = {} THEN raced \ {t} ELSE raced \cup {t}
  /\ UNCHANGED <<saving, Readers, saves>>

\* The connection is deleted: delete_connection_data takes its messages and threads.
PurgeConnection ==
  /\ stored # {}
  /\ stored' = {}
  /\ thread' = [t \in Threads |-> NoRow]
  /\ raced' = {t \in Threads : Busy(t) # {}}
  /\ steady' = {}
  /\ fell' = IF walk.pc = "idle" THEN fell ELSE Threads
  /\ export' = [export EXCEPT !.purged = (export.pc # "idle")]
  /\ UNCHANGED <<saving, walk, saves>>

-----------------------------------------------------------------------------
(* list_thread_page.                                                       *)

Before(a, b) == a[1] < b[1] \/ (a[1] = b[1] /\ a[2] < b[2])
KeyIn(rows, t) == <<rows[t].latest, t>>

\* The newest rows; of those with the last date, the store gives any.
Newest(rows) ==
  {R \in SUBSET {t \in Threads : rows[t] # NoRow} :
     /\ Cardinality(R) = Min({Window, Cardinality({t \in Threads : rows[t] # NoRow})})
     /\ \A t \in R, u \in {x \in Threads : rows[x] # NoRow} \ R : rows[u].latest <= rows[t].latest}

\* The threads a walk lists when it begins are what it must show, as long as they keep
\* still, its filter holds of them, and every page finds them among the newest.
BeginWalk ==
  /\ walk.pc \in {"idle", "done"} /\ export.pc \in {"idle", "done", "failed"}
  /\ export' = NoExport
  /\ \E u \in BOOLEAN : walk' = [NoWalk EXCEPT !.pc = "ask", !.unread = u]
  /\ steady' = {t \in Threads : Exists(t)}
  /\ fell' = {}
  /\ UNCHANGED <<thread, stored, saving, saves, raced>>

ReadThreads ==
  /\ walk.pc = "ask"
  /\ \E R \in Newest(thread) :
       /\ walk' = [walk EXCEPT !.pc = "page",
                     !.rows = [t \in Threads |-> IF t \in R THEN thread[t] ELSE NoRow]]
       /\ steady' = steady \cap R
  /\ UNCHANGED <<thread, stored, saving, export, saves, raced, fell>>

Passes(t) == walk.unread => In(t) \cap Unread # {}

\* Mutation of Follows: what the cursor names is shown again.
FollowsOrIs(key) == walk.after = NoKey \/ ~Before(walk.after, key)

Follows(key) == walk.after = NoKey \/ Before(key, walk.after)

\* The messages are read after the threads; what matches is cut at the limit, and the
\* cursor is the last one shown.
MakePage ==
  /\ walk.pc = "page"
  /\ LET match == {t \in Threads : walk.rows[t] # NoRow /\ Passes(t) /\ Follows(KeyIn(walk.rows, t))}
         ahead(t) == {u \in match : Before(KeyIn(walk.rows, t), KeyIn(walk.rows, u))}
         items == {t \in match : Cardinality(ahead(t)) < PageSize}
         more == items # match
     IN /\ walk' = [walk EXCEPT
              !.pc = IF more THEN "ask" ELSE "done",
              !.shown = @ \cup items, !.twice = @ \cup (walk.shown \cap items),
              !.rows = NoWalk.rows,
              !.after = IF more THEN CHOOSE k \in {KeyIn(walk.rows, t) : t \in items} :
                                       \A t \in items : ~Before(KeyIn(walk.rows, t), k)
                        ELSE NoKey]
        /\ steady' = {t \in steady : Passes(t)}
  /\ UNCHANGED <<thread, stored, saving, export, saves, raced, fell>>

-----------------------------------------------------------------------------
(* export_subject_data: messages, then threads, then the bodies. It shares  *)
(* nothing with a walk, so that the model takes one of the two at a time.   *)

BeginExport ==
  /\ export.pc = "idle" /\ walk.pc \in {"idle", "done"}
  /\ export' = [NoExport EXCEPT !.pc = "threads", !.messages = stored]
  /\ walk' = NoWalk
  /\ steady' = {}
  /\ fell' = {}
  /\ UNCHANGED <<thread, stored, saving, saves, raced>>

ExportThreads ==
  /\ export.pc = "threads"
  /\ \E R \in Newest(thread) : export' = [export EXCEPT !.pc = "hydrate", !.threads = R]
  /\ UNCHANGED <<thread, stored, saving, walk, saves, raced, steady, fell>>

\* With include_content, a body that went with its message fails the export.
Hydrate ==
  /\ export.pc = "hydrate"
  /\ \E content \in BOOLEAN :
       export' = [export EXCEPT !.pc = IF content /\ ~(export.messages \subseteq stored)
                                       THEN "failed" ELSE "done"]
  /\ UNCHANGED <<thread, stored, saving, walk, saves, raced, steady, fell>>

-----------------------------------------------------------------------------
WalkStep == ReadThreads \/ MakePage

InboxNext ==
  \/ \E s \in Syncs, m \in Messages : ReadThread(s, m)
  \/ \E s \in Syncs : SaveNewThread(s) \/ InsertMessage(s) \/ UpdateThread(s) \/ SaveFails(s)
  \/ \E m \in Messages : DeleteMessage(m)
  \/ PurgeConnection
  \/ BeginWalk \/ WalkStep
  \/ BeginExport \/ ExportThreads \/ Hydrate

InboxSpec == InboxInit /\ [][InboxNext]_inboxVars

-----------------------------------------------------------------------------
(* Properties.                                                             *)

\* A walk over all pages shows every thread that kept still, that its filter holds of
\* and that was among the newest whenever a page was made; and it shows a thread twice
\* only if the date of the thread went back meanwhile.
WalkIsFaithful ==
  /\ walk.pc = "done" => {t \in steady : Passes(t)} \subseteq walk.shown
  /\ walk.twice \subseteq fell

\* A row that no two executions were at work on at once, and that none left half done,
\* counts the messages of its thread and is not dated before any of them; a deletion puts
\* the row right again. (A thread that was emptied keeps the date of what it lost.)
SummaryIsTrue ==
  \A t \in Threads : t \notin raced /\ Busy(t) = {} =>
    /\ thread[t].count = Cardinality(In(t))
    /\ \A m \in In(t) : At[m] <= thread[t].latest

\* An export has the thread of every message it has, unless there are more threads than
\* it may have, or the connection was purged while it was made.
ExportIsConnected ==
  export.pc = "done" /\ ~export.purged /\ Cardinality(export.threads) < Window
    => {ThreadOf[m] : m \in export.messages} \subseteq export.threads

\* What the two readers put together over several awaits is whole.
AnswersAreWhole == WalkIsFaithful /\ ExportIsConnected
=============================================================================
