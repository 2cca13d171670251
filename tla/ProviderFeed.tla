---------------------------- MODULE ProviderFeed ----------------------------
(***************************************************************************)
(* What the connectors make of a mailbox: one synchronisation of one       *)
(* folder by GmailConnector, MicrosoftGraphConnector or ImapSmtpConnector, *)
(* from the requests it makes of the provider to the page it gives         *)
(* MailService._sync_connection, which stores the messages, removes the    *)
(* deleted ones and commits the cursor. SyncJob has the steps of that last *)
(* part, over a feed nothing is lost from; here it is one step, and the    *)
(* feed is as the providers have it.                                       *)
(*                                                                         *)
(* The mailbox is the log of what happened in it. A position in the log    *)
(* is a Gmail historyId, a Graph delta token, a UID or a MODSEQ.           *)
(***************************************************************************)
EXTENDS Integers, Sequences, FiniteSets, FiniteSetsExt

CONSTANTS
  Messages,    \* messages of the mailbox
  Limit,       \* requested_limit of a synchronisation, and the largest page
  NoCursor,    \* no cursor is stored, or the page has none
  MaxChanges,  \* bound: what happens in the mailbox
  MaxFaults    \* bound: requests that fail, and cursors that expire

ASSUME LimitAssumption == Limit \in Nat \ {0}
ASSUME CursorAssumption == NoCursor \notin [pos : Nat, base : Nat]
ASSUME ChangesAssumption == MaxChanges \in Nat /\ MaxFaults \in Nat

VARIABLES
  kind,    \* the connector; "condstore" is the IMAP one at a server with CONDSTORE
  log,     \* the mailbox, at the provider
  stale,   \* the provider no longer honours the stored cursor
  cursor,  \* the stored cursor
  stored,  \* message projections
  sync,    \* the synchronisation in progress
  excused, \* history: messages some synchronisation could not account for
  faults   \* bound

feedVars == <<kind, log, stale, cursor, stored, sync, excused, faults>>

-----------------------------------------------------------------------------
(* The mailbox. "removed": moved out of the folder, "restored": moved back, *)
(* "touched": read, flagged or labelled, "erased": deleted for good.        *)

Imap == kind \in {"imap", "condstore"}
LogEntry == [what : {"added", "touched", "removed", "restored", "erased"}, msg : Messages]

Of(m) == {i \in DOMAIN log : log[i].msg = m}
LastOf(m) == Max(Of(m) \cup {0})
Latest(m) == IF Of(m) = {} THEN "none" ELSE log[LastOf(m)].what
Placed(m) == {i \in Of(m) : log[i].what # "touched"}
Exists(m) == Of(m) # {} /\ Latest(m) # "erased"
InFolder(m) == Exists(m) /\ log[Max(Placed(m))].what \in {"added", "restored"}
Arrived(m) == Min(Of(m))  \* orders a list of messages, and is the UID

\* The owner, a sender or a retention rule. In an IMAP folder, a message that is
\* moved out is expunged, and one that is moved in is another message.
MailboxChanges(m) ==
  /\ Len(log) < MaxChanges
  /\ \E w \in {"added", "touched", "removed", "restored", "erased"} :
       /\ CASE w = "added" -> Of(m) = {}
            [] w = "removed" -> InFolder(m) /\ ~Imap
            [] w = "restored" -> Exists(m) /\ ~InFolder(m)
            [] OTHER -> Exists(m)
       /\ log' = Append(log, [what |-> w, msg |-> m])
  /\ UNCHANGED <<kind, stale, cursor, stored, sync, excused, faults>>

\* Gmail forgets its history, Graph its delta tokens; an IMAP server renumbers.
CursorExpires ==
  /\ cursor # NoCursor /\ ~stale
  /\ faults < MaxFaults /\ faults' = faults + 1
  /\ stale' = TRUE
  /\ UNCHANGED <<kind, log, cursor, stored, sync, excused>>

-----------------------------------------------------------------------------
(* A synchronisation. `taken` is the messages it has gathered, as positions *)
(* of the log; `gone` is deleted_message_refs; `from` and `at` bound what   *)
(* it has read of the log, and `horizon` is where a rebuild began: a Graph  *)
(* token made by one lists, up to there, what is in the folder, not what    *)
(* left it. `missed` is what it cannot account for.                         *)

Cursor == [pos : Nat, base : Nat] \cup {NoCursor}
SyncPc == {"idle", "history", "list", "get", "profile", "delta", "search", "fetch", "apply"}
SyncRecord == [pc : SyncPc, from : Nat, at : Nat, horizon : Nat, first : BOOLEAN,
               taken : SUBSET Nat, gone : SUBSET Messages, next : Cursor,
               reset : BOOLEAN, missed : SUBSET Messages]

IdleSync == [pc |-> "idle", from |-> 0, at |-> 0, horizon |-> 0, first |-> TRUE,
             taken |-> {}, gone |-> {}, next |-> NoCursor, reset |-> FALSE,
             missed |-> {}]

FeedTypeOK ==
  /\ kind \in {"gmail", "graph", "imap", "condstore"}
  /\ log \in Seq(LogEntry)
  /\ stale \in BOOLEAN
  /\ cursor \in Cursor
  /\ stored \in SUBSET Messages
  /\ sync \in SyncRecord
  /\ excused \in SUBSET Messages
  /\ faults \in 0 .. MaxFaults

FeedInit ==
  /\ kind \in {"gmail", "graph", "imap", "condstore"}
  /\ log = <<>>
  /\ stale = FALSE
  /\ cursor = NoCursor
  /\ stored = {}
  /\ sync = IdleSync
  /\ excused = {}
  /\ faults = 0

MessagesAt(positions) == {log[i].msg : i \in positions}
Span(from, upto) == {i \in DOMAIN log : from < i /\ i <= upto}
ChangedIn(from, upto) == MessagesAt(Span(from, upto))
Room == Limit - Cardinality(sync.taken)

\* The k first, or last, of a set of positions.
FirstOf(k, S) == {i \in S : Cardinality({j \in S : j < i}) < k}
LastOnes(k, S) == {i \in S : Cardinality({j \in S : j > i}) < k}

Untouched == UNCHANGED <<kind, log, stale, cursor, stored, excused, faults>>

Begin ==
  /\ sync.pc = "idle"
  /\ LET from == IF cursor = NoCursor THEN 0 ELSE cursor.pos
         pc == CASE Imap -> "search"
                 [] kind = "graph" -> "delta"
                 [] kind = "gmail" -> IF cursor = NoCursor THEN "list" ELSE "history"
     IN sync' = [IdleSync EXCEPT !.pc = pc, !.from = from, !.at = from,
                   !.horizon = IF cursor = NoCursor THEN Len(log) ELSE cursor.base,
                   !.reset = cursor = NoCursor]
  /\ Untouched

\* A provider page ends wherever the provider likes, within what was asked for.
PageEnds(asked) ==
  {e \in sync.at .. Len(log) :
     e - sync.at <= asked /\ (e = sync.at => sync.at = Len(log))}

-----------------------------------------------------------------------------
(* Gmail.                                                                  *)

Leaves(i) == log[i].what \in {"removed", "erased"}

\* _gmail_history_changes: the messages to fetch and those that left. The provider may
\* name every message again under "messages", whatever the record says of it.
HistoryRefs(S, named) ==
  {i \in S : /\ named \/ ~Leaves(i)
             /\ ~\E j \in S : j < i /\ log[j].msg = log[i].msg /\ (named \/ ~Leaves(j))}

\* historyId is that of the mailbox, wherever the page ends. A page that fills
\* the limit is the last one asked for. A record is one message here; one of several,
\* cut in the middle, leaves the rest of its messages out as a full page does.
HistoryPage ==
  /\ sync.pc = "history" /\ ~stale
  /\ \E e \in PageEnds(Room), named \in BOOLEAN :
       LET S == Span(sync.at, e)
           taken == sync.taken \cup HistoryRefs(S, named)
           last == e = Len(log) \/ Cardinality(taken) >= Limit
       IN sync' = [sync EXCEPT
            !.at = e, !.taken = taken,
            !.gone = @ \cup MessagesAt({i \in S : Leaves(i)}),
            !.next = [pos |-> Len(log), base |-> 0],
            !.missed = IF last THEN ChangedIn(e, Len(log)) ELSE {},
            !.pc = IF last THEN "get" ELSE "history"]
  /\ Untouched

\* http_404: a rebuild, which keeps the deletions already seen.
HistoryExpired ==
  /\ sync.pc = "history" /\ stale
  /\ sync' = [sync EXCEPT !.pc = "list", !.taken = {}, !.next = NoCursor,
                !.reset = TRUE, !.horizon = Len(log), !.first = TRUE]
  /\ Untouched

\* users.messages.list without a label: whatever exists, newest first. `at` is
\* the oldest message listed so far.
ListPage ==
  /\ sync.pc = "list"
  /\ LET listed == {Arrived(m) : m \in {x \in Messages : Exists(x)}}
         rest == IF sync.first THEN listed ELSE {i \in listed : i < sync.at}
     IN \E k \in (IF rest = {} THEN {0} ELSE 1 .. Room) :
          LET page == LastOnes(k, rest)
              last == page = rest \/ Cardinality(page) >= Room
          IN sync' = [sync EXCEPT
               !.taken = @ \cup page, !.first = FALSE,
               !.at = IF page = {} THEN 0 ELSE Min(page),
               !.missed = IF last THEN MessagesAt(rest \ page) ELSE {},
               !.pc = IF last THEN "get" ELSE "list"]
  /\ Untouched

\* Deleted messages are not fetched. One that has gone since, or whose deletion is
\* in a page that was not read, is a 404, which fails the synchronisation.
ToGet == MessagesAt(sync.taken) \ sync.gone
Unreadable == sync.pc = "get" /\ \E m \in ToGet : ~Exists(m)

GetMessages ==
  /\ sync.pc = "get"
  /\ sync' = IF Unreadable
               THEN IdleSync
               ELSE [sync EXCEPT !.pc = IF sync.next = NoCursor THEN "profile" ELSE "apply"]
  /\ Untouched

\* After a rebuild the cursor is the historyId of the profile, read last.
ReadProfile ==
  /\ sync.pc = "profile"
  /\ sync' = [sync EXCEPT !.pc = "apply", !.next = [pos |-> Len(log), base |-> 0],
                !.missed = @ \cup ChangedIn(sync.horizon, Len(log))]
  /\ Untouched

-----------------------------------------------------------------------------
(* Microsoft Graph.                                                        *)

\* A page names a message once, as it is now.
DeltaItems(S) == {i \in S : ~\E j \in S : j > i /\ log[j].msg = log[i].msg}

\* Mutation of DeltaLink: only @odata.deltaLink is read.
DeltaLinkOfLast(e) ==
  IF e = Len(log) THEN [pos |-> e, base |-> 0] ELSE NoCursor

\* The link of a page is stored, be it the next page's or the last one's.
DeltaLink(e) ==
  [pos |-> e, base |-> IF e < sync.horizon THEN sync.horizon ELSE 0]

\* The whole page is read for deletions; messages beyond the limit are left out.
DeltaPage ==
  /\ sync.pc = "delta" /\ ~(stale /\ sync.first /\ ~sync.reset)
  /\ \E e \in PageEnds(Limit) :
       LET items == DeltaItems(Span(sync.at, e))
           present == {i \in items : InFolder(log[i].msg)}
           taken == sync.taken \cup FirstOf(Room, present)
           last == e = Len(log) \/ Cardinality(taken) >= Limit
       IN sync' = [sync EXCEPT
            !.at = e, !.first = FALSE, !.taken = taken,
            !.gone = @ \cup MessagesAt({i \in items \ present : i > sync.horizon}),
            !.missed = @ \cup MessagesAt(present \ taken),
            !.next = IF last THEN DeltaLink(e) ELSE NoCursor,
            !.pc = IF last THEN "apply" ELSE "delta"]
  /\ Untouched

\* 404 or 410 for the stored link: begin again, once, from the folder.
DeltaExpired ==
  /\ sync.pc = "delta" /\ stale /\ sync.first /\ ~sync.reset
  /\ sync' = [sync EXCEPT !.from = 0, !.at = 0, !.horizon = Len(log), !.reset = TRUE]
  /\ Untouched

-----------------------------------------------------------------------------
(* IMAP.                                                                   *)

Uids == {Arrived(m) : m \in {x \in Messages : InFolder(x)}}

\* "UID n:*" with no UID from n on is the last one.
Beyond(n) == IF \E u \in Uids : u > n THEN {u \in Uids : u > n} ELSE LastOnes(1, Uids)

\* The folder is not the one the cursor is of: another UIDVALIDITY, or no cursor.
Renumbered == stale \/ cursor = NoCursor

\* HIGHESTMODSEQ, which only a server with CONDSTORE answers.
HighestModseq == IF kind = "condstore" THEN Len(log) ELSE 0

\* The newest UIDs beyond the cursor, or those modified since; all of them when the
\* cursor is of another UIDVALIDITY.
SearchFolder ==
  /\ sync.pc = "search"
  /\ LET found == CASE Renumbered -> Uids
                    [] ~Renumbered /\ kind = "imap" -> Beyond(cursor.pos)
                    [] ~Renumbered /\ kind = "condstore" ->
                         {u \in Uids : LastOf(log[u].msg) > cursor.base}
         taken == LastOnes(Limit, found)
         last == IF Renumbered THEN 0 ELSE cursor.pos
     IN sync' = [sync EXCEPT
          !.pc = "fetch", !.taken = taken, !.missed = MessagesAt(found \ taken),
          !.reset = Renumbered,
          !.next = [pos |-> Max(taken \cup {last}),
                    base |-> HighestModseq]]
  /\ Untouched

\* A UID that has gone since the search is imap_rfc822_missing.
Vanished == \E m \in MessagesAt(sync.taken) : ~InFolder(m)

FetchMessages ==
  /\ sync.pc = "fetch"
  /\ sync' = IF Vanished
               THEN IdleSync ELSE [sync EXCEPT !.pc = "apply"]
  /\ Untouched

-----------------------------------------------------------------------------
(* Any request may fail, after its retries. The page is stored, its         *)
(* deletions are made, its cursor is committed.                             *)

SyncFails ==
  /\ sync.pc # "idle"
  /\ faults < MaxFaults /\ faults' = faults + 1
  /\ sync' = IdleSync
  /\ UNCHANGED <<kind, log, stale, cursor, stored, excused>>

\* What left the folder and came back is stored and then deleted; a rebuild says
\* nothing of what is no longer there.
Returned ==
  {m \in sync.gone : \E i \in Span(sync.from, Len(log)) : log[i] = [what |-> "restored", msg |-> m]}

\* Mutation of Merged: deletions come first.
MergedDeletingFirst(messages) == (stored \ sync.gone) \cup messages

Merged(messages) == (stored \cup messages) \ sync.gone

ApplyPage ==
  /\ sync.pc = "apply"
  /\ LET messages == IF kind = "gmail" THEN ToGet ELSE MessagesAt(sync.taken)
     IN /\ stored' = Merged(messages)
        /\ excused' = (excused \ (messages \cup sync.gone)) \cup sync.missed \cup Returned
                        \cup IF sync.reset THEN stored \ messages ELSE {}
  /\ cursor' = sync.next
  /\ stale' = FALSE
  /\ sync' = IdleSync
  /\ UNCHANGED <<kind, log, faults>>

SyncStep ==
  \/ Begin \/ HistoryPage \/ HistoryExpired \/ ListPage \/ GetMessages \/ ReadProfile
  \/ DeltaPage \/ DeltaExpired \/ SearchFolder \/ FetchMessages \/ ApplyPage

FeedNext ==
  \/ SyncStep
  \/ SyncFails
  \/ CursorExpires
  \/ \E m \in Messages : MailboxChanges(m)

FeedSpec == FeedInit /\ [][FeedNext]_feedVars

\* Mailboxes are synchronised for ever, and every request is answered or times out.
FairFeedSpec == FeedSpec /\ WF_feedVars(SyncStep)

-----------------------------------------------------------------------------
(* Properties.                                                             *)

\* The changes that the cursor has passed.
Reached ==
  IF cursor = NoCursor THEN 0
  ELSE IF kind = "condstore" THEN cursor.base ELSE cursor.pos

Settled(m) == Of(m) # {} /\ LastOf(m) <= Reached

\* A message in the folder that has not changed since the cursor passed it is stored,
\* unless a synchronisation left it out: beyond its limit, while it rebuilt, or because
\* the message left the folder and came back between two synchronisations.
NothingElseMissed ==
  \A m \in Messages : Settled(m) /\ InFolder(m) => m \in stored \cup excused

\* A message deleted at the provider before the cursor is not kept, with the same
\* exceptions. IMAP deletions are never reported.
NothingElseKept ==
  ~Imap => \A m \in stored : Settled(m) /\ ~Exists(m) => m \in excused

\* What the store and the folder disagree on, as far as the cursor says, was left out in
\* one of the named ways.
NothingElseDiffers == NothingElseMissed /\ NothingElseKept

\* The mailbox is quiet in the end: the cursor reaches all of it, or each
\* synchronisation asks Gmail again for a message that has been deleted.
CaughtUp ==
  /\ cursor # NoCursor
  /\ CASE kind = "imap" -> \A u \in Uids : u <= cursor.pos
       [] kind = "condstore" -> cursor.base = Len(log)
       [] OTHER -> cursor.pos = Len(log)
CatchesUp == <>[]CaughtUp \/ []<>Unreadable
=============================================================================
