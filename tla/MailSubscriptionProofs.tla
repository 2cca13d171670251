----------------------- MODULE MailSubscriptionProofs -----------------------
(***************************************************************************)
(* Proofs about how a mailbox is watched (MailSubscription) and about the  *)
(* inbox that its synchronisations keep (MailThreads), for any number of   *)
(* callbacks, coordinator calls and synchronisations. Calls may overlap;   *)
(* the two theorems that are about calls that do not say so.               *)
(***************************************************************************)
EXTENDS MailSubscription, MailThreads, FiniteSetTheorems, TLAPS

-----------------------------------------------------------------------------
(* The inductive invariant.                                                *)

\* Where a delivered notification stands until its handler returns.
NotifyPc == {"save_notified", "read_renewal", "save_renewal", "read_conn", "save_conn", "enqueue"}

\* What a call holds is true of a provider that has given g subscriptions out,
\* of projections a, and of a mailbox that has changed ch times: its copy of the
\* row is of an earlier row, and the page it has stored stays stored.
Good(r, g, a, ch) ==
  /\ r.seen.ref <= g
  /\ r.pc = "record" => r.seen.ref <= r.ref /\ r.ref <= g
  /\ 1 .. r.seen.cursor \subseteq a
  /\ r.pc = "commit" => 1 .. r.at \subseteq a
  /\ r.note.at <= ch
  /\ \A n \in r.job : 1 .. n.at \subseteq a /\ n.at <= ch
  /\ r.kind = "notify" => r.pc \in NotifyPc
  /\ r.job # {} => r.pc = "commit"

GoodCalls == \A c \in Calls : Good(call[c], given, applied, changes)

\* The same of the row, the provider and the queue.
GoodRow ==
  /\ watch \in {0, given}
  /\ row.ref <= given
  /\ 1 .. row.cursor \subseteq applied
  /\ \A n \in sent \cup queue : n.at <= changes

Settled(n) ==
  1 .. n.at \subseteq applied \/ AtWork(n) \/ JobPending(n) \/ n \in alarms

\* NotificationAccounted, of receipts under names of their own.
Accounted == GraphIds \/ \A n \in receipts : n.kind = "reauthorize" \/ Settled(n)

Inv == TypeOK /\ GoodCalls /\ GoodRow /\ Accounted

-----------------------------------------------------------------------------
(* Types.                                                                  *)

LEMMA Constants ==
  /\ MaxRefs \in Nat /\ MaxChanges \in Nat /\ MaxRevision \in Nat /\ MaxEvents \in Nat
  /\ GraphIds \in BOOLEAN
BY BoundAssumption, SwitchAssumption

LEMMA Literals ==
  /\ {"none", "notify", "ensure", "renew", "mark", "cancel", "sync"} = CallKind
  /\ NotifyPc \subseteq Pc
  /\ {"idle", "host", "record", "save_failed", "unwatch", "save_cancelled", "read_lease",
      "read_failed", "commit"} \subseteq Pc
  /\ {"none", "active", "failed", "cancelled"} = SubStatus
  /\ 0 \in Ref /\ 0 \in Time /\ 0 \in 0 .. MaxRevision
BY Constants DEF CallKind, NotifyPc, Pc, Holding, SubStatus, Ref, Time

LEMMA NewTyped == NewState \in SyncState /\ NoNote \in Note /\ Idle \in Call
<1>1. NewState \in SyncState /\ NoNote \in Note
  BY Literals DEF NewState, SyncState, NoNote, Note
<1>. QED  BY <1>1, Literals DEF Idle, Call

\* The fields of a call, of the row and of the connection.
LEMMA Fields ==
  ASSUME TypeOK, NEW c \in Calls
  PROVE  /\ call[c] \in Call /\ call[c].kind \in CallKind /\ call[c].pc \in Pc
         /\ call[c].seen \in SyncState /\ call[c].note \in Note /\ call[c].at \in Time
         /\ call[c].rev \in 0 .. MaxRevision /\ call[c].ref \in Ref
         /\ call[c].job \in SUBSET Note
BY DEF TypeOK, Call

LEMMA StateFields ==
  ASSUME NEW s \in SyncState
  PROVE  /\ s.ref \in Ref /\ s.status \in SubStatus /\ s.expiry \in {"lease", "now"}
         /\ s.cursor \in Time /\ s.mark \in Time /\ s.ref \in Int /\ s.cursor \in Int
BY Constants DEF SyncState, Ref, Time

LEMMA NoteFields ==
  ASSUME NEW n \in Note
  PROVE  n.at \in Time /\ n.at \in Int /\ n.ref \in Ref
BY Constants DEF Note, Time

LEMMA Shared ==
  ASSUME TypeOK
  PROVE  /\ row \in SyncState /\ given \in Ref /\ given \in Int /\ watch \in Ref
         /\ changes \in Time /\ changes \in Int
BY Constants DEF TypeOK, Ref, Time

\* A new call is good, whatever has happened.
LEMMA IdleGood ==
  ASSUME NEW g \in Ref, NEW a, NEW ch \in Time
  PROVE  Good(Idle, g, a, ch)
<1>1. g \in Nat /\ ch \in Nat
  BY Constants DEF Ref, Time
<1>. QED  BY <1>1 DEF Good, Idle, NewState, NoNote, NotifyPc

\* A good call stays good while the provider, the projections and the mailbox go on.
LEMMA StaysGood ==
  ASSUME NEW r \in Call, NEW g \in Ref, NEW h \in Ref, NEW a, NEW b,
         NEW s \in Time, NEW t \in Time,
         g <= h, a \subseteq b, s <= t, Good(r, g, a, s)
  PROVE  Good(r, h, b, t)
<1>1. /\ g \in Int /\ h \in Int /\ s \in Int /\ t \in Int
      /\ r.seen.ref \in Int /\ r.ref \in Int /\ r.note.at \in Int
      /\ \A n \in r.job : n.at \in Int
  BY Constants DEF Call, SyncState, Note, Ref, Time
<1>2. r.seen.ref <= h /\ (r.pc = "record" => r.seen.ref <= r.ref /\ r.ref <= h)
  BY <1>1 DEF Good
<1>3. r.note.at <= t /\ \A n \in r.job : n.at <= t
  BY <1>1 DEF Good
<1>. QED  BY <1>2, <1>3 DEF Good

-----------------------------------------------------------------------------
(* How a step that rewrites one call keeps the parts of the invariant.     *)

\* Time does not run back.
Onward ==
  /\ given' \in Ref /\ given <= given'
  /\ changes' \in Time /\ changes <= changes'
  /\ applied \subseteq applied'

LEMMA CallsKept ==
  ASSUME Inv, Onward, NEW c \in Calls, NEW r \in Call, call' = [call EXCEPT ![c] = r],
         Good(r, given', applied', changes')
  PROVE  call' \in [Calls -> Call] /\ GoodCalls'
<1>1. call' \in [Calls -> Call] /\ call'[c] = r /\ \A d \in Calls \ {c} : call'[d] = call[d]
  BY DEF Inv, TypeOK
<1>2. ASSUME NEW d \in Calls PROVE Good(call'[d], given', applied', changes')
  <2>1. CASE d = c
    BY <2>1, <1>1
  <2>2. CASE d # c
    <3>1. Good(call[d], given, applied, changes) /\ call[d] \in Call
      BY Fields DEF Inv, GoodCalls
    <3>2. Good(call[d], given', applied', changes')
      BY <3>1, Shared, StaysGood DEF Onward, Inv
    <3>. QED  BY <3>2, <2>2, <1>1
  <2>. QED  BY <2>1, <2>2
<1>. QED  BY <1>1, <1>2 DEF GoodCalls

LEMMA CallsKeptByAll ==
  ASSUME Inv, Onward, UNCHANGED call
  PROVE  call' \in [Calls -> Call] /\ GoodCalls'
<1>1. ASSUME NEW d \in Calls PROVE Good(call[d], given', applied', changes')
  <2>1. Good(call[d], given, applied, changes) /\ call[d] \in Call
    BY Fields DEF Inv, GoodCalls
  <2>. QED  BY <2>1, Shared, StaysGood DEF Onward, Inv
<1>. QED  BY <1>1 DEF GoodCalls, Inv, TypeOK

\* What stands recorded about a notification is not withdrawn.
Recording ==
  /\ queue \subseteq queue' /\ alarms \subseteq alarms'
  /\ applied \subseteq applied'

\* The call answers for the notifications it answered for, or for none before.
Answering(c, r) ==
  \/ r.kind = call[c].kind /\ r.note = call[c].note /\ r.job = call[c].job
  \/ call[c].kind # "notify" /\ call[c].job = {}

LEMMA SettledKept ==
  ASSUME Inv, Recording, NEW c \in Calls, NEW r \in Call, call' = [call EXCEPT ![c] = r],
         Answering(c, r), NEW n, Settled(n)
  PROVE  Settled(n)'
<1>1. call'[c] = r /\ \A d \in Calls \ {c} : call'[d] = call[d]
  BY DEF Inv, TypeOK
<1>2. CASE AtWork(n)
  <2>1. PICK d \in Calls : call[d].kind = "notify" /\ call[d].note = n
    BY <1>2 DEF AtWork
  <2>2. call'[d].kind = "notify" /\ call'[d].note = n
    BY <1>1, <2>1 DEF Answering
  <2>. QED  BY <2>2 DEF AtWork, Settled
<1>3. CASE \E d \in Calls : n \in call[d].job
  <2>1. PICK d \in Calls : n \in call[d].job
    BY <1>3
  <2>2. n \in call'[d].job
    BY <1>1, <2>1 DEF Answering
  <2>. QED  BY <2>2 DEF JobPending, Settled
<1>. QED  BY <1>2, <1>3 DEF Settled, JobPending, Recording

LEMMA AccountedKept ==
  ASSUME Inv, Recording, NEW c \in Calls, NEW r \in Call, call' = [call EXCEPT ![c] = r],
         Answering(c, r), UNCHANGED receipts
  PROVE  Accounted'
<1>1. ASSUME NEW n \in receipts, ~GraphIds PROVE n.kind = "reauthorize" \/ Settled(n)'
  BY <1>1, SettledKept DEF Inv, Accounted
<1>. QED  BY <1>1 DEF Accounted

LEMMA AccountedByAll ==
  ASSUME Inv, Recording, UNCHANGED <<call, receipts>>
  PROVE  Accounted'
<1>1. ASSUME NEW n, Settled(n) PROVE Settled(n)'
  BY <1>1 DEF Settled, AtWork, JobPending, Recording
<1>. QED  BY <1>1 DEF Inv, Accounted

\* Steps that leave everything but the call alone, or everything but the row.
Still == UNCHANGED <<overlapping, conn, provider, inbox, applied, dropped>>

LEMMA StillOn ==
  ASSUME Inv, Still
  PROVE  Onward /\ Recording
BY Shared DEF Still, provider, inbox, Onward, Recording, Inv

\* The row as some call has it, rewritten without touching cursor or reference.
LEMMA QuietStep ==
  ASSUME Inv, Still, NEW c \in Calls, NEW r \in Call, call' = [call EXCEPT ![c] = r],
         Good(r, given, applied, changes), Answering(c, r), row' \in SyncState,
         row.ref <= row'.ref, row'.ref <= given, 1 .. row'.cursor \subseteq applied
  PROVE  Inv' /\ row.ref <= row'.ref
<1>1. Onward /\ Recording
  BY StillOn
<1>2. call' \in [Calls -> Call] /\ GoodCalls'
  BY <1>1, CallsKept DEF Still, provider, inbox
<1>3. Accounted'
  BY <1>1, AccountedKept DEF Still, inbox
<1>4. GoodRow'
  BY DEF Inv, GoodRow, Still, provider, inbox
<1>5. TypeOK'
  BY <1>2 DEF Inv, TypeOK, Still, provider, inbox
<1>. QED  BY <1>2, <1>3, <1>4, <1>5 DEF Inv

LEMMA QuietStepOfCall ==
  ASSUME Inv, Still, UNCHANGED row, NEW c \in Calls, NEW r \in Call,
         call' = [call EXCEPT ![c] = r],
         Good(r, given, applied, changes), Answering(c, r)
  PROVE  Inv' /\ row.ref <= row'.ref
<1>1. row \in SyncState /\ row.ref \in Int /\ row.ref <= given /\ 1 .. row.cursor \subseteq applied
  BY Shared, StateFields DEF Inv, GoodRow
<1>2. /\ row' \in SyncState /\ row.ref <= row'.ref /\ row'.ref <= given
      /\ 1 .. row'.cursor \subseteq applied
  BY <1>1
<1>. QED  BY <1>2, QuietStep

-----------------------------------------------------------------------------
(* What a call may turn into.                                              *)

\* The call goes on: it is still answering, still good.
LEMMA GoesOn ==
  ASSUME Inv, NEW c \in Calls, NEW p \in Pc, p \notin {"record", "commit"},
         call[c].kind = "notify" => p \in NotifyPc, call[c].job = {}
  PROVE  LET r == [call[c] EXCEPT !.pc = p, !.seen = NewState, !.at = 0]
             q == [call[c] EXCEPT !.pc = p, !.seen = row]
             t == [call[c] EXCEPT !.pc = p]
         IN  /\ r \in Call /\ Good(r, given, applied, changes) /\ Answering(c, r)
             /\ q \in Call /\ Good(q, given, applied, changes) /\ Answering(c, q)
             /\ t \in Call /\ Good(t, given, applied, changes) /\ Answering(c, t)
<1> DEFINE r == [call[c] EXCEPT !.pc = p, !.seen = NewState, !.at = 0]
           q == [call[c] EXCEPT !.pc = p, !.seen = row]
           t == [call[c] EXCEPT !.pc = p]
<1>1. call[c] \in Call /\ row \in SyncState
  BY Fields, Shared DEF Inv
<1>2. r \in Call /\ q \in Call /\ t \in Call
  BY <1>1, NewTyped, Literals DEF Call
<1>3. Answering(c, r) /\ Answering(c, q) /\ Answering(c, t)
  BY <1>1 DEF Answering, Call
<1>4. Good(call[c], given, applied, changes) /\ GoodRow
  BY DEF Inv, GoodCalls
<1>5. NewState.ref <= given /\ 1 .. NewState.cursor \subseteq applied
  BY Shared, Constants DEF NewState, Inv, Ref
<1>6. /\ r.pc = p /\ r.seen = NewState /\ r.note = call[c].note /\ r.job = {} /\ r.kind = call[c].kind
      /\ q.pc = p /\ q.seen = row /\ q.note = call[c].note /\ q.job = {} /\ q.kind = call[c].kind
      /\ t.pc = p /\ t.seen = call[c].seen /\ t.note = call[c].note /\ t.job = {}
      /\ t.kind = call[c].kind
  BY <1>1 DEF Call
<1>7. Good(r, given, applied, changes)
  BY <1>4, <1>5, <1>6 DEF Good
<1>8. Good(q, given, applied, changes)
  BY <1>4, <1>6 DEF Good, GoodRow
<1>9. Good(t, given, applied, changes)
  BY <1>4, <1>6 DEF Good
<1>. QED  BY <1>2, <1>3, <1>7, <1>8, <1>9

\* A call that holds no job is not at its commit, and a coordinator's call does
\* not answer for a notification.
LEMMA Standing ==
  ASSUME Inv, NEW c \in Calls
  PROVE  /\ Good(call[c], given, applied, changes)
         /\ call[c].pc # "commit" => call[c].job = {}
         /\ call[c].pc \notin NotifyPc => call[c].kind # "notify"
BY DEF Inv, GoodCalls, Good

\* A call that returns, from elsewhere than the callback and the commit.
LEMMA Returns ==
  ASSUME Inv, NEW c \in Calls, call[c].pc \notin NotifyPc \cup {"commit"}
  PROVE  Idle \in Call /\ Good(Idle, given, applied, changes) /\ Answering(c, Idle)
BY NewTyped, IdleGood, Shared, Standing DEF Answering, Inv

\* A call that starts: with the row, or with nothing.
LEMMA Starting ==
  ASSUME Inv, NEW c \in Calls, call[c].pc = "idle", NEW k \in CallKind \ {"notify"},
         NEW p \in Pc \ {"record", "commit"}
  PROVE  LET r == [Idle EXCEPT !.kind = k, !.pc = p, !.seen = row]
             t == [Idle EXCEPT !.kind = k, !.pc = p]
         IN  /\ r \in Call /\ Good(r, given, applied, changes) /\ Answering(c, r)
             /\ t \in Call /\ Good(t, given, applied, changes) /\ Answering(c, t)
<1> DEFINE r == [Idle EXCEPT !.kind = k, !.pc = p, !.seen = row]
           t == [Idle EXCEPT !.kind = k, !.pc = p]
<1>1. Idle \in Call /\ Good(Idle, given, applied, changes) /\ row \in SyncState
  BY NewTyped, IdleGood, Shared DEF Inv
<1>2. r \in Call /\ t \in Call
  BY <1>1 DEF Call
<1>3. "idle" \notin NotifyPc
  BY DEF NotifyPc
<1>4. Answering(c, r) /\ Answering(c, t)
  BY <1>3, Standing DEF Answering
<1>5. /\ r.kind = k /\ r.pc = p /\ r.seen = row /\ r.job = {} /\ r.note = Idle.note
      /\ t.kind = k /\ t.pc = p /\ t.seen = Idle.seen /\ t.job = {} /\ t.note = Idle.note
  BY <1>1 DEF Call, Idle
<1>6. Good(r, given, applied, changes)
  BY <1>1, <1>5 DEF Good, Inv, GoodRow
<1>7. Good(t, given, applied, changes)
  BY <1>1, <1>5 DEF Good
<1>. QED  BY <1>2, <1>4, <1>6, <1>7

\* A copy of the row saved over an unchanged reference.
LEMMA Saves ==
  ASSUME Inv, NEW c \in Calls, RefUnchanged(c), NEW s \in SyncState,
         s.ref = call[c].seen.ref, s.cursor = call[c].seen.cursor, row' = s
  PROVE  /\ row' \in SyncState /\ row.ref <= row'.ref /\ row'.ref <= given
         /\ 1 .. row'.cursor \subseteq applied
<1>1. row \in SyncState /\ row.ref \in Int
  BY Shared, StateFields DEF Inv
<1>. QED  BY <1>1, Standing DEF RefUnchanged, Good, Inv, GoodRow

-----------------------------------------------------------------------------
(* The steps of the coordinator.                                           *)

LEMMA CoordinatorKeeps ==
  ASSUME Inv, NEW c \in Calls, CoordinatorStep(c)
  PROVE  Inv' /\ row.ref <= row'.ref
<1>. USE DEF Quiet
<1>1. ASSUME UNCHANGED row, Still, call[c].pc = "idle",
             NEW k \in CallKind \ {"notify"}, NEW p \in Pc \ {"record", "commit"},
             \/ call' = [call EXCEPT ![c] = [Idle EXCEPT !.kind = k, !.pc = p, !.seen = row]]
             \/ call' = [call EXCEPT ![c] = [Idle EXCEPT !.kind = k, !.pc = p]]
      PROVE  Inv' /\ row.ref <= row'.ref
  BY <1>1, Starting, QuietStepOfCall
<1>2. ASSUME UNCHANGED row, Still, call[c].pc \notin NotifyPc \cup {"commit"},
             NEW p \in Pc \ {"record", "commit"},
             \/ Return(c) \/ Goto(c, p) \/ Reread(c, p)
      PROVE  Inv' /\ row.ref <= row'.ref
  <2>1. call[c].job = {} /\ (call[c].kind = "notify" => p \in NotifyPc) /\ call[c] \in Call
    BY <1>2, Standing, Fields DEF Inv
  <2>2. CASE Return(c)
    BY <1>2, <2>2, Returns, QuietStepOfCall DEF Return
  <2>3. CASE Goto(c, p)
    <3>1. call' = [call EXCEPT ![c] = [call[c] EXCEPT !.pc = p, !.seen = NewState, !.at = 0]]
      BY <2>3 DEF Goto, Inv, TypeOK
    <3>. QED  BY <1>2, <2>1, <3>1, GoesOn, QuietStepOfCall
  <2>4. CASE Reread(c, p)
    <3>1. call' = [call EXCEPT ![c] = [call[c] EXCEPT !.pc = p, !.seen = row]]
      BY <2>4 DEF Reread, Inv, TypeOK
    <3>. QED  BY <1>2, <2>1, <3>1, GoesOn, QuietStepOfCall
  <2>. QED  BY <1>2, <2>2, <2>3, <2>4
<1>3. ASSUME Still, RefUnchanged(c), call[c].pc \notin NotifyPc \cup {"commit"}, Return(c),
             NEW s \in SyncState, s.ref = call[c].seen.ref, s.cursor = call[c].seen.cursor,
             row' = s
      PROVE  Inv' /\ row.ref <= row'.ref
  BY <1>3, Returns, Saves, QuietStep DEF Return
<1>4. Still <=> Quiet
  BY DEF Still
<1>5. call[c] \in Call /\ call[c].seen \in SyncState /\ call[c].ref \in Ref
  BY Fields DEF Inv
<1>6. /\ "host" \in Pc \ {"record", "commit"} /\ "read_lease" \in Pc \ {"record", "commit"}
      /\ "save_failed" \in Pc \ {"record", "commit"} /\ "unwatch" \in Pc \ {"record", "commit"}
      /\ "read_failed" \in Pc \ {"record", "commit"}
      /\ {"ensure", "renew", "mark", "cancel"} \subseteq CallKind \ {"notify"}
      /\ \A p \in {"host", "read_lease", "record", "save_failed", "read_failed", "unwatch",
                   "save_cancelled"} : p \notin NotifyPc \cup {"commit"}
  BY Literals DEF NotifyPc
<1>7. CASE EnsureSubscription(c)
  BY <1>1, <1>4, <1>6, <1>7 DEF EnsureSubscription, Start
<1>8. CASE RenewIfDue(c)
  BY <1>1, <1>4, <1>6, <1>8 DEF RenewIfDue
<1>9. CASE ReadLease(c)
  BY <1>2, <1>4, <1>6, <1>9 DEF ReadLease
<1>10. CASE HostWatches(c)
  <2>1. PICK r \in 1 .. MaxRefs :
          /\ r = IF watch # 0 THEN watch ELSE given + 1
          /\ watch' = r /\ given' = LaterOf(given, r) /\ low' = IF low < r THEN low ELSE r - 1
          /\ call' = [call EXCEPT ![c].pc = "record", ![c].ref = r]
    BY <1>10 DEF HostWatches
  <2> DEFINE t == [call[c] EXCEPT !.pc = "record", !.ref = r]
  <2>2. r \in Ref /\ r \in Int /\ given \in Int /\ given \in Ref /\ changes \in Time /\ changes \in Int
    BY <2>1, Constants, Shared DEF Ref, Inv
  <2>3. r >= given /\ given' = r /\ watch' = r
    BY <2>1, <2>2 DEF Inv, GoodRow, LaterOf
  <2>4. UNCHANGED <<overlapping, conn, row, changes, sent, inbox, applied, dropped>>
    BY <1>10 DEF HostWatches
  <2>5. t \in Call /\ t.pc = "record" /\ t.ref = r /\ t.seen = call[c].seen /\ t.job = call[c].job
          /\ t.kind = call[c].kind /\ t.note = call[c].note
    BY <1>5, <2>2, Literals DEF Call
  <2>6. call' = [call EXCEPT ![c] = t]
    BY <2>1 DEF Inv, TypeOK
  <2>7. Onward /\ Recording
    BY <2>2, <2>3, <2>4 DEF Onward, Recording, inbox
  <2>8. call[c].pc = "host" /\ call[c].job = {} /\ call[c].kind # "notify"
    BY <1>6, <1>10, Standing DEF HostWatches
  <2>9. call[c].seen.ref <= r
    BY <1>5, <2>2, <2>3, Standing, StateFields DEF Good
  <2>10. Good(t, given', applied', changes')
    BY <2>3, <2>4, <2>5, <2>8, <2>9, <2>2, Standing DEF Good
  <2>11. call' \in [Calls -> Call] /\ GoodCalls'
    BY <2>5, <2>6, <2>7, <2>10, CallsKept
  <2>12. Accounted'
    BY <2>4, <2>5, <2>6, <2>7, AccountedKept DEF Answering, inbox
  <2>13. row.ref <= given' /\ row.ref <= row'.ref
    BY <2>2, <2>3, <2>4, Shared, StateFields DEF Inv, GoodRow
  <2>14. GoodRow'
    BY <2>3, <2>4, <2>13 DEF Inv, GoodRow, inbox
  <2>15. low' \in Ref
    <3>1. low \in Ref /\ r - 1 \in Ref
      BY <2>2, Constants DEF Inv, TypeOK, Ref
    <3>. QED  BY <2>1, <3>1
  <2>16. TypeOK'
    BY <2>2, <2>3, <2>4, <2>11, <2>15 DEF Inv, TypeOK, inbox
  <2>. QED  BY <2>11, <2>12, <2>13, <2>14, <2>16 DEF Inv
<1>11. CASE HostFails(c)
  BY <1>2, <1>4, <1>6, <1>11 DEF HostFails, Fails
<1>12. CASE RecordLease(c)
  <2>1. CASE RefUnchanged(c)
    <3>1. Leased(c) \in SyncState /\ Leased(c).ref = call[c].ref
            /\ Leased(c).cursor = call[c].seen.cursor
      BY <1>5, Literals DEF Leased, SyncState
    <3>2. row' = Leased(c) /\ Return(c) /\ Still /\ call[c].pc = "record"
      BY <1>4, <1>12, <2>1 DEF RecordLease
    <3>3. /\ row' \in SyncState /\ row.ref <= row'.ref /\ row'.ref <= given
          /\ 1 .. row'.cursor \subseteq applied
      BY <2>1, <3>1, <3>2, Standing DEF Good, RefUnchanged
    <3>. QED  BY <1>6, <3>2, <3>3, Returns, QuietStep DEF Return
  <2>2. CASE ~RefUnchanged(c)
    BY <1>2, <1>4, <1>6, <1>12, <2>2 DEF RecordLease, Fails
  <2>. QED  BY <2>1, <2>2
<1>13. CASE MarkSubscription(c)
  BY <1>1, <1>4, <1>6, <1>13 DEF MarkSubscription, Start
<1>14. CASE ReadFailedRenewal(c)
  BY <1>2, <1>4, <1>6, <1>14 DEF ReadFailedRenewal
<1>15. ASSUME call[c].pc \in {"save_failed", "save_cancelled"}, Return(c), Still,
              NEW s \in {"failed", "cancelled"},
              row' = IF RefUnchanged(c) THEN [call[c].seen EXCEPT !.status = s] ELSE row
       PROVE  Inv' /\ row.ref <= row'.ref
  <2> DEFINE saved == [call[c].seen EXCEPT !.status = s]
  <2>1. saved \in SyncState /\ saved.ref = call[c].seen.ref /\ saved.cursor = call[c].seen.cursor
    BY <1>5, <1>15, Literals DEF SyncState
  <2>2. CASE RefUnchanged(c)
    BY <1>3, <1>6, <1>15, <2>1, <2>2
  <2>3. CASE ~RefUnchanged(c)
    BY <1>2, <1>6, <1>15, <2>3
  <2>. QED  BY <2>2, <2>3
<1>16. CASE SaveFailed(c)
  BY <1>4, <1>15, <1>16 DEF SaveFailed
<1>17. CASE CancelSubscription(c)
  BY <1>1, <1>4, <1>6, <1>17 DEF CancelSubscription, Start
<1>18. CASE HostCancels(c)
  <2> DEFINE t == [call[c] EXCEPT !.pc = "save_cancelled"]
  <2>1. /\ watch' \in {0, watch} /\ dropped' = call[c].seen.ref /\ call[c].pc = "unwatch"
        /\ UNCHANGED <<overlapping, conn, row, given, low, changes, sent, inbox, applied>>
    BY <1>18 DEF HostCancels
  <2>2. call' = [call EXCEPT ![c] = t]
    BY <1>18 DEF HostCancels, Inv, TypeOK
  <2>3. call[c].job = {} /\ call[c].kind # "notify"
    BY <1>6, <2>1, Standing
  <2>4. t \in Call /\ Good(t, given, applied, changes) /\ Answering(c, t)
    BY <2>3, GoesOn, Literals
  <2>5. Onward /\ Recording
    BY <2>1, Shared DEF Onward, Recording, inbox, Inv
  <2>6. call' \in [Calls -> Call] /\ GoodCalls'
    BY <2>1, <2>2, <2>4, <2>5, CallsKept
  <2>7. Accounted'
    BY <2>1, <2>2, <2>4, <2>5, AccountedKept DEF inbox
  <2>8. GoodRow' /\ row.ref <= row'.ref
    BY <2>1, Shared, StateFields DEF Inv, GoodRow, inbox
  <2>9. TypeOK'
    BY <1>5, <2>1, <2>6, StateFields, Literals DEF Inv, TypeOK, inbox
  <2>. QED  BY <2>6, <2>7, <2>8, <2>9 DEF Inv
<1>19. CASE SaveCancelled(c)
  BY <1>4, <1>15, <1>19 DEF SaveCancelled
<1>. QED
  BY <1>7, <1>8, <1>9, <1>10, <1>11, <1>12, <1>13, <1>14, <1>16, <1>17, <1>18, <1>19
  DEF CoordinatorStep

-----------------------------------------------------------------------------
(* The steps of the callback.                                              *)

LEMMA RouteFailsKeeps ==
  ASSUME Inv, NEW c \in Calls, RouteFails(c), call[c].pc # "commit"
  PROVE  Inv' /\ row.ref <= row'.ref
<1>1. /\ UNCHANGED <<overlapping, conn, row, provider, receipts, queue, applied, dropped>>
      /\ alarms' = alarms \cup {call[c].note} /\ call' = [call EXCEPT ![c] = Idle]
  BY DEF RouteFails, Return
<1>2. call[c].job = {} /\ call[c].note \in Note
  BY Standing, Fields DEF Inv
<1>3. Idle \in Call /\ Good(Idle, given', applied', changes')
  BY <1>1, NewTyped, IdleGood, Shared DEF Inv, provider
<1>4. Onward
  BY <1>1, Shared DEF Onward, Inv, provider
<1>5. call' \in [Calls -> Call] /\ GoodCalls'
  BY <1>1, <1>3, <1>4, CallsKept
<1>6. ASSUME NEW n, Settled(n) PROVE Settled(n)'
  <2>1. call'[c] = Idle /\ \A d \in Calls \ {c} : call'[d] = call[d]
    BY <1>1 DEF Inv, TypeOK
  <2>2. CASE AtWork(n)
    <3>1. PICK d \in Calls : call[d].kind = "notify" /\ call[d].note = n
      BY <2>2 DEF AtWork
    <3>2. d = c => n \in alarms'
      BY <1>1, <3>1
    <3>3. d # c => AtWork(n)'
      BY <2>1, <3>1 DEF AtWork
    <3>. QED  BY <3>2, <3>3 DEF Settled
  <2>3. CASE \E d \in Calls : n \in call[d].job
    <3>1. PICK d \in Calls : n \in call[d].job
      BY <2>3
    <3>2. n \in call'[d].job
      BY <1>2, <2>1, <3>1
    <3>. QED  BY <3>2 DEF JobPending, Settled
  <2>. QED  BY <1>1, <1>6, <2>2, <2>3 DEF Settled, JobPending
<1>7. Accounted' /\ GoodRow' /\ row.ref <= row'.ref
  <2>1. Accounted'
    BY <1>1, <1>6 DEF Inv, Accounted
  <2>. QED  BY <1>1, <2>1, Shared, StateFields DEF Inv, GoodRow, provider
<1>8. TypeOK'
  BY <1>1, <1>2, <1>5 DEF Inv, TypeOK, provider
<1>. QED  BY <1>5, <1>7, <1>8 DEF Inv

LEMMA ReceiveKeeps ==
  ASSUME Inv, NEW c \in Calls, NEW n \in sent, ReceiveNotification(c, n)
  PROVE  Inv' /\ row.ref <= row'.ref
<1>1. /\ receipts' = receipts \cup {Identity(n)}
      /\ UNCHANGED <<overlapping, conn, row, provider, queue, applied, dropped>>
  BY DEF ReceiveNotification, SaveReceipt
<1>2. n \in Note /\ n.at <= changes /\ n.at \in Int /\ n.ref \in Ref /\ row \in SyncState
        /\ changes \in Int
  BY NoteFields, Shared DEF Inv, TypeOK, GoodRow
<1>3. Identity(n) \in Note
  BY <1>2, Literals DEF Identity, Note
<1>4. Onward
  BY <1>1, Shared DEF Onward, Inv, provider
<1>5. GoodRow' /\ row.ref <= row'.ref
  BY <1>1, Shared, StateFields DEF Inv, GoodRow, provider
<1>6. CASE Recordable(n)
  <2>1. call[c].pc = "idle" /\ UNCHANGED alarms
    BY <1>6 DEF ReceiveNotification
  <2>2. PICK at \in n.at .. changes :
          call' = [call EXCEPT ![c] = [Idle EXCEPT !.kind = "notify", !.pc = "save_notified",
                                            !.note = n, !.seen = row, !.at = at]]
    BY <1>6 DEF ReceiveNotification
  <2> DEFINE r == [Idle EXCEPT !.kind = "notify", !.pc = "save_notified", !.note = n,
                               !.seen = row, !.at = at]
  <2>3. at \in Time
    BY <1>2, NoteFields, Shared, Constants DEF Inv, Time
  <2>4. r \in Call
    BY <1>2, <2>3, NewTyped, Literals DEF Call, NotifyPc
  <2>5. r.pc = "save_notified" /\ r.kind = "notify" /\ r.note = n /\ r.seen = row /\ r.job = {}
    BY NewTyped DEF Call, Idle
  <2>6. Good(r, given', applied', changes')
    BY <1>1, <1>2, <2>5 DEF Good, NotifyPc, Inv, GoodRow, provider
  <2>7. call' \in [Calls -> Call] /\ GoodCalls'
    BY <1>4, <2>2, <2>4, <2>6, CallsKept
  <2>8. call[c].kind # "notify" /\ call[c].job = {}
    BY <2>1, Standing DEF NotifyPc
  <2>9. Recording
    BY <1>1, <2>1 DEF Recording
  <2>10. call'[c] = r
    BY <2>2 DEF Inv, TypeOK
  <2>11. Accounted'
    <3>1. ASSUME NEW m \in receipts', ~GraphIds, m.kind # "reauthorize" PROVE Settled(m)'
      <4>1. CASE m \in receipts
        <5>1. Settled(m)
          BY <3>1, <4>1 DEF Inv, Accounted
        <5>. QED  BY <2>2, <2>4, <2>8, <2>9, <5>1, SettledKept DEF Answering
      <4>2. CASE m \notin receipts
        <5>1. m = n
          BY <1>1, <3>1, <4>2 DEF Identity
        <5>. QED  BY <2>5, <2>10, <5>1 DEF Settled, AtWork
      <4>. QED  BY <4>1, <4>2
    <3>. QED  BY <3>1, <1>1 DEF Accounted
  <2>12. TypeOK'
    BY <1>1, <1>3, <2>1, <2>7 DEF Inv, TypeOK, provider
  <2>. QED  BY <1>5, <2>7, <2>11, <2>12 DEF Inv
<1>7. CASE ~Recordable(n)
  <2>1. alarms' = alarms \cup {n} /\ UNCHANGED call
    BY <1>7 DEF ReceiveNotification
  <2>2. Recording
    BY <1>1, <2>1 DEF Recording
  <2>3. call' \in [Calls -> Call] /\ GoodCalls'
    BY <1>4, <2>1, CallsKeptByAll
  <2>4. Accounted'
    <3>1. ASSUME NEW m \in receipts', ~GraphIds, m.kind # "reauthorize" PROVE Settled(m)'
      <4>1. CASE m \in receipts
        <5>1. Settled(m)
          BY <3>1, <4>1 DEF Inv, Accounted
        <5>. QED  BY <2>1, <2>2, <5>1 DEF Settled, AtWork, JobPending, Recording
      <4>2. CASE m \notin receipts
        <5>1. m = n
          BY <1>1, <3>1, <4>2 DEF Identity
        <5>. QED  BY <2>1, <5>1 DEF Settled
      <4>. QED  BY <4>1, <4>2
    <3>. QED  BY <3>1, <1>1 DEF Accounted
  <2>5. TypeOK'
    BY <1>1, <1>2, <1>3, <2>1, <2>3 DEF Inv, TypeOK, provider
  <2>. QED  BY <1>5, <2>3, <2>4, <2>5 DEF Inv
<1>. QED  BY <1>6, <1>7

LEMMA CallbackKeeps ==
  ASSUME Inv, NEW c \in Calls, CallbackStep(c)
  PROVE  Inv' /\ row.ref <= row'.ref
<1>1. call[c] \in Call /\ call[c].seen \in SyncState /\ call[c].at \in Time
  BY Fields DEF Inv
<1>2. ASSUME NEW n \in sent, ReceiveNotification(c, n) PROVE Inv' /\ row.ref <= row'.ref
  BY <1>2, ReceiveKeeps
<1>3. ASSUME Still, call[c].pc # "commit", RefUnchanged(c), NEW s \in SyncState,
             s.ref = call[c].seen.ref, s.cursor = call[c].seen.cursor, row' = s,
             NEW p \in NotifyPc, Goto(c, p)
      PROVE  Inv' /\ row.ref <= row'.ref
  <2> DEFINE r == [call[c] EXCEPT !.pc = p, !.seen = NewState, !.at = 0]
  <2>1. call' = [call EXCEPT ![c] = r]
    BY <1>3 DEF Goto, Inv, TypeOK
  <2>2. p \in Pc /\ p \notin {"record", "commit"} /\ call[c].job = {}
    BY <1>3, Literals, Standing DEF NotifyPc
  <2>3. r \in Call /\ Good(r, given, applied, changes) /\ Answering(c, r)
    BY <1>3, <2>2, GoesOn
  <2>. QED  BY <1>3, <2>1, <2>3, Saves, QuietStep
<1>4. CASE RecordNotification(c)
  <2>1. CASE RefUnchanged(c)
    <3>1. Recorded(c) \in SyncState /\ Recorded(c).ref = call[c].seen.ref
            /\ Recorded(c).cursor = call[c].seen.cursor
      BY <1>1, StateFields, Literals DEF Recorded, SyncState, LaterOf
    <3>2. AfterRecord(c) \in NotifyPc
      BY DEF AfterRecord, NotifyPc
    <3>. QED  BY <1>3, <1>4, <2>1, <3>1, <3>2 DEF RecordNotification, Still
  <2>. QED  BY <1>4, <2>1, RouteFailsKeeps DEF RecordNotification
<1>5. CASE ReadForRenewal(c)
  <2> DEFINE r == [call[c] EXCEPT !.pc = "save_renewal", !.seen = row]
  <2>1. call' = [call EXCEPT ![c] = r]
    BY <1>5 DEF ReadForRenewal, Reread, Inv, TypeOK
  <2>2. "save_renewal" \in Pc /\ "save_renewal" \in NotifyPc /\ call[c].job = {}
    BY <1>5, Literals, Standing DEF NotifyPc, ReadForRenewal
  <2>3. r \in Call /\ Good(r, given, applied, changes) /\ Answering(c, r)
    BY <2>2, GoesOn
  <2>. QED  BY <1>5, <2>1, <2>3, QuietStepOfCall DEF ReadForRenewal, Still
<1>6. CASE MarkRenewalRequired(c)
  <2>1. CASE RefUnchanged(c)
    <3>1. RenewalRequired(c) \in SyncState /\ RenewalRequired(c).ref = call[c].seen.ref
            /\ RenewalRequired(c).cursor = call[c].seen.cursor
      BY <1>1, Literals DEF RenewalRequired, SyncState
    <3>2. "read_conn" \in NotifyPc
      BY DEF NotifyPc
    <3>. QED  BY <1>3, <1>6, <2>1, <3>1, <3>2 DEF MarkRenewalRequired, Still
  <2>. QED  BY <1>6, <2>1, RouteFailsKeeps DEF MarkRenewalRequired
<1>7. CASE ReadConnection(c)
  <2>1. PICK p \in {"enqueue", "save_conn"} :
          call' = [call EXCEPT ![c].rev = conn.rev, ![c].pc = p]
    BY <1>7 DEF ReadConnection
  <2> DEFINE t == [call[c] EXCEPT !.pc = p]
             r == [t EXCEPT !.rev = conn.rev]
  <2>2. p \in Pc /\ p \in NotifyPc /\ p \notin {"record", "commit"} /\ call[c].job = {}
    BY <1>7, Literals, Standing DEF NotifyPc, ReadConnection
  <2>3. t \in Call /\ Good(t, given, applied, changes) /\ Answering(c, t)
    BY <2>2, GoesOn
  <2>4. conn.rev \in 0 .. MaxRevision
    BY DEF Inv, TypeOK, Connection
  <2>5. /\ r \in Call /\ r.pc = t.pc /\ r.seen = t.seen /\ r.note = t.note /\ r.job = t.job
        /\ r.kind = t.kind /\ r.ref = t.ref /\ r.at = t.at
    BY <2>3, <2>4 DEF Call
  <2>6. Good(r, given, applied, changes) /\ Answering(c, r)
    BY <2>3, <2>5 DEF Good, Answering
  <2>7. call' = [call EXCEPT ![c] = r]
    <3>1. [call[c] EXCEPT !.rev = conn.rev, !.pc = p] = r
      BY <1>1 DEF Call
    <3>2. call' = [call EXCEPT ![c] = [call[c] EXCEPT !.rev = conn.rev, !.pc = p]]
      BY <2>1 DEF Inv, TypeOK
    <3>. QED  BY <3>1, <3>2
  <2>. QED  BY <1>7, <2>5, <2>6, <2>7, QuietStepOfCall DEF ReadConnection, Still
<1>8. CASE ApplyLifecycle(c)
  <2>1. CASE conn.rev = call[c].rev
    <3>1. /\ conn.rev < MaxRevision /\ conn' = [status |-> StatusAfter(c), rev |-> conn.rev + 1]
          /\ Goto(c, "enqueue")
          /\ UNCHANGED <<overlapping, row, provider, inbox, applied, dropped>>
      BY <1>8, <2>1 DEF ApplyLifecycle
    <3> DEFINE r == [call[c] EXCEPT !.pc = "enqueue", !.seen = NewState, !.at = 0]
    <3>2. call' = [call EXCEPT ![c] = r]
      BY <3>1 DEF Goto, Inv, TypeOK
    <3>3. "enqueue" \in Pc /\ "enqueue" \in NotifyPc /\ call[c].job = {}
      BY <1>8, Literals, Standing DEF NotifyPc, ApplyLifecycle
    <3>4. r \in Call /\ Good(r, given, applied, changes) /\ Answering(c, r)
      BY <3>3, GoesOn
    <3>5. Onward /\ Recording
      BY <3>1, Shared DEF Onward, Recording, Inv, provider, inbox
    <3>6. Good(r, given', applied', changes')
      BY <3>1, <3>4 DEF provider
    <3>7. call' \in [Calls -> Call] /\ GoodCalls'
      BY <3>2, <3>4, <3>5, <3>6, CallsKept
    <3>8. Accounted'
      BY <3>1, <3>2, <3>4, <3>5, AccountedKept DEF inbox
    <3>9. GoodRow' /\ row.ref <= row'.ref
      BY <3>1, Shared, StateFields DEF Inv, GoodRow, provider, inbox
    <3>10. conn' \in Connection
      <4>1. conn.rev + 1 \in 0 .. MaxRevision
        BY <3>1, Constants DEF Inv, TypeOK, Connection
      <4>2. StatusAfter(c) \in {"degraded", "reauthorization_required"}
        BY DEF StatusAfter
      <4>. QED  BY <3>1, <4>1, <4>2 DEF Connection, Usable
    <3>11. TypeOK'
      BY <3>1, <3>7, <3>10 DEF Inv, TypeOK, provider, inbox
    <3>. QED  BY <3>7, <3>8, <3>9, <3>11 DEF Inv
  <2>. QED  BY <1>8, <2>1, RouteFailsKeeps DEF ApplyLifecycle
<1>9. CASE EnqueueSync(c)
  <2>1. CASE call[c].note.kind # "reauthorize" /\ Refused(c)
    BY <1>9, <2>1, RouteFailsKeeps DEF EnqueueSync
  <2>2. CASE ~(call[c].note.kind # "reauthorize" /\ Refused(c))
    <3>1. /\ call' = [call EXCEPT ![c] = Idle] /\ call[c].pc = "enqueue"
          /\ UNCHANGED <<overlapping, conn, row, provider, receipts, alarms, applied, dropped>>
      BY <1>9, <2>2 DEF EnqueueSync, Return
    <3>2. /\ queue' \in {queue, queue \cup {call[c].note}}
          /\ call[c].note.kind = "reauthorize" \/ call[c].note \in queue'
      BY <1>9, <2>2 DEF EnqueueSync, Refused
    <3>3. call[c].job = {} /\ call[c].note \in Note /\ call[c].note.at <= changes
      BY <3>1, Standing, Fields DEF Inv, Good
    <3>4. Idle \in Call /\ Good(Idle, given', applied', changes')
      BY <3>1, NewTyped, IdleGood, Shared DEF Inv, provider
    <3>5. Onward
      BY <3>1, Shared DEF Onward, Inv, provider
    <3>6. call' \in [Calls -> Call] /\ GoodCalls'
      BY <3>1, <3>4, <3>5, CallsKept
    <3>7. ASSUME NEW n, Settled(n), n.kind # "reauthorize" PROVE Settled(n)'
      <4>1. call'[c] = Idle /\ \A d \in Calls \ {c} : call'[d] = call[d]
        BY <3>1 DEF Inv, TypeOK
      <4>2. CASE AtWork(n)
        <5>1. PICK d \in Calls : call[d].kind = "notify" /\ call[d].note = n
          BY <4>2 DEF AtWork
        <5>2. d = c => n \in queue'
          BY <3>2, <3>7, <5>1
        <5>3. d # c => AtWork(n)'
          BY <4>1, <5>1 DEF AtWork
        <5>. QED  BY <5>2, <5>3 DEF Settled, JobPending
      <4>3. CASE \E d \in Calls : n \in call[d].job
        <5>1. PICK d \in Calls : n \in call[d].job
          BY <4>3
        <5>2. n \in call'[d].job
          BY <3>3, <4>1, <5>1
        <5>. QED  BY <5>2 DEF JobPending, Settled
      <4>. QED  BY <3>1, <3>2, <3>7, <4>2, <4>3 DEF Settled, JobPending
    <3>8. Accounted'
      BY <3>1, <3>7 DEF Inv, Accounted
    <3>9. GoodRow' /\ row.ref <= row'.ref
      BY <3>1, <3>2, <3>3, Shared, StateFields DEF Inv, GoodRow, provider
    <3>10. TypeOK'
      BY <3>1, <3>2, <3>3, <3>6 DEF Inv, TypeOK, provider
    <3>. QED  BY <3>6, <3>8, <3>9, <3>10 DEF Inv
  <2>. QED  BY <2>1, <2>2
<1>. QED  BY <1>2, <1>4, <1>5, <1>6, <1>7, <1>8, <1>9 DEF CallbackStep

-----------------------------------------------------------------------------
(* Synchronisations, crashes, and the world outside.                       *)

LEMMA ApplyKeeps ==
  ASSUME Inv, NEW c \in Calls, NEW taken \in Taken, ApplyPage(c, taken)
  PROVE  Inv' /\ row.ref <= row'.ref
<1> DEFINE r == [Idle EXCEPT !.kind = "sync", !.pc = "commit", !.job = taken, !.at = changes,
                             !.seen = [NewState EXCEPT !.cursor = row.cursor]]
<1>1. /\ applied' = applied \cup Page(row.cursor) /\ queue' = queue \ taken
      /\ call' = [call EXCEPT ![c] = r] /\ call[c].pc = "idle"
      /\ UNCHANGED <<overlapping, conn, row, provider, receipts, alarms, dropped>>
  BY DEF ApplyPage
<1>2. taken \subseteq queue /\ taken \subseteq Note
  BY DEF Taken, Inv, TypeOK
<1>3. /\ row \in SyncState /\ row.cursor \in Time /\ row.cursor \in Int /\ row.ref \in Int
      /\ changes \in Time /\ changes \in Int /\ given \in Int
  BY Shared, StateFields DEF Inv
<1>4. 1 .. changes \subseteq applied'
  <2>1. 1 .. row.cursor \subseteq applied /\ row.cursor + 1 .. changes \subseteq applied'
    BY <1>1 DEF Inv, GoodRow, Page
  <2>. QED  BY <1>1, <1>3, <2>1
<1>5. [NewState EXCEPT !.cursor = row.cursor] \in SyncState
  BY <1>3, NewTyped DEF SyncState
<1>6. r \in Call
  BY <1>2, <1>3, <1>5, NewTyped, Literals DEF Call
<1>7. /\ r.kind = "sync" /\ r.pc = "commit" /\ r.job = taken /\ r.at = changes /\ r.note = NoNote
      /\ r.seen.cursor = row.cursor /\ r.seen.ref = 0
  BY DEF Idle, NewState
<1>8. Good(r, given', applied', changes')
  <2>1. \A n \in taken : 1 .. n.at \subseteq applied' /\ n.at <= changes
    BY <1>2, <1>3, <1>4, NoteFields DEF Inv, GoodRow
  <2>2. 0 <= given /\ NoNote.at <= changes
    BY <1>3, Shared, Constants DEF Inv, Ref, Time, NoNote
  <2>. QED  BY <1>1, <1>4, <1>7, <2>1, <2>2 DEF Good, Inv, GoodRow, provider
<1>9. Onward
  BY <1>1, Shared DEF Onward, Inv, provider
<1>10. call' \in [Calls -> Call] /\ GoodCalls'
  BY <1>1, <1>6, <1>8, <1>9, CallsKept
<1>11. ASSUME NEW n, Settled(n) PROVE Settled(n)'
  <2>1. call'[c] = r /\ \A d \in Calls \ {c} : call'[d] = call[d]
    BY <1>1 DEF Inv, TypeOK
  <2>2. call[c].kind # "notify" /\ call[c].job = {}
    BY <1>1, Standing DEF NotifyPc
  <2>3. CASE AtWork(n)
    BY <2>1, <2>2, <2>3 DEF AtWork, Settled
  <2>4. CASE n \in queue
    <3>1. n \in queue' \/ n \in call'[c].job
      BY <1>1, <1>7, <2>1, <2>4
    <3>. QED  BY <3>1 DEF JobPending, Settled
  <2>5. CASE \E d \in Calls : n \in call[d].job
    <3>1. PICK d \in Calls : n \in call[d].job
      BY <2>5
    <3>2. n \in call'[d].job
      BY <2>1, <2>2, <3>1
    <3>. QED  BY <3>2 DEF JobPending, Settled
  <2>. QED  BY <1>1, <1>11, <2>3, <2>4, <2>5 DEF Settled, JobPending
<1>12. Accounted'
  BY <1>1, <1>11 DEF Inv, Accounted
<1>13. GoodRow' /\ row.ref <= row'.ref
  BY <1>1, <1>3 DEF Inv, GoodRow, provider
<1>14. TypeOK'
  <2>1. Page(row.cursor) \subseteq Time
    BY <1>3, Constants DEF Page, Time
  <2>. QED  BY <1>1, <1>10, <2>1 DEF Inv, TypeOK, provider
<1>. QED  BY <1>10, <1>12, <1>13, <1>14 DEF Inv

LEMMA CommitKeeps ==
  ASSUME Inv, NEW c \in Calls, CommitCursor(c)
  PROVE  Inv' /\ row.ref <= row'.ref
<1>1. /\ call' = [call EXCEPT ![c] = Idle] /\ call[c].pc = "commit"
      /\ UNCHANGED <<overlapping, conn, provider, receipts, queue, applied, dropped>>
  BY DEF CommitCursor, Return
<1>2. row \in SyncState /\ row.ref \in Int /\ call[c].at \in Time /\ call[c].job \subseteq Note
  BY Shared, StateFields, Fields DEF Inv
<1>3. Good(call[c], given, applied, changes) /\ call[c].kind # "notify"
  BY <1>1, Standing DEF NotifyPc
<1>4. \/ row' = [row EXCEPT !.cursor = call[c].at] /\ UNCHANGED alarms
      \/ row' = row /\ alarms' = alarms \cup call[c].job
  BY DEF CommitCursor
<1>5. row' \in SyncState /\ row'.ref = row.ref /\ 1 .. row'.cursor \subseteq applied
  BY <1>1, <1>2, <1>3, <1>4 DEF SyncState, Good, Inv, GoodRow
<1>6. Idle \in Call /\ Good(Idle, given', applied', changes')
  BY <1>1, NewTyped, IdleGood, Shared DEF Inv, provider
<1>7. Onward
  BY <1>1, Shared DEF Onward, Inv, provider
<1>8. call' \in [Calls -> Call] /\ GoodCalls'
  BY <1>1, <1>6, <1>7, CallsKept
<1>9. ASSUME NEW n, Settled(n) PROVE Settled(n)'
  <2>1. call'[c] = Idle /\ \A d \in Calls \ {c} : call'[d] = call[d]
    BY <1>1 DEF Inv, TypeOK
  <2>2. CASE AtWork(n)
    BY <1>3, <2>1, <2>2 DEF AtWork, Settled
  <2>3. CASE \E d \in Calls : n \in call[d].job
    <3>1. PICK d \in Calls : n \in call[d].job
      BY <2>3
    <3>2. d # c => JobPending(n)'
      BY <2>1, <3>1 DEF JobPending
    <3>3. d = c => 1 .. n.at \subseteq applied'
      BY <1>1, <1>3, <3>1 DEF Good
    <3>. QED  BY <3>2, <3>3 DEF Settled
  <2>. QED  BY <1>1, <1>4, <1>9, <2>2, <2>3 DEF Settled, JobPending
<1>10. Accounted'
  BY <1>1, <1>9 DEF Inv, Accounted
<1>11. GoodRow' /\ row.ref <= row'.ref
  BY <1>1, <1>2, <1>5 DEF Inv, GoodRow, provider
<1>12. TypeOK'
  BY <1>1, <1>2, <1>4, <1>5, <1>8 DEF Inv, TypeOK, provider
<1>. QED  BY <1>8, <1>10, <1>11, <1>12 DEF Inv

LEMMA CrashKeeps ==
  ASSUME Inv, NEW c \in Calls, Crash(c)
  PROVE  Inv' /\ row.ref <= row'.ref
<1>1. /\ call' = [call EXCEPT ![c] = Idle] /\ queue' = queue \cup call[c].job
      /\ alarms' = IF call[c].kind = "notify" THEN alarms \cup {call[c].note} ELSE alarms
      /\ UNCHANGED <<overlapping, conn, row, provider, receipts, applied, dropped>>
  BY DEF Crash, Return
<1>2. call[c].job \subseteq Note /\ call[c].note \in Note
  BY Fields DEF Inv
<1>3. Good(call[c], given, applied, changes)
  BY Standing
<1>4. Idle \in Call /\ Good(Idle, given', applied', changes')
  BY <1>1, NewTyped, IdleGood, Shared DEF Inv, provider
<1>5. Onward
  BY <1>1, Shared DEF Onward, Inv, provider
<1>6. call' \in [Calls -> Call] /\ GoodCalls'
  BY <1>1, <1>4, <1>5, CallsKept
<1>7. ASSUME NEW n, Settled(n) PROVE Settled(n)'
  <2>1. call'[c] = Idle /\ \A d \in Calls \ {c} : call'[d] = call[d]
    BY <1>1 DEF Inv, TypeOK
  <2>2. CASE AtWork(n)
    <3>1. PICK d \in Calls : call[d].kind = "notify" /\ call[d].note = n
      BY <2>2 DEF AtWork
    <3>2. d = c => n \in alarms'
      BY <1>1, <3>1
    <3>3. d # c => AtWork(n)'
      BY <2>1, <3>1 DEF AtWork
    <3>. QED  BY <3>2, <3>3 DEF Settled
  <2>3. CASE \E d \in Calls : n \in call[d].job
    <3>1. PICK d \in Calls : n \in call[d].job
      BY <2>3
    <3>2. JobPending(n)'
      BY <1>1, <2>1, <3>1 DEF JobPending
    <3>. QED  BY <3>2 DEF Settled
  <2>. QED  BY <1>1, <1>7, <2>2, <2>3 DEF Settled, JobPending
<1>8. Accounted'
  BY <1>1, <1>7 DEF Inv, Accounted
<1>9. GoodRow' /\ row.ref <= row'.ref
  BY <1>1, <1>2, <1>3, Shared, StateFields DEF Inv, GoodRow, provider, Good
<1>10. TypeOK'
  BY <1>1, <1>2, <1>6 DEF Inv, TypeOK, provider
<1>. QED  BY <1>6, <1>8, <1>9, <1>10 DEF Inv

\* Steps that leave the calls, the row, the projections and the receipts alone.
LEMMA OutsideKeeps ==
  ASSUME Inv, UNCHANGED <<overlapping, row, receipts, applied, call, dropped>>,
         conn' \in Connection, watch' \in Ref, given' \in Ref, low' \in Ref, changes' \in Time,
         sent' \in SUBSET Note, queue' \in SUBSET Note, alarms' \in SUBSET Note,
         given' = given, watch' \in {0, watch}, changes <= changes',
         \A n \in sent' \cup queue' : n.at <= changes',
         alarms \subseteq alarms', queue \subseteq queue' \cup alarms'
  PROVE  Inv' /\ row.ref <= row'.ref
<1>1. Onward
  BY DEF Onward, Inv, TypeOK, Ref
<1>2. call' \in [Calls -> Call] /\ GoodCalls'
  BY <1>1, CallsKeptByAll
<1>3. ASSUME NEW n, Settled(n) PROVE Settled(n)'
  BY <1>3 DEF Settled, AtWork, JobPending
<1>4. Accounted'
  BY <1>3 DEF Inv, Accounted
<1>5. GoodRow' /\ row.ref <= row'.ref
  BY Shared, StateFields DEF Inv, GoodRow
<1>6. TypeOK'
  BY <1>2 DEF Inv, TypeOK
<1>. QED  BY <1>2, <1>4, <1>5, <1>6 DEF Inv

LEMMA OutsideTyped ==
  ASSUME Inv
  PROVE  /\ conn \in Connection /\ watch \in Ref /\ given \in Ref /\ low \in Ref
         /\ changes \in Time /\ changes \in Int /\ changes <= changes
         /\ sent \in SUBSET Note /\ queue \in SUBSET Note /\ alarms \in SUBSET Note
         /\ \A n \in sent \cup queue : n.at <= changes /\ n.at \in Int
         /\ conn.rev < MaxRevision =>
              \A s \in Usable \cup {"reauthorization_required"} :
                [status |-> s, rev |-> conn.rev + 1] \in Connection
         /\ \A k \in {"changed", "missed", "removed", "reauthorize"}, t \in Time :
              [kind |-> k, ref |-> watch, at |-> t] \in Note
<1>1. conn.rev < MaxRevision => conn.rev + 1 \in 0 .. MaxRevision
  BY Constants DEF Inv, TypeOK, Connection
<1>2. \A n \in sent \cup queue : n.at \in Int
  BY NoteFields DEF Inv, TypeOK
<1>3. changes \in Time /\ changes \in Int /\ watch \in Ref
  BY Shared DEF Inv
<1>. QED  BY <1>1, <1>2, <1>3 DEF Inv, TypeOK, GoodRow, Connection, Note

LEMMA OutsideStep ==
  ASSUME Inv,
         \/ \E taken \in Taken : SyncFails(taken)
         \/ \E n \in sent : ReplayReceipt(n)
         \/ MailboxChanges \/ ProviderRemovesWatch \/ ProviderAsksReauthorization
         \/ WatchLapses \/ OwnerReactivates \/ \E r \in 1 .. given : LeaseRunsLow(r)
  PROVE  Inv' /\ row.ref <= row'.ref
<1>. USE DEF provider, inbox
<1>1. ASSUME NEW taken \in Taken, SyncFails(taken) PROVE Inv' /\ row.ref <= row'.ref
  <2>1. taken \subseteq queue
    BY DEF Taken
  <2>2. conn' \in Connection
    BY <1>1, OutsideTyped DEF SyncFails, Usable
  <2>. QED  BY <1>1, <2>1, <2>2, OutsideTyped, OutsideKeeps DEF SyncFails
<1>2. ASSUME NEW n \in sent, ReplayReceipt(n) PROVE Inv' /\ row.ref <= row'.ref
  BY <1>2, OutsideTyped, OutsideKeeps DEF ReplayReceipt
<1>3. CASE MailboxChanges
  <2>1. /\ changes' = changes + 1 /\ changes < MaxChanges
        /\ UNCHANGED <<overlapping, conn, row, watch, given, low, receipts, queue, alarms,
                       applied, call, dropped>>
    BY <1>3 DEF MailboxChanges
  <2>2. changes' \in Time /\ changes <= changes' /\ changes' \in Int
    BY <2>1, OutsideTyped, Constants DEF Time
  <2>3. sent' = sent \/ \E k \in {"changed", "missed"} :
                          sent' = sent \cup {[kind |-> k, ref |-> watch, at |-> changes']}
    BY <1>3, <2>1 DEF MailboxChanges, Notified
  <2>4. sent' \in SUBSET Note /\ \A n \in sent' \cup queue : n.at <= changes'
    BY <2>1, <2>2, <2>3, OutsideTyped
  <2>. QED  BY <2>1, <2>2, <2>4, OutsideTyped, OutsideKeeps
<1>4. CASE ProviderRemovesWatch
  <2>1. 0 \in Ref
    BY Literals
  <2>. QED  BY <1>4, <2>1, OutsideTyped, OutsideKeeps DEF ProviderRemovesWatch, Notified
<1>5. CASE ProviderAsksReauthorization
  BY <1>5, OutsideTyped, OutsideKeeps DEF ProviderAsksReauthorization, Notified
<1>6. CASE WatchLapses
  <2>1. 0 \in Ref
    BY Literals
  <2>. QED  BY <1>6, <2>1, OutsideTyped, OutsideKeeps DEF WatchLapses
<1>7. CASE OwnerReactivates
  BY <1>7, OutsideTyped, OutsideKeeps DEF OwnerReactivates, Usable
<1>8. ASSUME NEW r \in 1 .. given, LeaseRunsLow(r) PROVE Inv' /\ row.ref <= row'.ref
  <2>1. r \in Ref
    BY OutsideTyped, Constants DEF Ref
  <2>. QED  BY <1>8, <2>1, OutsideTyped, OutsideKeeps DEF LeaseRunsLow
<1>. QED  BY <1>1, <1>2, <1>3, <1>4, <1>5, <1>6, <1>7, <1>8

-----------------------------------------------------------------------------
(* The theorems.                                                           *)

LEMMA InvInit == Init => Inv
<1>. SUFFICES ASSUME Init PROVE Inv
  OBVIOUS
<1>1. TypeOK
  BY NewTyped, Literals DEF Init, TypeOK, NewConnection, Connection, Usable
<1>2. ASSUME NEW c \in Calls PROVE Good(call[c], given, applied, changes)
  BY IdleGood, Literals DEF Init
<1>3. GoodCalls /\ GoodRow /\ Accounted
  BY <1>2 DEF Init, GoodCalls, GoodRow, Accounted, NewState
<1>. QED  BY <1>1, <1>3 DEF Inv

LEMMA InvNext ==
  ASSUME Inv, [Next]_vars
  PROVE  Inv' /\ row.ref <= row'.ref
<1>1. CASE UNCHANGED vars
  <2>1. Inv'
    BY <1>1 DEF Inv, TypeOK, GoodCalls, GoodRow, Accounted, Settled, AtWork, JobPending, vars,
                provider, inbox
  <2>. QED  BY <1>1, <2>1, Shared, StateFields DEF Inv, vars
<1>2. ASSUME NEW c \in Calls,
             CallbackStep(c) \/ CoordinatorStep(c) \/ SyncStep(c) \/ Crash(c)
      PROVE  Inv' /\ row.ref <= row'.ref
  BY <1>2, CallbackKeeps, CoordinatorKeeps, ApplyKeeps, CommitKeeps, CrashKeeps DEF SyncStep
<1>. QED  BY <1>1, <1>2, OutsideStep DEF Next, Calls

LEMMA Invariant == Spec => []Inv
<1>1. Inv /\ [Next]_vars => Inv'
  BY InvNext
<1>. QED  BY <1>1, InvInit, PTL DEF Spec

\* The row, the receipts, the queue and every call keep their types, however
\* callbacks, the coordinator and synchronisations interleave.
THEOREM TypeCorrect == Spec => []TypeOK
<1>1. Inv => TypeOK
  BY DEF Inv
<1>. QED  BY <1>1, Invariant, PTL

\* Though save_sync_state writes back cursors read long ago, no change behind the
\* cursor is missing.
THEOREM CursorIsSafe == Spec => []NothingSkipped
<1>1. Inv => NothingSkipped
  BY DEF Inv, GoodRow, NothingSkipped
<1>. QED  BY <1>1, Invariant, PTL

\* Where notifications have names of their own, one whose receipt is saved is
\* applied, at work, queued or recorded as failed, or its handler has died.
THEOREM NothingForgotten == ASSUME ~GraphIds PROVE Spec => []NotificationAccounted
<1>1. Inv => NotificationAccounted
  <2>. SUFFICES ASSUME Inv, NEW n \in sent, Received(n), n.kind # "reauthorize"
                PROVE  Settled(n)
    BY DEF NotificationAccounted, Settled
  <2>. QED  BY DEF Inv, Accounted, Received, Identity
<1>. QED  BY <1>1, Invariant, PTL

\* The comparison in save_sync_state keeps a replaced subscription from coming back.
THEOREM ReferenceMonotone == Spec => ReferenceOnlyAdvances
<1>1. Inv /\ [Next]_vars => [row.ref <= row'.ref]_row
  BY InvNext
<1>. QED  BY <1>1, Invariant, PTL DEF Spec, ReferenceOnlyAdvances

-----------------------------------------------------------------------------
(* Progress and watches, where no call holds a copy of the row while       *)
(* another writes it.                                                      *)

Holds(c) == call[c].pc \in Holding

\* One call at most holds a copy of the row, and it is the row.
HoldInv ==
  \A c \in Calls : Holds(c) => call[c].seen = row /\ \A d \in Calls \ {c} : ~Holds(d)

\* A synchronisation goes forward, and not beyond the mailbox; only a notification
\* of an active subscription is recorded.
CommitInv ==
  /\ row.cursor <= changes
  /\ \A c \in Calls :
       call[c].pc = "commit" => call[c].seen.cursor <= call[c].at /\ call[c].at <= changes
NotedInv == \A c \in Calls : call[c].pc = "save_notified" => call[c].seen.status = "active"

ProgressInv == HoldInv /\ CommitInv /\ NotedInv

\* The provider's word that it removed a subscription is on its way or on record,
\* or a handler has it and has not yet marked the row.
Gone(ref) ==
  \E n \in sent : n.kind = "removed" /\ n.ref = ref /\ (n \notin receipts \/ n \in alarms)
Hears(c, ref) ==
  /\ call[c].kind = "notify" /\ call[c].pc \in {"save_notified", "read_renewal", "save_renewal"}
  /\ call[c].note \in sent /\ call[c].note.kind = "removed" /\ call[c].note.ref = ref
Heard(ref) == \E c \in Calls : Hears(c, ref)

\* A subscription is removed once.
RemovedInv ==
  \A n \in sent \cup receipts :
    n.kind = "removed" => n.ref # 0 /\ n.ref # watch /\ n.ref <= given

\* The lease that a call is about to record is young, and its end is known.
LeaseInv ==
  \A c \in Calls : call[c].pc = "record" =>
    call[c].ref > low /\ (call[c].ref = watch \/ Gone(call[c].ref))

\* A row that is active and not due is right, or its error is known.
ShownInv ==
  row.status = "active" /\ row.expiry # "now" /\ row.ref > low =>
    row.ref = watch \/ row.ref = dropped \/ Gone(row.ref) \/ Heard(row.ref)

WatchedInv == RemovedInv /\ LeaseInv /\ ShownInv

-----------------------------------------------------------------------------
(* Steps, as far as holding the row and progress go.                       *)

Forward == row.mark <= row'.mark /\ row.cursor <= row'.cursor

\* What a step of one call must show.
ProgressStep(c) ==
  /\ UNCHANGED <<overlapping, changes>>
  /\ \A d \in Calls \ {c} : call'[d] = call[d]
  /\ Holds(c)' => call'[c].seen = row' /\ (Holds(c) \/ RowIsFree(c))
  /\ row' = row \/ Holds(c) \/ RowIsFree(c)
  /\ call'[c].pc = "commit" => call'[c].seen.cursor <= call'[c].at /\ call'[c].at <= changes
  /\ call'[c].pc = "save_notified" => call'[c].seen.status = "active"
  /\ Forward /\ row'.cursor <= changes

LEMMA ProgressKept ==
  ASSUME ~overlapping, ProgressInv, NEW c \in Calls, ProgressStep(c)
  PROVE  ProgressInv'
<1>1. HoldInv'
  <2>. SUFFICES ASSUME NEW d \in Calls, Holds(d)'
               PROVE  call'[d].seen = row' /\ \A e \in Calls \ {d} : ~Holds(e)'
    BY DEF HoldInv
  <2>0. \A e \in Calls \ {c} : Holds(e)' <=> Holds(e)
    BY DEF ProgressStep, Holds
  <2>1. RowIsFree(c) => \A e \in Calls \ {c} : ~Holds(e)
    BY DEF RowIsFree, Holds
  <2>2. CASE d = c
    BY <2>0, <2>1, <2>2 DEF ProgressStep, ProgressInv, HoldInv
  <2>3. CASE d # c
    <3>1. Holds(d) /\ ~Holds(c) /\ ~RowIsFree(c)
      BY <2>0, <2>1, <2>3 DEF ProgressInv, HoldInv
    <3>2. call'[d].seen = row'
      BY <2>3, <3>1 DEF ProgressStep, ProgressInv, HoldInv
    <3>3. ~Holds(c)'
      BY <3>1 DEF ProgressStep
    <3>. QED  BY <2>0, <3>1, <3>2, <3>3 DEF ProgressInv, HoldInv
  <2>. QED  BY <2>2, <2>3
<1>2. CommitInv' /\ NotedInv'
  BY DEF ProgressInv, CommitInv, NotedInv, ProgressStep
<1>. QED  BY <1>1, <1>2 DEF ProgressInv

\* The row and the cursor stand in their types.
LEMMA RowStands ==
  ASSUME Inv
  PROVE  /\ row.mark \in Int /\ row.cursor \in Int /\ row.ref \in Int /\ changes \in Int
         /\ watch \in Int /\ given \in Int /\ low \in Int /\ given >= 0 /\ low >= 0 /\ watch >= 0
         /\ watch \in {0, given} /\ row.ref <= given
BY Constants, Shared, StateFields DEF Inv, TypeOK, GoodRow, Ref, Time, SyncState

\* A step that leaves the row alone and holds nothing, or what it held or has just read.
LEMMA LetsGo ==
  ASSUME Inv, ProgressInv, NEW c \in Calls, UNCHANGED <<overlapping, changes, row>>,
         \A d \in Calls \ {c} : call'[d] = call[d],
         call'[c].pc \notin Holding \cup {"commit"}
  PROVE  ProgressStep(c)
BY RowStands DEF ProgressStep, Holds, Forward, ProgressInv, CommitInv, Holding

LEMMA HoldsOn ==
  ASSUME Inv, ProgressInv, NEW c \in Calls, UNCHANGED <<overlapping, changes, row>>,
         \A d \in Calls \ {c} : call'[d] = call[d],
         call'[c].pc \in Holding \ {"save_notified"}, call'[c].seen = row,
         Holds(c) \/ RowIsFree(c)
  PROVE  ProgressStep(c)
BY RowStands DEF ProgressStep, Holds, Forward, ProgressInv, CommitInv, Holding

LEMMA Writes ==
  ASSUME Inv, ProgressInv, NEW c \in Calls, UNCHANGED <<overlapping, changes>>,
         \A d \in Calls \ {c} : call'[d] = call[d],
         call'[c].pc \notin Holding \cup {"commit"}, Holds(c),
         row'.cursor = call[c].seen.cursor, row'.mark >= call[c].seen.mark
  PROVE  ProgressStep(c)
BY RowStands DEF ProgressStep, Holds, Forward, ProgressInv, HoldInv, CommitInv, Holding

\* How the calls stand after the steps they are made of.
LEMMA CallAfter ==
  ASSUME Inv, NEW c \in Calls
  PROVE  /\ Return(c) => call'[c] = Idle /\ \A d \in Calls \ {c} : call'[d] = call[d]
         /\ \A p : Goto(c, p) =>
              /\ call'[c].pc = p /\ call'[c].kind = call[c].kind /\ call'[c].note = call[c].note
              /\ \A d \in Calls \ {c} : call'[d] = call[d]
         /\ \A p : Reread(c, p) =>
              /\ call'[c].pc = p /\ call'[c].kind = call[c].kind /\ call'[c].note = call[c].note
              /\ call'[c].seen = row /\ RowIsFree(c)
              /\ \A d \in Calls \ {c} : call'[d] = call[d]
         /\ \A k, p : Start(c, k, p) =>
              /\ call'[c].pc = p /\ call'[c].kind = k /\ call'[c].seen = row /\ RowIsFree(c)
              /\ call[c].pc = "idle"
              /\ \A d \in Calls \ {c} : call'[d] = call[d]
<1>1. call[c] \in Call /\ call \in [Calls -> Call] /\ Idle \in Call
  BY Fields, NewTyped DEF Inv, TypeOK
<1>2. Return(c) => call'[c] = Idle /\ \A d \in Calls \ {c} : call'[d] = call[d]
  BY <1>1 DEF Return
<1>3. ASSUME NEW p, Goto(c, p)
      PROVE  /\ call'[c].pc = p /\ call'[c].kind = call[c].kind /\ call'[c].note = call[c].note
             /\ \A d \in Calls \ {c} : call'[d] = call[d]
  <2>1. /\ call'[c] = [call[c] EXCEPT !.pc = p, !.seen = NewState, !.at = 0]
        /\ \A d \in Calls \ {c} : call'[d] = call[d]
    BY <1>1, <1>3 DEF Goto
  <2>. QED  BY <1>1, <2>1 DEF Call
<1>4. ASSUME NEW p, Reread(c, p)
      PROVE  /\ call'[c].pc = p /\ call'[c].kind = call[c].kind /\ call'[c].note = call[c].note
             /\ call'[c].seen = row /\ RowIsFree(c)
             /\ \A d \in Calls \ {c} : call'[d] = call[d]
  <2>1. /\ call'[c] = [call[c] EXCEPT !.pc = p, !.seen = row] /\ RowIsFree(c)
        /\ \A d \in Calls \ {c} : call'[d] = call[d]
    BY <1>1, <1>4 DEF Reread
  <2>. QED  BY <1>1, <2>1 DEF Call
<1>5. ASSUME NEW k, NEW p, Start(c, k, p)
      PROVE  /\ call'[c].pc = p /\ call'[c].kind = k /\ call'[c].seen = row /\ RowIsFree(c)
             /\ call[c].pc = "idle"
             /\ \A d \in Calls \ {c} : call'[d] = call[d]
  <2>1. /\ call'[c] = [Idle EXCEPT !.kind = k, !.pc = p, !.seen = row] /\ RowIsFree(c)
        /\ call[c].pc = "idle" /\ \A d \in Calls \ {c} : call'[d] = call[d]
    BY <1>1, <1>5 DEF Start
  <2>. QED  BY <1>1, <2>1 DEF Call
<1>. QED  BY <1>2, <1>3, <1>4, <1>5

-----------------------------------------------------------------------------
(* Steps, as far as the watch goes.                                        *)

\* Where a handler has not yet marked the row.
Hearing == {"save_notified", "read_renewal", "save_renewal"}

\* What most steps of a call leave alone, and what they may do to the row.
Aside(c) ==
  /\ UNCHANGED <<watch, given, low, sent, receipts, dropped>> /\ alarms \subseteq alarms'
  /\ \A d \in Calls \ {c} : call'[d] = call[d]
  /\ call'[c].pc # "record"
  /\ row'.status = "active" /\ row'.expiry # "now" =>
       /\ row'.status = row.status /\ row'.expiry = row.expiry /\ row'.ref = row.ref
       /\ \A ref : Hears(c, ref) => Hears(c, ref)' \/ call[c].note \in alarms'

LEMMA GoneStays ==
  ASSUME sent \subseteq sent', receipts' = receipts, alarms \subseteq alarms', NEW ref, Gone(ref)
  PROVE  Gone(ref)'
BY DEF Gone

LEMMA AsideKept ==
  ASSUME WatchedInv, NEW c \in Calls, Aside(c)
  PROVE  WatchedInv'
<1>1. RemovedInv'
  BY DEF WatchedInv, RemovedInv, Aside
<1>2. \A ref : Gone(ref) => Gone(ref)'
  BY GoneStays DEF Aside
<1>3. LeaseInv'
  BY <1>2 DEF WatchedInv, LeaseInv, Aside
<1>4. ShownInv'
  <2>. SUFFICES ASSUME row'.status = "active", row'.expiry # "now", row'.ref > low', NEW r, r = row'.ref
               PROVE  r = watch' \/ r = dropped' \/ Gone(r)' \/ Heard(r)'
    BY DEF ShownInv, Gone, Heard, Hears
  <2>1. /\ row.status = "active" /\ row.expiry # "now" /\ row.ref > low /\ row.ref = r
        /\ Hears(c, r) => Hears(c, r)' \/ call[c].note \in alarms'
        /\ UNCHANGED <<watch, dropped, sent>>
    BY DEF Aside
  <2>2. r = watch \/ r = dropped \/ Gone(r) \/ Heard(r)
    BY <2>1 DEF WatchedInv, ShownInv
  <2>3. CASE Heard(r)
    <3>1. PICK d \in Calls : Hears(d, r)
      BY <2>3 DEF Heard
    <3>2. CASE d # c
      BY <2>1, <3>1, <3>2 DEF Aside, Hears, Heard
    <3>3. CASE d = c /\ call[c].note \in alarms'
      <4>1. call[c].note \in sent' /\ call[c].note.kind = "removed" /\ call[c].note.ref = r
        BY <2>1, <3>1, <3>3 DEF Hears
      <4>. QED  BY <3>3, <4>1 DEF Gone
    <3>4. CASE d = c /\ Hears(c, r)'
      BY <3>4 DEF Heard
    <3>5. d = c => Hears(c, r)
      BY <3>1
    <3>. QED  BY <2>1, <3>2, <3>3, <3>4, <3>5
  <2>. QED  BY <1>2, <2>1, <2>2, <2>3
<1>. QED  BY <1>1, <1>3, <1>4 DEF WatchedInv

\* A step that leaves row and provider alone, of a call that has heard nothing.
LEMMA AsideQuietly ==
  ASSUME NEW c \in Calls, UNCHANGED <<row, provider, receipts, dropped>>, alarms \subseteq alarms',
         \A d \in Calls \ {c} : call'[d] = call[d],
         call'[c].pc # "record", call[c].pc \notin Hearing
  PROVE  Aside(c)
BY DEF Aside, provider, Hears, Hearing

\* A step of the coordinator is one of these, or of the three that are about a watch.
LEMMA CoordinatorSteps ==
  ASSUME Inv, ProgressInv, NEW c \in Calls, CoordinatorStep(c),
         ~HostWatches(c), ~HostCancels(c), ~RecordLease(c)
  PROVE  ProgressStep(c) /\ Aside(c)
<1>. USE DEF Quiet, provider, inbox
<1>1. ASSUME NEW k, NEW p \in Holding \ {"save_notified", "record"}, Start(c, k, p), UNCHANGED row, Quiet
      PROVE  ProgressStep(c) /\ Aside(c)
  <2>1. /\ call'[c].pc = p /\ call'[c].seen = row /\ RowIsFree(c) /\ call[c].pc = "idle"
        /\ \A d \in Calls \ {c} : call'[d] = call[d]
    BY <1>1, CallAfter
  <2>. QED  BY <1>1, <2>1, HoldsOn, AsideQuietly DEF Hearing
<1>2. ASSUME NEW p \in Holding \ {"save_notified", "record"}, Reread(c, p), UNCHANGED row, Quiet,
             call[c].pc \notin Hearing
      PROVE  ProgressStep(c) /\ Aside(c)
  <2>1. /\ call'[c].pc = p /\ call'[c].seen = row /\ RowIsFree(c)
        /\ \A d \in Calls \ {c} : call'[d] = call[d]
    BY <1>2, CallAfter
  <2>. QED  BY <1>2, <2>1, HoldsOn, AsideQuietly
<1>3. ASSUME Return(c) \/ Goto(c, "read_failed"), UNCHANGED row, Quiet, call[c].pc \notin Hearing
      PROVE  ProgressStep(c) /\ Aside(c)
  <2>1. /\ call'[c].pc \in {"idle", "read_failed"}
        /\ \A d \in Calls \ {c} : call'[d] = call[d]
    BY <1>3, CallAfter DEF Idle
  <2>2. call'[c].pc \notin Holding \cup {"commit"} /\ call'[c].pc # "record"
    BY <2>1 DEF Holding
  <2>. QED  BY <1>3, <2>1, <2>2, LetsGo, AsideQuietly
<1>4. ASSUME Return(c), Holds(c), NEW s, row' = [call[c].seen EXCEPT !.status = s],
             s # "active", Quiet
      PROVE  ProgressStep(c) /\ Aside(c)
  <2>1. call'[c].pc = "idle" /\ \A d \in Calls \ {c} : call'[d] = call[d]
    BY <1>4, CallAfter DEF Idle
  <2>2. /\ row'.cursor = call[c].seen.cursor /\ row'.mark = call[c].seen.mark
        /\ row'.status = s /\ call[c].seen.mark \in Int
    BY <1>4, Fields, StateFields, Constants DEF Inv, SyncState, Time
  <2>3. ProgressStep(c)
    BY <1>4, <2>1, <2>2, Writes DEF Holding
  <2>. QED  BY <1>4, <2>1, <2>2, <2>3 DEF Aside
<1>5. CASE EnsureSubscription(c)
  BY <1>1, <1>5 DEF EnsureSubscription, Holding
<1>6. CASE RenewIfDue(c)
  <2>1. call'[c] = [Idle EXCEPT !.kind = "renew", !.pc = "read_lease"]
        /\ call[c].pc = "idle" /\ \A d \in Calls \ {c} : call'[d] = call[d]
    BY <1>6 DEF RenewIfDue, Inv, TypeOK
  <2>2. call'[c].pc = "read_lease"
    BY <2>1, NewTyped DEF Call
  <2>. QED  BY <1>6, <2>1, <2>2, LetsGo, AsideQuietly DEF RenewIfDue, Hearing, Holding
<1>7. CASE ReadLease(c)
  BY <1>2, <1>7 DEF ReadLease, Holding, Hearing
<1>8. CASE HostFails(c)
  BY <1>3, <1>8 DEF HostFails, Fails, Hearing
<1>9. CASE MarkSubscription(c)
  BY <1>1, <1>9 DEF MarkSubscription, Holding
<1>10. CASE ReadFailedRenewal(c)
  BY <1>2, <1>3, <1>10 DEF ReadFailedRenewal, Holding, Hearing
<1>11. CASE SaveFailed(c)
  <2>1. Holds(c) /\ call[c].pc \notin Hearing
    BY <1>11 DEF SaveFailed, Holds, Holding, Hearing
  <2>. QED  BY <1>3, <1>4, <1>11, <2>1 DEF SaveFailed
<1>12. CASE CancelSubscription(c)
  BY <1>1, <1>12 DEF CancelSubscription, Holding
<1>13. CASE SaveCancelled(c)
  <2>1. Holds(c) /\ call[c].pc \notin Hearing
    BY <1>13 DEF SaveCancelled, Holds, Holding, Hearing
  <2>. QED  BY <1>3, <1>4, <1>13, <2>1 DEF SaveCancelled
<1>. QED
  BY <1>5, <1>6, <1>7, <1>8, <1>9, <1>10, <1>11, <1>12, <1>13 DEF CoordinatorStep

\* The three steps of the coordinator that are about the watch.
LEMMA WatchSteps ==
  ASSUME Inv, ProgressInv, ~overlapping, NEW c \in Calls, HostWatches(c) \/ HostCancels(c) \/ RecordLease(c)
  PROVE  ProgressStep(c) /\ (WatchedInv => WatchedInv')
<1>. USE DEF Quiet, provider, inbox
<1>1. CASE HostWatches(c)
  <2>1. PICK r \in 1 .. MaxRefs :
          /\ r = IF watch # 0 THEN watch ELSE given + 1
          /\ watch' = r /\ given' = LaterOf(given, r) /\ low' = IF low < r THEN low ELSE r - 1
          /\ call' = [call EXCEPT ![c].pc = "record", ![c].ref = r]
    BY <1>1 DEF HostWatches
  <2>2. /\ UNCHANGED <<overlapping, row, changes, sent, receipts, alarms, dropped>>
        /\ call[c].pc = "host" /\ Holds(c)
    BY <1>1 DEF HostWatches, Holds, Holding
  <2>3. call[c] \in Call
    BY Fields DEF Inv
  <2>4. call'[c] = [call[c] EXCEPT !.pc = "record", !.ref = r] /\ \A d \in Calls \ {c} : call'[d] = call[d]
    BY <2>1 DEF Inv, TypeOK
  <2>5. call'[c].pc = "record" /\ call'[c].ref = r /\ call'[c].seen = call[c].seen
    BY <2>3, <2>4 DEF Call
  <2>6. call[c].seen = row /\ \A d \in Calls \ {c} : ~Holds(d)
    BY <2>2 DEF ProgressInv, HoldInv
  <2>7. ProgressStep(c)
    BY <2>2, <2>4, <2>5, <2>6, RowStands DEF ProgressStep, Forward, ProgressInv, CommitInv
  <2>8. ASSUME WatchedInv PROVE WatchedInv'
    <3>1. r \in Int /\ r >= 1 /\ r >= given /\ given' = r /\ watch' = r /\ low' < r
      BY <2>1, RowStands, Constants DEF LaterOf
    <3>2. RemovedInv'
      <4>. SUFFICES ASSUME NEW n \in sent \cup receipts, n.kind = "removed"
                   PROVE  n.ref # 0 /\ n.ref # r /\ n.ref <= r
        BY <2>2, <3>1 DEF RemovedInv
      <4>1. n.ref # 0 /\ n.ref # watch /\ n.ref <= given /\ n.ref \in Int
        <5>1. sent \subseteq Note /\ receipts \subseteq Note
          BY DEF Inv, TypeOK
        <5>. QED  BY <2>8, <5>1, Constants DEF WatchedInv, RemovedInv, Note, Ref
      <4>. QED  BY <2>1, <3>1, <4>1, RowStands
    <3>3. LeaseInv'
      BY <2>4, <2>5, <2>6, <3>1 DEF LeaseInv, Holds, Holding
    <3>4. ShownInv'
      <4>. SUFFICES ASSUME row.status = "active", row.expiry # "now", row.ref > low'
                   PROVE  row.ref = r \/ row.ref = dropped \/ Gone(row.ref) \/ Heard(row.ref)'
        BY <2>2, <3>1 DEF ShownInv, Gone
      <4>1. CASE row.ref > low
        <5>1. row.ref = watch \/ row.ref = dropped \/ Gone(row.ref) \/ Heard(row.ref)
          BY <2>8, <4>1 DEF WatchedInv, ShownInv
        <5>2. row.ref = watch => row.ref = r
          BY <2>1, <4>1, RowStands
        <5>3. Heard(row.ref) => Heard(row.ref)'
          BY <2>2, <2>4 DEF Heard, Hears
        <5>. QED  BY <5>1, <5>2, <5>3
      <4>2. CASE ~(row.ref > low)
        BY <2>1, <3>1, <4>2, RowStands
      <4>. QED  BY <4>1, <4>2
    <3>. QED  BY <3>2, <3>3, <3>4 DEF WatchedInv
  <2>. QED  BY <2>7, <2>8
<1>2. CASE HostCancels(c)
  <2>1. /\ UNCHANGED <<overlapping, row, given, low, changes, sent, receipts, alarms>>
        /\ call[c].pc = "unwatch" /\ Holds(c) /\ watch' \in {watch, 0} /\ dropped' = call[c].seen.ref
    BY <1>2 DEF HostCancels, Holds, Holding
  <2>2. call[c] \in Call
    BY Fields DEF Inv
  <2>3. call'[c] = [call[c] EXCEPT !.pc = "save_cancelled"] /\ \A d \in Calls \ {c} : call'[d] = call[d]
    BY <1>2 DEF HostCancels, Inv, TypeOK
  <2>4. call'[c].pc = "save_cancelled" /\ call'[c].seen = call[c].seen
    BY <2>2, <2>3 DEF Call
  <2>5. call[c].seen = row /\ \A d \in Calls \ {c} : ~Holds(d)
    BY <2>1 DEF ProgressInv, HoldInv
  <2>6. ProgressStep(c)
    BY <2>1, <2>3, <2>4, <2>5, RowStands DEF ProgressStep, Forward, ProgressInv, CommitInv
  <2>7. LeaseInv'
    BY <2>3, <2>4, <2>5 DEF LeaseInv, Holds, Holding
  <2>8. ShownInv'
    BY <2>1, <2>5 DEF ShownInv
  <2>9. RemovedInv => RemovedInv'
    BY <2>1 DEF RemovedInv
  <2>. QED  BY <2>6, <2>7, <2>8, <2>9 DEF WatchedInv
<1>3. CASE RecordLease(c) /\ RefUnchanged(c)
  <2>1. /\ UNCHANGED <<overlapping, watch, given, low, changes, sent, receipts, alarms, dropped>>
        /\ call[c].pc = "record" /\ Holds(c) /\ row' = Leased(c)
        /\ call'[c] = Idle /\ \A d \in Calls \ {c} : call'[d] = call[d]
    BY <1>3, CallAfter DEF RecordLease, Holds, Holding
  <2>2. /\ row'.ref = call[c].ref /\ row'.cursor = call[c].seen.cursor /\ row'.mark = call[c].seen.mark
        /\ call[c].seen.mark \in Int
    BY <2>1, Fields, StateFields, Constants DEF Leased, Inv, SyncState, Time
  <2>3. call'[c].pc = "idle" /\ call'[c].pc \notin Holding \cup {"commit"}
    BY <2>1 DEF Idle, Holding
  <2>4. ProgressStep(c)
    BY <2>1, <2>2, <2>3, Writes
  <2>5. ASSUME WatchedInv PROVE WatchedInv'
    <3>1. RemovedInv' /\ LeaseInv'
      BY <2>1, <2>3, <2>5 DEF WatchedInv, RemovedInv, LeaseInv, Gone
    <3>2. row'.ref = watch' \/ \E n \in sent' : n.kind = "removed" /\ n.ref = row'.ref
                                    /\ (n \notin receipts' \/ n \in alarms')
      BY <2>1, <2>2, <2>5 DEF WatchedInv, LeaseInv, Gone
    <3>3. ShownInv'
      BY <3>2 DEF ShownInv, Gone
    <3>. QED  BY <3>1, <3>3 DEF WatchedInv
  <2>. QED  BY <2>4, <2>5
<1>4. CASE RecordLease(c) /\ ~RefUnchanged(c)
  <2>1. Holds(c)
    BY <1>4 DEF RecordLease, Holds, Holding
  <2>. QED  BY <1>4, <2>1 DEF ProgressInv, HoldInv, RefUnchanged
<1>. QED  BY <1>1, <1>2, <1>3, <1>4

\* A delivery that finds no receipt: the word it brings moves into a handler or
\* into the record of failures.
LEMMA ReceiveSteps ==
  ASSUME Inv, ProgressInv, ~overlapping, NEW c \in Calls, NEW n \in sent, ReceiveNotification(c, n)
  PROVE  \/ ProgressStep(c)
         \/ UNCHANGED <<overlapping, changes, row, call>>
<1>. USE DEF provider, inbox
<1>1. CASE Recordable(n)
  <2>1. PICK at \in n.at .. changes :
          call' = [call EXCEPT ![c] = [Idle EXCEPT !.kind = "notify", !.pc = "save_notified",
                                            !.note = n, !.seen = row, !.at = at]]
    BY <1>1 DEF ReceiveNotification
  <2>2. /\ call'[c] = [Idle EXCEPT !.kind = "notify", !.pc = "save_notified",
                                   !.note = n, !.seen = row, !.at = at]
        /\ \A d \in Calls \ {c} : call'[d] = call[d]
    BY <2>1 DEF Inv, TypeOK
  <2>3. call'[c].pc = "save_notified" /\ call'[c].seen = row
    BY <2>2, NewTyped DEF Call
  <2>4. UNCHANGED <<overlapping, changes, row>> /\ RowIsFree(c) /\ row.status = "active"
    BY <1>1 DEF ReceiveNotification, Recordable
  <2>. QED  BY <2>2, <2>3, <2>4, RowStands DEF ProgressStep, Forward, ProgressInv, CommitInv
<1>2. CASE ~Recordable(n)
  BY <1>2 DEF ReceiveNotification
<1>. QED  BY <1>1, <1>2

LEMMA ReceiveWatched ==
  ASSUME Inv, WatchedInv, ~GraphIds, ~overlapping, NEW c \in Calls, NEW n \in sent, ReceiveNotification(c, n)
  PROVE  WatchedInv'
<1>. USE DEF provider, inbox
<1>1. /\ UNCHANGED <<row, watch, given, low, sent, dropped>> /\ alarms \subseteq alarms'
      /\ receipts' = receipts \cup {n}
  BY DEF ReceiveNotification, SaveReceipt, Identity
<1>2. RemovedInv'
  BY <1>1 DEF WatchedInv, RemovedInv
<1>3. CASE ~Recordable(n)
  <2>1. n \in alarms' /\ call' = call
    BY <1>3 DEF ReceiveNotification
  <2>2. \A ref : (Gone(ref) => Gone(ref)') /\ (Heard(ref) => Heard(ref)')
    BY <1>1, <2>1 DEF Gone, Heard, Hears
  <2>3. LeaseInv'
    BY <1>1, <2>1, <2>2 DEF WatchedInv, LeaseInv
  <2>4. ShownInv'
    <3>. DEFINE r == row.ref
    <3>1. (Gone(r) => Gone(r)') /\ (Heard(r) => Heard(r)')
      BY <1>1, <2>1 DEF Gone, Heard, Hears
    <3>. QED  BY <1>1, <3>1 DEF WatchedInv, ShownInv
  <2>. QED  BY <1>2, <2>3, <2>4 DEF WatchedInv
<1>4. CASE Recordable(n)
  <2>1. PICK at \in n.at .. changes :
          call' = [call EXCEPT ![c] = [Idle EXCEPT !.kind = "notify", !.pc = "save_notified",
                                            !.note = n, !.seen = row, !.at = at]]
    BY <1>4 DEF ReceiveNotification
  <2>2. /\ call'[c] = [Idle EXCEPT !.kind = "notify", !.pc = "save_notified",
                                   !.note = n, !.seen = row, !.at = at]
        /\ \A d \in Calls \ {c} : call'[d] = call[d]
    BY <2>1 DEF Inv, TypeOK
  <2>3. call'[c].pc = "save_notified" /\ call'[c].kind = "notify" /\ call'[c].note = n
    BY <2>2, NewTyped DEF Call
  <2>4. RowIsFree(c) /\ call[c].pc = "idle" /\ row.ref = n.ref
    BY <1>4 DEF ReceiveNotification, Recordable
  <2>5. LeaseInv'
    <3>1. \A d \in Calls : call'[d].pc # "record"
      <4>1. \A d \in Calls \ {c} : call[d].pc \notin Holding
        BY <2>4 DEF RowIsFree
      <4>2. "record" \in Holding
        BY DEF Holding
      <4>. SUFFICES ASSUME NEW d \in Calls PROVE call'[d].pc # "record"
        OBVIOUS
      <4>3. CASE d = c
        BY <2>3, <4>3
      <4>4. CASE d # c
        BY <2>2, <4>1, <4>2, <4>4
      <4>. QED  BY <4>3, <4>4
    <3>. QED  BY <3>1 DEF LeaseInv
  <2>6. \A ref : Heard(ref) => Heard(ref)'
    BY <1>1, <2>2, <2>4 DEF Heard, Hears
  <2>7. ASSUME Gone(row.ref) PROVE Gone(row.ref)' \/ Heard(row.ref)'
    <3>1. PICK m \in sent : m.kind = "removed" /\ m.ref = row.ref /\ (m \notin receipts \/ m \in alarms)
      BY <2>7 DEF Gone
    <3>2. CASE m # n
      BY <1>1, <3>1, <3>2 DEF Gone
    <3>3. CASE m = n
      <4>1. Hears(c, row.ref)'
        BY <1>1, <2>3, <3>1, <3>3 DEF Hears
      <4>. QED  BY <4>1 DEF Heard
    <3>. QED  BY <3>2, <3>3
  <2>8. Heard(row.ref) => Heard(row.ref)'
    BY <1>1, <2>2, <2>4 DEF Heard, Hears
  <2>9. ShownInv'
    BY <1>1, <2>7, <2>8 DEF WatchedInv, ShownInv
  <2>. QED  BY <1>2, <2>5, <2>9 DEF WatchedInv
<1>. QED  BY <1>3, <1>4

\* The other steps of a callback.
LEMMA CallbackSteps ==
  ASSUME Inv, ProgressInv, NEW c \in Calls, CallbackStep(c),
         \A n \in sent : ~ReceiveNotification(c, n)
  PROVE  ProgressStep(c) /\ Aside(c)
<1>. USE DEF provider, inbox
<1>1. ASSUME RouteFails(c) PROVE ProgressStep(c) /\ Aside(c)
  <2>1. /\ call'[c].pc = "idle" /\ \A d \in Calls \ {c} : call'[d] = call[d]
        /\ UNCHANGED <<overlapping, row, provider, receipts, dropped>>
        /\ alarms' = alarms \cup {call[c].note}
    BY <1>1, CallAfter DEF RouteFails, Idle
  <2>2. Aside(c)
    BY <2>1 DEF Aside
  <2>. QED  BY <2>1, <2>2, LetsGo DEF Holding
<1>2. CASE RecordNotification(c) /\ RefUnchanged(c)
  <2>1. /\ UNCHANGED <<overlapping, provider, inbox, dropped>> /\ row' = Recorded(c)
        /\ Goto(c, AfterRecord(c)) /\ call[c].pc = "save_notified" /\ Holds(c)
    BY <1>2 DEF RecordNotification, Holds, Holding
  <2>2. /\ call'[c].pc = AfterRecord(c) /\ call'[c].kind = call[c].kind /\ call'[c].note = call[c].note
        /\ \A d \in Calls \ {c} : call'[d] = call[d]
    BY <2>1, CallAfter
  <2>3. AfterRecord(c) \notin Holding \cup {"commit"}
    BY DEF AfterRecord, Holding
  <2>4. /\ row'.cursor = call[c].seen.cursor /\ row'.mark >= call[c].seen.mark
        /\ row'.status = "active" /\ row'.expiry = call[c].seen.expiry /\ row'.ref = call[c].seen.ref
    BY <2>1, Fields, StateFields, Constants DEF Recorded, LaterOf, Inv, SyncState, Time
  <2>5. call[c].seen = row /\ row.status = "active"
    BY <2>1 DEF ProgressInv, HoldInv, NotedInv
  <2>6. ProgressStep(c)
    BY <2>1, <2>2, <2>3, <2>4, Writes
  <2>7. \A ref : Hears(c, ref) => Hears(c, ref)'
    BY <2>1, <2>2 DEF Hears, AfterRecord
  <2>8. call'[c].pc # "record"
    BY <2>2, <2>3 DEF Holding
  <2>. QED  BY <2>1, <2>2, <2>4, <2>5, <2>6, <2>7, <2>8 DEF Aside
<1>3. CASE ReadForRenewal(c)
  <2>1. /\ call'[c].pc = "save_renewal" /\ call'[c].kind = call[c].kind /\ call'[c].note = call[c].note
        /\ call'[c].seen = row /\ RowIsFree(c) /\ \A d \in Calls \ {c} : call'[d] = call[d]
        /\ UNCHANGED <<overlapping, row, provider, inbox, dropped>>
    BY <1>3, CallAfter DEF ReadForRenewal
  <2>2. ProgressStep(c)
    BY <2>1, HoldsOn DEF Holding
  <2>3. \A ref : Hears(c, ref) => Hears(c, ref)'
    BY <2>1 DEF Hears
  <2>. QED  BY <2>1, <2>2, <2>3 DEF Aside
<1>4. CASE MarkRenewalRequired(c) /\ RefUnchanged(c)
  <2>1. /\ UNCHANGED <<overlapping, provider, inbox, dropped>> /\ row' = RenewalRequired(c) /\ Holds(c)
        /\ call'[c].pc = "read_conn" /\ \A d \in Calls \ {c} : call'[d] = call[d]
    BY <1>4, CallAfter DEF MarkRenewalRequired, Holds, Holding
  <2>2. /\ row'.cursor = call[c].seen.cursor /\ row'.mark >= call[c].seen.mark /\ row'.expiry = "now"
    BY <2>1, Fields, StateFields, Constants DEF RenewalRequired, Inv, SyncState, Time
  <2>3. ProgressStep(c)
    BY <2>1, <2>2, Writes DEF Holding
  <2>. QED  BY <2>1, <2>2, <2>3 DEF Aside
<1>5. CASE ReadConnection(c)
  <2>1. call[c] \in Call /\ call[c].pc = "read_conn"
    BY <1>5, Fields DEF Inv, ReadConnection
  <2>2. PICK p : /\ p \in {"enqueue", "save_conn"}
                 /\ call' = [call EXCEPT ![c].rev = conn.rev, ![c].pc = p]
    BY <1>5 DEF ReadConnection
  <2>3. /\ call'[c] = [call[c] EXCEPT !.rev = conn.rev, !.pc = p]
        /\ \A d \in Calls \ {c} : call'[d] = call[d]
    BY <2>2 DEF Inv, TypeOK
  <2>4. call'[c].pc = p
    BY <2>1, <2>3 DEF Call
  <2>5. UNCHANGED <<overlapping, row, provider, inbox, dropped>>
    BY <1>5 DEF ReadConnection
  <2>6. p \notin Holding \cup {"commit"} /\ p # "record" /\ call[c].pc \notin Hearing
    BY <2>1, <2>2 DEF Holding, Hearing
  <2>. QED  BY <2>3, <2>4, <2>5, <2>6, LetsGo, AsideQuietly
<1>6. CASE ApplyLifecycle(c) /\ conn.rev = call[c].rev
  <2>1. /\ call'[c].pc = "enqueue" /\ \A d \in Calls \ {c} : call'[d] = call[d]
        /\ call[c].pc = "save_conn" /\ UNCHANGED <<overlapping, row, provider, inbox, dropped>>
    BY <1>6, CallAfter DEF ApplyLifecycle
  <2>. QED  BY <2>1, LetsGo, AsideQuietly DEF Holding, Hearing
<1>7. CASE EnqueueSync(c) /\ ~(call[c].note.kind # "reauthorize" /\ Refused(c))
  <2>1. /\ call'[c].pc = "idle" /\ \A d \in Calls \ {c} : call'[d] = call[d]
        /\ call[c].pc = "enqueue" /\ UNCHANGED <<overlapping, row, provider, receipts, alarms, dropped>>
    BY <1>7, CallAfter DEF EnqueueSync, Idle
  <2>. QED  BY <2>1, LetsGo, AsideQuietly DEF Holding, Hearing
<1>8. \/ RouteFails(c)
      \/ RecordNotification(c) /\ RefUnchanged(c)
      \/ ReadForRenewal(c)
      \/ MarkRenewalRequired(c) /\ RefUnchanged(c)
      \/ ReadConnection(c)
      \/ ApplyLifecycle(c) /\ conn.rev = call[c].rev
      \/ EnqueueSync(c) /\ ~(call[c].note.kind # "reauthorize" /\ Refused(c))
  BY DEF CallbackStep, RecordNotification, MarkRenewalRequired, ApplyLifecycle, EnqueueSync
<1>. QED  BY <1>1, <1>2, <1>3, <1>4, <1>5, <1>6, <1>7, <1>8

LEMMA OtherSteps ==
  ASSUME Inv, ProgressInv, NEW c \in Calls, SyncStep(c) \/ Crash(c)
  PROVE  ProgressStep(c) /\ Aside(c)
<1>. USE DEF provider, inbox
<1>1. CASE Crash(c)
  <2>1. /\ call'[c].pc = "idle" /\ \A d \in Calls \ {c} : call'[d] = call[d]
        /\ UNCHANGED <<overlapping, row, provider, receipts, dropped>>
        /\ alarms \subseteq alarms' /\ (call[c].kind = "notify" => call[c].note \in alarms')
    BY <1>1, CallAfter DEF Crash, Idle
  <2>2. Aside(c)
    BY <2>1 DEF Aside, Hears
  <2>. QED  BY <2>1, <2>2, LetsGo DEF Holding
<1>2. CASE CommitCursor(c)
  <2>1. /\ call'[c].pc = "idle" /\ \A d \in Calls \ {c} : call'[d] = call[d]
        /\ UNCHANGED <<overlapping, provider, receipts, dropped>> /\ alarms \subseteq alarms'
        /\ RowIsFree(c) /\ call[c].pc = "commit"
        /\ \/ row' = row
           \/ row.cursor = call[c].seen.cursor /\ row' = [row EXCEPT !.cursor = call[c].at]
    BY <1>2, CallAfter DEF CommitCursor, Idle
  <2>2. call[c].seen.cursor <= call[c].at /\ call[c].at <= changes /\ row \in SyncState
    BY <2>1, Shared DEF ProgressInv, CommitInv, Inv
  <2>3. /\ row'.status = row.status /\ row'.expiry = row.expiry /\ row'.ref = row.ref
        /\ row'.mark = row.mark /\ row.cursor <= row'.cursor /\ row'.cursor <= changes
    BY <2>1, <2>2, RowStands DEF SyncState, ProgressInv, CommitInv
  <2>4. Aside(c)
    BY <2>1, <2>3 DEF Aside, Hears
  <2>. QED  BY <2>1, <2>3, <2>4, RowStands DEF ProgressStep, Holds, Holding, Forward
<1>3. CASE \E taken \in Taken : ApplyPage(c, taken)
  <2>1. PICK taken \in Taken : ApplyPage(c, taken)
    BY <1>3
  <2>2. /\ call'[c] = [Idle EXCEPT !.kind = "sync", !.pc = "commit", !.job = taken, !.at = changes,
                                   !.seen = [NewState EXCEPT !.cursor = row.cursor]]
        /\ \A d \in Calls \ {c} : call'[d] = call[d]
        /\ UNCHANGED <<overlapping, row, provider, receipts, alarms, dropped>> /\ call[c].pc = "idle"
    BY <2>1 DEF ApplyPage, Inv, TypeOK
  <2>3. /\ call'[c].pc = "commit" /\ call'[c].at = changes
        /\ call'[c].seen = [NewState EXCEPT !.cursor = row.cursor]
    BY <2>2, NewTyped DEF Call
  <2>4. call'[c].seen.cursor = row.cursor
    BY <2>3 DEF NewState
  <2>5. ProgressStep(c)
    BY <2>2, <2>3, <2>4, RowStands DEF ProgressStep, Holds, Holding, Forward, ProgressInv, CommitInv
  <2>. QED  BY <2>2, <2>3, <2>5, AsideQuietly DEF Hearing
<1>. QED  BY <1>1, <1>2, <1>3 DEF SyncStep

-----------------------------------------------------------------------------
(* Steps of the provider, the clock and the owner.                         *)

\* All that is left of Next, when no call moves.
Outside ==
  \/ \E taken \in Taken : SyncFails(taken)
  \/ \E n \in sent : ReplayReceipt(n)
  \/ MailboxChanges \/ ProviderRemovesWatch \/ ProviderAsksReauthorization
  \/ WatchLapses \/ OwnerReactivates \/ \E r \in 1 .. given : LeaseRunsLow(r)
  \/ UNCHANGED vars

LEMMA OutsideProgress ==
  ASSUME Inv, ProgressInv, UNCHANGED <<row, call>>, changes' >= changes, changes' \in Int
  PROVE  ProgressInv' /\ Forward
<1>1. HoldInv' /\ NotedInv'
  BY DEF ProgressInv, HoldInv, NotedInv, Holds
<1>2. ASSUME NEW c \in Calls, call[c].pc = "commit"
      PROVE  call[c].seen.cursor <= call[c].at /\ call[c].at <= changes'
  <2>1. call[c].at \in Int
    BY Fields, Constants DEF Inv, Time
  <2>. QED  BY <1>2, <2>1, RowStands DEF ProgressInv, CommitInv
<1>3. CommitInv'
  BY <1>2, RowStands DEF ProgressInv, CommitInv
<1>. QED  BY <1>1, <1>3, RowStands DEF ProgressInv, Forward

LEMMA OutsideMoves ==
  ASSUME Inv, Outside
  PROVE  UNCHANGED <<overlapping, row, call>> /\ changes' >= changes /\ changes' \in Int
<1>. USE DEF provider, inbox
<1>1. UNCHANGED <<overlapping, row, call>>
  BY DEF Outside, SyncFails, ReplayReceipt, MailboxChanges, ProviderRemovesWatch,
         ProviderAsksReauthorization, WatchLapses, OwnerReactivates, LeaseRunsLow, vars
<1>2. changes' \in {changes, changes + 1}
  BY DEF Outside, SyncFails, ReplayReceipt, MailboxChanges, ProviderRemovesWatch,
         ProviderAsksReauthorization, WatchLapses, OwnerReactivates, LeaseRunsLow, vars
<1>. QED  BY <1>1, <1>2, RowStands

\* The provider goes on notifying the same watch, or none.
LEMMA NotifiesOn ==
  ASSUME WatchedInv, UNCHANGED <<row, watch, given, low, receipts, dropped, call>>,
         sent \subseteq sent', alarms \subseteq alarms', \A n \in sent' \ sent : n.kind # "removed"
  PROVE  WatchedInv'
<1>1. RemovedInv'
  BY DEF WatchedInv, RemovedInv
<1>2. \A ref : Gone(ref) => Gone(ref)'
  BY GoneStays
<1>3. LeaseInv'
  BY <1>2 DEF WatchedInv, LeaseInv
<1>4. Gone(row.ref) => Gone(row.ref)'
  BY DEF Gone
<1>5. Heard(row.ref) => Heard(row.ref)'
  BY DEF Heard, Hears
<1>6. ShownInv'
  BY <1>4, <1>5 DEF WatchedInv, ShownInv
<1>. QED  BY <1>1, <1>3, <1>6 DEF WatchedInv

LEMMA OutsideWatched ==
  ASSUME Inv, WatchedInv, Outside
  PROVE  WatchedInv'
<1>. USE DEF provider, inbox
<1>1. CASE \/ \E taken \in Taken : SyncFails(taken)
           \/ \E n \in sent : ReplayReceipt(n)
           \/ OwnerReactivates \/ UNCHANGED vars
  <2>1. UNCHANGED <<row, watch, given, low, receipts, dropped, call, sent>> /\ alarms \subseteq alarms'
    BY <1>1 DEF SyncFails, ReplayReceipt, OwnerReactivates, vars
  <2>. QED  BY <2>1, NotifiesOn
<1>2. CASE MailboxChanges \/ ProviderAsksReauthorization
  <2>1. UNCHANGED <<row, watch, given, low, receipts, dropped, call, alarms>>
    BY <1>2 DEF MailboxChanges, ProviderAsksReauthorization
  <2>2. \/ sent' = sent
        \/ \E kind \in {"changed", "missed", "reauthorize"} : \E at :
             sent' = sent \cup {[kind |-> kind, ref |-> watch, at |-> at]}
    BY <1>2 DEF MailboxChanges, ProviderAsksReauthorization, Notified
  <2>3. sent \subseteq sent' /\ \A n \in sent' \ sent : n.kind # "removed"
    BY <2>2
  <2>. QED  BY <2>1, <2>3, NotifiesOn
<1>3. CASE ProviderRemovesWatch
  <2>. DEFINE n == [kind |-> "removed", ref |-> watch, at |-> changes]
  <2>1. /\ UNCHANGED <<row, given, low, receipts, dropped, call, alarms>>
        /\ watch # 0 /\ watch' = 0 /\ sent' = sent \cup {n}
    BY <1>3 DEF ProviderRemovesWatch, Notified
  <2>2. n \notin receipts /\ n.kind = "removed" /\ n.ref = watch
    BY DEF WatchedInv, RemovedInv
  <2>3. watch <= given
    BY RowStands
  <2>4. RemovedInv'
    BY <2>1, <2>3 DEF WatchedInv, RemovedInv
  <2>5. ASSUME NEW w, w = watch PROVE Gone(w)'
    BY <2>1, <2>2, <2>5 DEF Gone
  <2>6. ASSUME NEW c \in Calls, call[c].pc = "record"
        PROVE  call[c].ref > low /\ (call[c].ref = watch \/ Gone(call[c].ref))
    BY <2>6 DEF WatchedInv, LeaseInv
  <2>7. \A w : Gone(w) => Gone(w)'
    BY <2>1, GoneStays
  <2>8. \A w : w = watch => Gone(w)'
    BY <2>5
  <2>9. LeaseInv'
    BY <2>1, <2>6, <2>7, <2>8 DEF LeaseInv
  <2>10. ShownInv'
    <3>. SUFFICES ASSUME row.status = "active", row.expiry # "now", row.ref > low, NEW r, r = row.ref
                 PROVE  r = dropped \/ Gone(r)' \/ Heard(r)'
      BY <2>1 DEF ShownInv, Gone, Heard, Hears
    <3>1. r = watch \/ r = dropped \/ Gone(r) \/ Heard(r)
      BY DEF WatchedInv, ShownInv
    <3>2. Heard(r) => Heard(r)'
      BY <2>1 DEF Heard, Hears
    <3>. QED  BY <2>7, <2>8, <3>1, <3>2
  <2>. QED  BY <2>4, <2>9, <2>10 DEF WatchedInv
<1>4. CASE WatchLapses
  <2>1. /\ UNCHANGED <<row, given, low, sent, receipts, dropped, call, alarms>>
        /\ watch' = 0 /\ watch <= low
    BY <1>4, RowStands DEF WatchLapses
  <2>2. RemovedInv'
    BY <2>1 DEF WatchedInv, RemovedInv
  <2>3. ASSUME NEW c \in Calls, call[c].pc = "record"
        PROVE  call[c].ref # watch
    <3>1. call[c].ref \in Int
      BY Fields, Constants DEF Inv, Ref
    <3>. QED  BY <2>1, <2>3, <3>1, RowStands DEF WatchedInv, LeaseInv
  <2>4. LeaseInv'
    BY <2>1, <2>3 DEF WatchedInv, LeaseInv, Gone
  <2>5. row.ref > low => row.ref # watch
    BY <2>1, RowStands
  <2>6. ShownInv'
    BY <2>1, <2>5 DEF WatchedInv, ShownInv, Gone, Heard, Hears
  <2>. QED  BY <2>2, <2>4, <2>6 DEF WatchedInv
<1>5. CASE \E r \in 1 .. given : LeaseRunsLow(r)
  <2>1. PICK r \in low + 1 .. given :
          /\ low' = r /\ \A c \in Calls : call[c].pc = "record" => call[c].ref > r
          /\ UNCHANGED <<row, watch, given, sent, receipts, dropped, call, alarms>>
    BY <1>5 DEF LeaseRunsLow
  <2>2. RemovedInv'
    BY <2>1 DEF WatchedInv, RemovedInv
  <2>3. LeaseInv'
    BY <2>1 DEF WatchedInv, LeaseInv, Gone
  <2>4. row.ref > low' => row.ref > low
    BY <2>1, RowStands
  <2>5. ShownInv'
    BY <2>1, <2>4 DEF WatchedInv, ShownInv, Gone, Heard, Hears
  <2>. QED  BY <2>2, <2>3, <2>5 DEF WatchedInv
<1>. QED  BY <1>1, <1>2, <1>3, <1>4, <1>5 DEF Outside

\* Whether calls may overlap is chosen once.
LEMMA Chosen ==
  ASSUME NEW c \in Calls, CallbackStep(c) \/ CoordinatorStep(c) \/ SyncStep(c) \/ Crash(c)
  PROVE  overlapping' = overlapping
BY DEF CallbackStep, RecordNotification, ReadForRenewal, MarkRenewalRequired, ReadConnection,
       ApplyLifecycle, EnqueueSync, ReceiveNotification, RouteFails, CoordinatorStep, Quiet,
       EnsureSubscription, RenewIfDue, ReadLease, HostWatches, HostFails, RecordLease,
       MarkSubscription, ReadFailedRenewal, SaveFailed, CancelSubscription, HostCancels,
       SaveCancelled, SyncStep, CommitCursor, ApplyPage, Crash

-----------------------------------------------------------------------------
(* The invariants of a folder whose calls do not overlap.                  *)

LEMMA CallProgress ==
  ASSUME Inv, ProgressInv, ~overlapping, NEW c \in Calls,
         CallbackStep(c) \/ CoordinatorStep(c) \/ SyncStep(c) \/ Crash(c)
  PROVE  ~overlapping' /\ ProgressInv' /\ Forward
<1>1. CASE ProgressStep(c)
  BY <1>1, ProgressKept DEF ProgressStep
<1>2. CASE UNCHANGED <<overlapping, changes, row, call>>
  BY <1>2, OutsideProgress, RowStands
<1>3. CASE CallbackStep(c)
  <2>1. CASE \E n \in sent : ReceiveNotification(c, n)
    BY <1>1, <1>2, <2>1, ReceiveSteps
  <2>. QED  BY <1>1, <1>3, <2>1, CallbackSteps
<1>4. CASE CoordinatorStep(c)
  BY <1>1, <1>4, CoordinatorSteps, WatchSteps
<1>5. CASE SyncStep(c) \/ Crash(c)
  BY <1>1, <1>5, OtherSteps
<1>. QED  BY <1>3, <1>4, <1>5

LEMMA CallWatched ==
  ASSUME Inv, ProgressInv, WatchedInv, ~overlapping, ~GraphIds, NEW c \in Calls,
         CallbackStep(c) \/ CoordinatorStep(c) \/ SyncStep(c) \/ Crash(c)
  PROVE  WatchedInv'
<1>1. CASE CallbackStep(c)
  <2>1. CASE \E n \in sent : ReceiveNotification(c, n)
    BY <2>1, ReceiveWatched
  <2>. QED  BY <1>1, <2>1, CallbackSteps, AsideKept
<1>2. CASE CoordinatorStep(c)
  BY <1>2, CoordinatorSteps, WatchSteps, AsideKept
<1>3. CASE SyncStep(c) \/ Crash(c)
  BY <1>3, OtherSteps, AsideKept
<1>. QED  BY <1>1, <1>2, <1>3

LEMMA NextIs ==
  ASSUME [Next]_vars
  PROVE  \/ Outside
         \/ \E c \in Calls : CallbackStep(c) \/ CoordinatorStep(c) \/ SyncStep(c) \/ Crash(c)
BY DEF Next, Outside, Calls

\* The two inductive invariants, of the runs whose calls do not overlap.
Orderly == ~overlapping => ProgressInv
Watched == ~overlapping => ProgressInv /\ WatchedInv

LEMMA OrderlyInit == Init => Orderly /\ Watched
<1>. SUFFICES ASSUME Init PROVE ProgressInv /\ WatchedInv
  BY DEF Orderly, Watched
<1>1. \A c \in Calls : call[c].pc = "idle"
  BY DEF Init, Idle
<1>2. ProgressInv
  BY <1>1 DEF Init, NewState, ProgressInv, HoldInv, CommitInv, NotedInv, Holds, Holding
<1>3. WatchedInv
  BY <1>1 DEF Init, NewState, WatchedInv, RemovedInv, LeaseInv, ShownInv
<1>. QED  BY <1>2, <1>3

LEMMA OrderlyNext ==
  ASSUME Inv, Orderly, [Next]_vars
  PROVE  Orderly' /\ (~overlapping => Forward)
<1>1. CASE Outside
  BY <1>1, OutsideMoves, OutsideProgress DEF Orderly
<1>2. ASSUME NEW c \in Calls, CallbackStep(c) \/ CoordinatorStep(c) \/ SyncStep(c) \/ Crash(c)
      PROVE  Orderly' /\ (~overlapping => Forward)
  <2>1. CASE ~overlapping
    BY <1>2, <2>1, CallProgress DEF Orderly
  <2>2. CASE overlapping
    BY <1>2, <2>2, Chosen DEF Orderly
  <2>. QED  BY <2>1, <2>2
<1>. QED  BY <1>1, <1>2, NextIs

LEMMA WatchedNext ==
  ASSUME Inv, Watched, ~GraphIds, [Next]_vars
  PROVE  Watched'
<1>1. CASE Outside
  BY <1>1, OutsideMoves, OutsideProgress, OutsideWatched DEF Watched
<1>2. ASSUME NEW c \in Calls, CallbackStep(c) \/ CoordinatorStep(c) \/ SyncStep(c) \/ Crash(c)
      PROVE  Watched'
  <2>1. CASE ~overlapping
    BY <1>2, <2>1, CallProgress, CallWatched DEF Watched
  <2>2. CASE overlapping
    BY <1>2, <2>2, Chosen DEF Watched
  <2>. QED  BY <2>1, <2>2
<1>. QED  BY <1>1, <1>2, NextIs

(* Where no call writes the row between another's read and write of it, the   *)
(* watermark of a folder does not go back (record_notification) and neither   *)
(* does its cursor, for any number of callbacks, coordinator calls and        *)
(* synchronisations, under both ways of naming notifications.                 *)
THEOREM ProgressStandsTheorem == Spec => ProgressStands
<1>1. Inv /\ Orderly /\ [Next]_vars => Orderly' /\ (~overlapping => Forward)
  BY OrderlyNext
<1>2. Spec => []Orderly
  BY <1>1, Invariant, OrderlyInit, PTL DEF Spec
<1>3. Inv /\ Orderly /\ [Next]_vars =>
        [~overlapping => row.mark <= row'.mark /\ row.cursor <= row'.cursor]_row
  BY <1>1 DEF Forward
<1>. QED  BY <1>2, <1>3, Invariant, PTL DEF Spec, ProgressStands

(* And a folder shown as watched and not due for renewal is watched, unless   *)
(* the provider's word that it is not is still on its way, at work or         *)
(* recorded as failed, or the owner's cancellation died half way              *)
(* (record_provider_notification, ensure_provider_subscription), where every  *)
(* notification has a name of its own.                                        *)
THEOREM ActiveIsWatchedTheorem ==
  ASSUME ~GraphIds
  PROVE  Spec => []ActiveIsWatched
<1>1. Inv /\ Watched /\ [Next]_vars => Watched'
  BY WatchedNext
<1>2. Inv /\ Watched => ActiveIsWatched
  <2>. SUFFICES ASSUME Inv, WatchedInv, row.status = "active", ~Due
               PROVE  \/ row.ref = watch \/ row.ref = dropped
                      \/ \E n \in sent :
                           /\ n.kind = "removed" /\ n.ref = row.ref
                           /\ ~Received(n) \/ AtWork(n) \/ n \in alarms
    BY DEF Watched, ActiveIsWatched
  <2>1. row.expiry # "now" /\ row.ref > low
    BY RowStands DEF Due
  <2>2. row.ref = watch \/ row.ref = dropped \/ Gone(row.ref) \/ Heard(row.ref)
    BY <2>1 DEF WatchedInv, ShownInv
  <2>3. CASE Gone(row.ref)
    BY <2>3 DEF Gone, Received, Identity
  <2>4. CASE Heard(row.ref)
    BY <2>4 DEF Heard, Hears, AtWork
  <2>. QED  BY <2>2, <2>3, <2>4
<1>. QED  BY <1>1, <1>2, Invariant, OrderlyInit, PTL DEF Spec

-----------------------------------------------------------------------------
(* The unified inbox (MailThreads).                                         *)

\* No row is dated 0 but the one that does not exist, and a message has its thread.
RowsInv ==
  /\ \A t \in Threads : thread[t].latest = 0 => thread[t] = NoRow
  /\ \A m \in stored : Exists(ThreadOf[m])

\* The row says so many messages of a thread, none of them later than it.
Sums(saved, msgs) ==
  saved.count = Cardinality(msgs) /\ \A m \in msgs : At[m] <= saved.latest

\* How far the one execution that is at work on a thread has brought it.
Saving(s) ==
  LET m == saving[s].msg
      t == ThreadOf[m]
      seen == saving[s].seen
  IN CASE saving[s].pc = "read" -> seen = NoRow /\ thread[t] = NoRow /\ In(t) = {}
       [] saving[s].pc = "insert" /\ seen = NoRow ->
            thread[t] = [latest |-> At[m], count |-> 1] /\ In(t) = {}
       [] saving[s].pc = "insert" /\ seen # NoRow -> thread[t] = seen /\ Sums(seen, In(t))
       [] saving[s].pc = "update" ->
            thread[t] = seen /\ m \in stored /\ Sums(seen, In(t) \ {m})
       [] OTHER -> TRUE

SumsInv ==
  /\ \A t \in Threads \ raced : Busy(t) = {} => Sums(thread[t], In(t))
  /\ \A s, r \in Syncs :
       s # r /\ saving[s].pc # "idle" /\ saving[r].pc # "idle"
       /\ ThreadOf[saving[s].msg] = ThreadOf[saving[r].msg] => ThreadOf[saving[s].msg] \in raced
  /\ \A s \in Syncs : ThreadOf[saving[s].msg] \notin raced => Saving(s)

\* What the walk has shown lies behind the cursor unless its date went back, and what it
\* must still show lies before it; the rows of the page in the making are those of the
\* threads that keep still, none is newer than the thread is now, and none that was
\* shown is before the cursor.
WalkInv ==
  /\ walk.twice \subseteq fell
  /\ walk.pc \in {"ask", "page"} =>
       /\ walk.after = NoKey => walk.shown = {}
       /\ \A t \in walk.shown \ fell : ~Before(KeyIn(thread, t), walk.after)
       /\ \A t \in steady :
            Passes(t) => t \in walk.shown \/ walk.after = NoKey \/ Before(KeyIn(thread, t), walk.after)
  /\ walk.pc = "page" =>
       /\ \A t \in steady : walk.rows[t] = thread[t] /\ thread[t] # NoRow
       /\ \A t \in Threads \ fell : walk.rows[t].latest <= thread[t].latest
       /\ \A t \in Threads : walk.rows[t].latest = 0 => walk.rows[t] = NoRow
       /\ \A t \in walk.shown \ fell :
            walk.rows[t] # NoRow => ~Before(KeyIn(walk.rows, t), walk.after)
  /\ walk.pc = "ask" => \A t \in steady : thread[t] # NoRow
  /\ walk.pc = "done" => {t \in steady : Passes(t)} \subseteq walk.shown

Connected == {ThreadOf[m] : m \in export.messages} \subseteq export.threads

ExportInv ==
  ~export.purged =>
    /\ export.pc = "threads" => \A m \in export.messages : Exists(ThreadOf[m])
    /\ export.pc \in {"hydrate", "done"} /\ Cardinality(export.threads) < Window => Connected

Whole == InboxTypeOK /\ RowsInv /\ SumsInv /\ WalkInv /\ ExportInv

\* A finite set has an element that a strict order puts none before: among the sets of
\* what is before an element, one that contains no other is empty.
LEMMA First ==
  ASSUME NEW S, IsFiniteSet(S), S # {}, NEW R,
         \A x \in S : <<x, x>> \notin R,
         \A x, y, z \in S : <<x, y>> \in R /\ <<y, z>> \in R => <<x, z>> \in R
  PROVE  \E x \in S : \A y \in S : <<y, x>> \notin R
<1> DEFINE Ahead(x) == {y \in S : <<y, x>> \in R}
           All == {Ahead(x) : x \in S}
           Less == StrictSubsetOrdering(S)
<1>1. IsWellFoundedOn(Less, SUBSET S)
  BY FS_StrictSubsetOrderingWellFounded, FS_FiniteSubsetsOfFinite
<1>2. PICK U \in All : \A V \in All : <<V, U>> \notin Less
  <2>1. All \subseteq SUBSET S /\ All # {}
    <3>1. \A x \in S : Ahead(x) \in SUBSET S
      OBVIOUS
    <3>2. PICK x \in S : TRUE
      OBVIOUS
    <3> HIDE DEF Ahead
    <3>. QED  BY <3>1, <3>2
  <2> HIDE DEF All, Less
  <2>. QED  BY <1>1, <2>1, WFMin
<1>3. PICK x \in S : U = Ahead(x)
  BY <1>2
<1>4. ASSUME NEW y \in S, <<y, x>> \in R  PROVE FALSE
  <2>1. Ahead(y) \subseteq U
    BY <1>3, <1>4
  <2>2. y \in U /\ y \notin Ahead(y)
    BY <1>3, <1>4
  <2>3. <<Ahead(y), U>> \in Less
    BY <1>3, <2>1, <2>2 DEF StrictSubsetOrdering
  <2>. QED  BY <1>2, <2>3
<1>. QED  BY <1>4

LEMMA MaxOf ==
  ASSUME NEW S \in SUBSET Nat, IsFiniteSet(S), S # {}
  PROVE  Max(S) \in S /\ \A x \in S : x <= Max(S)
<1> DEFINE R == {p \in S \X S : p[1] > p[2]}
<1>1. \E x \in S : \A y \in S : <<y, x>> \notin R
  <2>1. \A x \in S : <<x, x>> \notin R
    OBVIOUS
  <2>2. \A x, y, z \in S : <<x, y>> \in R /\ <<y, z>> \in R => <<x, z>> \in R
    OBVIOUS
  <2> HIDE DEF R
  <2>. QED  BY <2>1, <2>2, First
<1>2. \A x, y \in S : <<y, x>> \notin R => x >= y
  OBVIOUS
<1>3. \E x \in S : \A y \in S : x >= y
  <2> HIDE DEF R
  <2>. QED  BY <1>1, <1>2
<1>. QED  BY <1>3 DEF Max

LEMMA MaxPair ==
  ASSUME NEW a \in Nat, NEW b \in Nat
  PROVE  Max({a, b}) \in {a, b} /\ a <= Max({a, b}) /\ b <= Max({a, b})
<1>1. \E x \in {a, b} : \A y \in {a, b} : x >= y
  <2>1. CASE a >= b
    BY <2>1
  <2>2. CASE b >= a
    BY <2>2
  <2>. QED  BY <2>1, <2>2
<1>. QED  BY <1>1 DEF Max

LEMMA MinPair ==
  ASSUME NEW a \in Nat, NEW b \in Nat
  PROVE  Min({a, b}) \in {a, b} /\ Min({a, b}) <= a /\ Min({a, b}) <= b
<1>1. \E x \in {a, b} : \A y \in {a, b} : x <= y
  <2>1. CASE a <= b
    BY <2>1
  <2>2. CASE b <= a
    BY <2>2
  <2>. QED  BY <2>1, <2>2
<1>. QED  BY <1>1 DEF Min

LEMMA ImageIsFinite ==
  ASSUME NEW S, IsFiniteSet(S), NEW f
  PROVE  IsFiniteSet({f[x] : x \in S})
<1> DEFINE T == {f[x] : x \in S}
           g == [x \in S |-> f[x]]
<1>1. g \in [S -> T] /\ \A y \in T : \E x \in S : g[x] = y
  OBVIOUS
<1>2. g \in Surjection(S, T)
  BY <1>1 DEF Surjection
<1>. QED  BY <1>2, FS_Surjection

LEMMA MessageFacts ==
  /\ \A m \in Messages : ThreadOf[m] \in Threads /\ At[m] \in Nat /\ At[m] > 0
  /\ Threads \subseteq Nat
  /\ IsFiniteSet(Threads)
<1>1. IsFiniteSet(Threads)
  BY MessageAssumption, ImageIsFinite DEF Threads
<1>. QED  BY <1>1, MessageAssumption DEF Threads

\* What a deletion leaves of a row: it is the sum of what remains, and has a date.
LEMMA RecountedRow ==
  ASSUME InboxTypeOK, RowsInv, NEW m \in stored
  PROVE  LET t == ThreadOf[m]
             saved == Recounted(t, In(t) \ {m})
         IN saved \in Row /\ saved.latest # 0 /\ Sums(saved, In(t) \ {m})
<1> DEFINE t == ThreadOf[m]
           rest == In(t) \ {m}
           saved == Recounted(t, rest)
           dates == {At[x] : x \in rest}
<1>1. m \in Messages /\ t \in Threads /\ thread[t] \in Row /\ thread[t].latest # 0
  BY MessageFacts DEF InboxTypeOK, RowsInv, Exists, NoRow
<1>2. rest \subseteq Messages /\ IsFiniteSet(rest) /\ Cardinality(rest) \in Nat
  <2>1. rest \subseteq Messages
    BY DEF InboxTypeOK, In
  <2>. QED  BY <2>1, MessageAssumption, FS_Subset, FS_CardinalityType
<1>3. CASE rest = {}
  <2>1. saved = [latest |-> thread[t].latest, count |-> 0]
    BY <1>3, FS_EmptySet DEF Recounted
  <2>. QED  BY <1>1, <1>3, <2>1, FS_EmptySet DEF Row, Sums
<1>4. CASE rest # {}
  <2>1. dates \in SUBSET Nat /\ dates # {} /\ \A d \in dates : d # 0
    BY <1>2, <1>4, MessageFacts
  <2>2. IsFiniteSet(dates)
    BY <1>2, ImageIsFinite
  <2>3. Max(dates) \in dates /\ \A d \in dates : d <= Max(dates)
    BY <2>1, <2>2, MaxOf
  <2>4. saved = [latest |-> Max(dates), count |-> Cardinality(rest)]
    BY <1>4 DEF Recounted
  <2> HIDE DEF dates
  <2>5. \A x \in rest : At[x] \in dates
    BY DEF dates
  <2>6. saved \in Row /\ saved.latest # 0
    <3>1. Max(dates) \in Nat /\ Max(dates) # 0
      BY <2>1, <2>3
    <3> HIDE DEF rest, saved
    <3>2. saved.latest = Max(dates) /\ saved = [latest |-> Max(dates), count |-> Cardinality(rest)]
      BY <2>4
    <3>3. saved \in Row
      BY <1>2, <3>1, <2>4 DEF Row
    <3>. QED  BY <3>1, <3>2, <3>3
  <2>7. Sums(saved, rest)
    BY <2>3, <2>4, <2>5 DEF Sums
  <2>. QED  BY <2>6, <2>7
<1>. QED  BY <1>3, <1>4

LEMMA UpdatedRow ==
  ASSUME NEW seen \in Row, NEW m \in Messages
  PROVE  LET saved == Updated(seen, m)
         IN /\ saved \in Row /\ saved.latest # 0
            /\ saved.count = seen.count + 1 /\ seen.latest <= saved.latest /\ At[m] <= saved.latest
BY MaxPair, MessageFacts DEF Updated, Row

\* What is saved over a row.
LEMMA RowSaved ==
  ASSUME InboxTypeOK, NEW t \in Threads, NEW saved \in Row, SavesRow(t, saved)
  PROVE  /\ thread' \in [Threads -> Row] /\ thread'[t] = saved
         /\ \A u \in Threads \ {t} : thread'[u] = thread[u]
         /\ steady' = steady \ {t} /\ fell' \in SUBSET Threads /\ fell \subseteq fell'
         /\ walk.pc # "idle" /\ saved.latest < thread[t].latest => t \in fell'
BY DEF InboxTypeOK, SavesRow

SavingRecord == [pc : {"idle", "read", "insert", "update"}, msg : Messages, seen : Row]

LEMMA SavingFields ==
  ASSUME InboxTypeOK, NEW s \in Syncs
  PROVE  /\ saving[s] \in SavingRecord
         /\ saving[s].msg \in Messages /\ saving[s].seen \in Row
         /\ ThreadOf[saving[s].msg] \in Threads
BY MessageFacts DEF InboxTypeOK, SavingRecord

LEMMA WholeInit == InboxInit => Whole
<1> SUFFICES ASSUME InboxInit  PROVE Whole
  OBVIOUS
<1> USE DEF InboxInit
<1>1. (CHOOSE m \in Messages : TRUE) \in Messages
  BY MessageAssumption
<1>2. NoRow \in Row /\ NoKey \in Key
  BY DEF NoRow, Row, NoKey, Key
<1>3. InboxTypeOK
  <2>1. saving \in [Syncs -> SavingRecord]
    BY <1>1, <1>2 DEF SavingRecord
  <2>2. saves \in 0 .. MaxSaves
    BY LimitAssumption
  <2>. QED  BY <1>2, <2>1, <2>2 DEF InboxTypeOK, SavingRecord, NoWalk, NoExport
<1>4. RowsInv
  BY DEF RowsInv
<1>5. SumsInv
  <2>1. \A t \in Threads : In(t) = {}
    BY DEF In
  <2>2. \A t \in Threads : Sums(thread[t], In(t))
    BY <2>1, FS_EmptySet DEF Sums, NoRow
  <2>. QED  BY <2>2 DEF SumsInv, Saving
<1>6. WalkInv /\ ExportInv
  BY DEF WalkInv, ExportInv, NoWalk, NoExport
<1>. QED  BY <1>3, <1>4, <1>5, <1>6 DEF Whole

-----------------------------------------------------------------------------
(* Types of the inbox.                                                      *)

LEMMA SavingTypes ==
  ASSUME InboxTypeOK, NEW s \in Syncs,
         NEW pc \in {"idle", "read", "insert", "update"}, saving' = [saving EXCEPT ![s].pc = pc]
  PROVE  saving' \in [Syncs -> SavingRecord]
BY DEF InboxTypeOK, SavingRecord

LEMMA NewestRows ==
  ASSUME NEW rows, NEW R \in Newest(rows)
  PROVE  /\ R \subseteq {t \in Threads : rows[t] # NoRow}
         /\ Cardinality(R) = Min({Window, Cardinality({t \in Threads : rows[t] # NoRow})})
BY DEF Newest

WalkRecord == [pc : {"idle", "ask", "page", "done"}, unread : BOOLEAN, after : Key,
               rows : [Threads -> Row], shown : SUBSET Threads, twice : SUBSET Threads]
ExportRecord == [pc : {"idle", "threads", "hydrate", "done", "failed"},
                 messages : SUBSET Messages, threads : SUBSET Threads, purged : BOOLEAN]

\* A page in the making: what matches, what of it is shown, and whether there is more.
Match == {t \in Threads : walk.rows[t] # NoRow /\ Passes(t) /\ Follows(KeyIn(walk.rows, t))}
AheadOf(t) == {u \in Match : Before(KeyIn(walk.rows, t), KeyIn(walk.rows, u))}
Items == {t \in Match : Cardinality(AheadOf(t)) < PageSize}
CursorAfter ==
  CHOOSE k \in {KeyIn(walk.rows, t) : t \in Items} :
    \A t \in Items : ~Before(KeyIn(walk.rows, t), k)

LEMMA PageMade ==
  ASSUME MakePage
  PROVE  /\ walk.pc = "page"
         /\ walk' = [walk EXCEPT
              !.pc = IF Items # Match THEN "ask" ELSE "done",
              !.shown = @ \cup Items, !.twice = @ \cup (walk.shown \cap Items),
              !.rows = NoWalk.rows,
              !.after = IF Items # Match THEN CursorAfter ELSE NoKey]
         /\ steady' = {t \in steady : Passes(t)}
         /\ UNCHANGED <<thread, stored, saving, export, saves, raced, fell>>
BY DEF MakePage, Items, Match, AheadOf, CursorAfter

LEMMA KeyFacts ==
  ASSUME NEW rows \in [Threads -> Row], NEW t \in Threads
  PROVE  /\ KeyIn(rows, t) \in Key
         /\ KeyIn(rows, t)[1] = rows[t].latest /\ KeyIn(rows, t)[2] = t
         /\ t \in Nat /\ rows[t].latest \in Nat
BY MessageFacts DEF KeyIn, Key, Row

LEMMA BeforeIsOrder ==
  ASSUME NEW a \in Key, NEW b \in Key, NEW c \in Key
  PROVE  /\ ~Before(a, a)
         /\ Before(a, b) /\ Before(b, c) => Before(a, c)
         /\ Before(a, b) \/ a = b \/ Before(b, a)
BY DEF Before, Key

\* What is shown is what matches, whole or cut; a cut leaves a cursor.
LEMMA PageFacts ==
  ASSUME InboxTypeOK, Items # Match
  PROVE  /\ \E t \in Items : CursorAfter = KeyIn(walk.rows, t)
         /\ \A t \in Items : ~Before(KeyIn(walk.rows, t), CursorAfter)
<1> DEFINE K(t) == KeyIn(walk.rows, t)
           later == {p \in Match \X Match : Before(K(p[2]), K(p[1]))}
           early == {p \in Match \X Match : Before(K(p[1]), K(p[2]))}
<1>1. walk.rows \in [Threads -> Row]
  BY DEF InboxTypeOK
<1>2. Match \subseteq Threads /\ Items \subseteq Match /\ IsFiniteSet(Match) /\ IsFiniteSet(Items)
  BY MessageFacts, FS_Subset DEF Match, Items
<1>3. \A t \in Match : K(t) \in Key
  BY <1>1, <1>2, KeyFacts
<1>4. \A x, y \in Match : <<x, y>> \in later <=> Before(K(y), K(x))
  OBVIOUS
<1>5. \A x, y \in Match : <<x, y>> \in early <=> Before(K(x), K(y))
  OBVIOUS
<1>6. \A x, y, z \in Match :
        ~Before(K(x), K(x)) /\ (Before(K(x), K(y)) /\ Before(K(y), K(z)) => Before(K(x), K(z)))
  <2> HIDE DEF K
  <2>. QED  BY <1>3, BeforeIsOrder
<1> HIDE DEF K, later, early
<1>7. \E t \in Match : AheadOf(t) = {}
  <2>1. \E t \in Match : \A u \in Match : <<u, t>> \notin later
    BY <1>2, <1>4, <1>6, First
  <2>. QED  BY <2>1, <1>4 DEF AheadOf, K
<1>8. Items # {}
  BY <1>7, FS_EmptySet, LimitAssumption DEF Items
<1>9. \E t \in Items : \A u \in Items : <<u, t>> \notin early
  <2>1. \A x \in Items : <<x, x>> \notin early
    BY <1>2, <1>5, <1>6
  <2>2. \A x, y, z \in Items : <<x, y>> \in early /\ <<y, z>> \in early => <<x, z>> \in early
    <3>. SUFFICES ASSUME NEW x \in Items, NEW y \in Items, NEW z \in Items,
                         <<x, y>> \in early, <<y, z>> \in early
                  PROVE  <<x, z>> \in early
      OBVIOUS
    <3>1. x \in Match /\ y \in Match /\ z \in Match
      BY <1>2
    <3>. QED  BY <3>1, <1>5, <1>6
  <2> HIDE DEF Items
  <2>. QED  BY <1>2, <1>8, <2>1, <2>2, First
<1>10. \E k \in {K(t) : t \in Items} : \A t \in Items : ~Before(K(t), k)
  BY <1>2, <1>5, <1>9
<1>. QED  BY <1>10 DEF CursorAfter, K

LEMMA InboxTypes ==
  ASSUME InboxTypeOK, RowsInv, InboxNext
  PROVE  InboxTypeOK'
<1> USE DEF InboxTypeOK
<1>n. NoRow \in Row /\ NoKey \in Key /\ NoWalk \in WalkRecord /\ NoExport \in ExportRecord
  BY DEF NoRow, Row, NoKey, Key, NoWalk, WalkRecord, NoExport, ExportRecord
<1>w. /\ walk \in WalkRecord /\ export \in ExportRecord
      /\ saving \in [Syncs -> SavingRecord]
  BY DEF WalkRecord, ExportRecord, SavingRecord
<1>t. ASSUME /\ saving' \in [Syncs -> SavingRecord] /\ thread' \in [Threads -> Row]
             /\ stored' \subseteq Messages /\ saves' \in 0 .. MaxSaves
             /\ walk' \in WalkRecord /\ export' \in ExportRecord
             /\ raced' \subseteq Threads /\ steady' \subseteq Threads /\ fell' \subseteq Threads
      PROVE  InboxTypeOK'
  BY <1>t DEF WalkRecord, ExportRecord, SavingRecord
<1>1. ASSUME NEW s \in Syncs, NEW m \in Messages, ReadThread(s, m)  PROVE InboxTypeOK'
  <2>1. thread[ThreadOf[m]] \in Row /\ ThreadOf[m] \in Threads
    BY MessageFacts
  <2>2. saving' \in [Syncs -> SavingRecord]
    BY <1>1, <1>w, <2>1 DEF ReadThread, SavingRecord
  <2>3. saves' \in 0 .. MaxSaves
    BY <1>1, LimitAssumption DEF ReadThread
  <2>. QED  BY <1>1, <1>t, <1>w, <2>1, <2>2, <2>3 DEF ReadThread, Readers
<1>2. ASSUME NEW s \in Syncs, SaveNewThread(s)  PROVE InboxTypeOK'
  <2>1. saving' \in [Syncs -> SavingRecord]
    BY <1>2, SavingTypes DEF SaveNewThread
  <2>2. [latest |-> At[saving[s].msg], count |-> 1] \in Row
    BY SavingFields, MessageFacts DEF Row
  <2>3. thread' \in [Threads -> Row] /\ steady' \subseteq Threads /\ fell' \subseteq Threads
    BY <1>2, <2>2, SavingFields, RowSaved DEF SaveNewThread
  <2>. QED  BY <1>2, <1>t, <1>w, <2>1, <2>3 DEF SaveNewThread, Readers
<1>3. ASSUME NEW s \in Syncs, InsertMessage(s)  PROVE InboxTypeOK'
  <2>1. saving' \in [Syncs -> SavingRecord]
    BY <1>3, SavingTypes DEF InsertMessage
  <2>. QED  BY <1>3, <1>t, <1>w, <2>1, SavingFields DEF InsertMessage, Readers
<1>4. ASSUME NEW s \in Syncs, UpdateThread(s)  PROVE InboxTypeOK'
  <2>1. saving' \in [Syncs -> SavingRecord]
    BY <1>4, SavingTypes DEF UpdateThread
  <2>2. Updated(saving[s].seen, saving[s].msg) \in Row
    BY SavingFields, UpdatedRow
  <2>3. thread' \in [Threads -> Row] /\ steady' \subseteq Threads /\ fell' \subseteq Threads
    BY <1>4, <2>2, SavingFields, RowSaved DEF UpdateThread
  <2>. QED  BY <1>4, <1>t, <1>w, <2>1, <2>3 DEF UpdateThread, Readers
<1>5. ASSUME NEW s \in Syncs, SaveFails(s)  PROVE InboxTypeOK'
  <2>1. saving' \in [Syncs -> SavingRecord]
    BY <1>5, SavingTypes DEF SaveFails
  <2>. QED  BY <1>5, <1>t, <1>w, <2>1, SavingFields DEF SaveFails, Readers
<1>6. ASSUME NEW m \in Messages, DeleteMessage(m)  PROVE InboxTypeOK'
  <2>1. /\ m \in stored /\ ThreadOf[m] \in Threads
        /\ SavesRow(ThreadOf[m], Recounted(ThreadOf[m], In(ThreadOf[m]) \ {m}))
    BY <1>6, MessageFacts DEF DeleteMessage
  <2>2. Recounted(ThreadOf[m], In(ThreadOf[m]) \ {m}) \in Row
    BY <2>1, RecountedRow
  <2>3. thread' \in [Threads -> Row] /\ steady' \subseteq Threads /\ fell' \subseteq Threads
    BY <2>1, <2>2, RowSaved
  <2>. QED  BY <1>6, <1>t, <1>w, <2>1, <2>3 DEF DeleteMessage, Readers
<1>7. ASSUME PurgeConnection  PROVE InboxTypeOK'
  <2>1. export' \in ExportRecord
    BY <1>7, <1>w DEF PurgeConnection, ExportRecord
  <2>. QED  BY <1>7, <1>t, <1>w, <1>n, <2>1 DEF PurgeConnection
<1>8. ASSUME BeginWalk  PROVE InboxTypeOK'
  <2>1. walk' \in WalkRecord
    BY <1>8, <1>n DEF BeginWalk, WalkRecord
  <2>. QED  BY <1>8, <1>t, <1>w, <1>n, <2>1 DEF BeginWalk
<1>9. ASSUME ReadThreads  PROVE InboxTypeOK'
  <2>1. PICK R \in Newest(thread) :
          /\ walk' = [walk EXCEPT !.pc = "page",
                        !.rows = [t \in Threads |-> IF t \in R THEN thread[t] ELSE NoRow]]
          /\ steady' = steady \cap R
    BY <1>9 DEF ReadThreads
  <2>2. walk' \in WalkRecord
    BY <1>w, <1>n, <2>1 DEF WalkRecord
  <2>. QED  BY <1>9, <1>t, <1>w, <2>1, <2>2 DEF ReadThreads
<1>10. ASSUME MakePage  PROVE InboxTypeOK'
  <2>1. Items \subseteq Threads
    BY DEF Items, Match
  <2>2. Items # Match => CursorAfter \in Key
    BY <2>1, PageFacts, KeyFacts
  <2>3. NoWalk.rows \in [Threads -> Row]
    BY <1>n DEF NoWalk
  <2> DEFINE pc == IF Items # Match THEN "ask" ELSE "done"
             after == IF Items # Match THEN CursorAfter ELSE NoKey
  <2>a. pc \in {"ask", "done"} /\ after \in Key
    BY <1>n, <2>2
  <2>b. walk' = [walk EXCEPT !.pc = pc, !.shown = @ \cup Items,
                   !.twice = @ \cup (walk.shown \cap Items),
                   !.rows = NoWalk.rows, !.after = after]
    BY <1>10, PageMade
  <2> HIDE DEF pc, after
  <2>4. walk' \in WalkRecord
    BY <1>w, <2>1, <2>3, <2>a, <2>b DEF WalkRecord
  <2>. QED  BY <1>10, <1>t, <1>w, <2>4, PageMade
<1>11. ASSUME BeginExport  PROVE InboxTypeOK'
  <2>1. export' \in ExportRecord
    BY <1>11, <1>n DEF BeginExport, ExportRecord
  <2>. QED  BY <1>11, <1>t, <1>w, <1>n, <2>1 DEF BeginExport
<1>12. ASSUME ExportThreads  PROVE InboxTypeOK'
  <2>1. PICK R \in Newest(thread) : export' = [export EXCEPT !.pc = "hydrate", !.threads = R]
    BY <1>12 DEF ExportThreads
  <2>2. R \subseteq Threads
    BY NewestRows
  <2>3. export' \in ExportRecord
    BY <1>w, <2>1, <2>2 DEF ExportRecord
  <2>. QED  BY <1>12, <1>t, <1>w, <2>3 DEF ExportThreads
<1>13. ASSUME Hydrate  PROVE InboxTypeOK'
  <2>1. export' \in ExportRecord
    BY <1>13, <1>w DEF Hydrate, ExportRecord
  <2>. QED  BY <1>13, <1>t, <1>w, <2>1 DEF Hydrate
<1>. QED
  BY <1>1, <1>2, <1>3, <1>4, <1>5, <1>6, <1>7, <1>8, <1>9, <1>10, <1>11, <1>12, <1>13
  DEF InboxNext, WalkStep

-----------------------------------------------------------------------------
(* Rows exist and are dated; a row sums up its messages.                    *)

LEMMA DatesStay ==
  ASSUME RowsInv, stored' \subseteq stored,
         \A t \in Threads : thread'[t].latest # 0 \/ thread'[t] = thread[t],
         InboxTypeOK
  PROVE  RowsInv'
<1>1. \A m \in stored' : ThreadOf[m] \in Threads
  BY MessageFacts DEF InboxTypeOK
<1>2. \A t \in Threads : Exists(t) => Exists(t)'
  BY DEF Exists, NoRow
<1>. QED  BY <1>1, <1>2 DEF RowsInv

LEMMA RowsStep ==
  ASSUME InboxTypeOK, RowsInv, InboxNext
  PROVE  RowsInv'
<1>1. ASSUME UNCHANGED <<thread, stored>>  PROVE RowsInv'
  BY <1>1 DEF RowsInv, Exists
<1>2. ASSUME NEW s \in Syncs, SaveNewThread(s)  PROVE RowsInv'
  <2>1. [latest |-> At[saving[s].msg], count |-> 1] \in Row /\ At[saving[s].msg] # 0
    BY SavingFields, MessageFacts DEF Row
  <2>. QED  BY <1>2, <2>1, SavingFields, RowSaved, DatesStay DEF SaveNewThread
<1>3. ASSUME NEW s \in Syncs, InsertMessage(s)  PROVE RowsInv'
  BY <1>3 DEF InsertMessage, RowsInv, Exists
<1>4. ASSUME NEW s \in Syncs, UpdateThread(s)  PROVE RowsInv'
  <2> DEFINE saved == Updated(saving[s].seen, saving[s].msg)
  <2>1. saved \in Row /\ saved.latest # 0
    BY SavingFields, UpdatedRow
  <2>2. SavesRow(ThreadOf[saving[s].msg], saved) /\ stored' = stored
    BY <1>4 DEF UpdateThread, Readers
  <2> HIDE DEF saved
  <2>. QED  BY <2>1, <2>2, SavingFields, RowSaved, DatesStay
<1>5. ASSUME NEW m \in Messages, DeleteMessage(m)  PROVE RowsInv'
  <2> DEFINE saved == Recounted(ThreadOf[m], In(ThreadOf[m]) \ {m})
  <2>1. m \in stored /\ stored' = stored \ {m} /\ SavesRow(ThreadOf[m], saved)
    BY <1>5 DEF DeleteMessage
  <2>2. saved \in Row /\ saved.latest # 0
    BY <2>1, RecountedRow
  <2> HIDE DEF saved
  <2>. QED  BY <2>1, <2>2, MessageFacts, RowSaved, DatesStay
<1>6. ASSUME PurgeConnection  PROVE RowsInv'
  BY <1>6 DEF PurgeConnection, RowsInv
<1>7. ASSUME \/ \E s \in Syncs, m \in Messages : ReadThread(s, m)
             \/ \E s \in Syncs : SaveFails(s)
             \/ BeginWalk \/ ReadThreads \/ MakePage
             \/ BeginExport \/ ExportThreads \/ Hydrate
      PROVE  UNCHANGED <<thread, stored>>
  BY <1>7 DEF ReadThread, SaveFails, BeginWalk, ReadThreads, MakePage, BeginExport,
              ExportThreads, Hydrate, Readers
<1>. QED
  BY <1>1, <1>2, <1>3, <1>4, <1>5, <1>6, <1>7 DEF InboxNext, WalkStep

LEMMA InFacts ==
  ASSUME InboxTypeOK, NEW t \in Threads
  PROVE  /\ In(t) \subseteq Messages /\ IsFiniteSet(In(t)) /\ Cardinality(In(t)) \in Nat
         /\ \A m \in stored : m \in In(t) <=> ThreadOf[m] = t
<1>1. In(t) \subseteq Messages
  BY DEF InboxTypeOK, In
<1>. QED  BY <1>1, MessageAssumption, FS_Subset, FS_CardinalityType DEF In

\* An execution whose thread nothing has happened to is as far as it was.
LEMMA SavingKeeps ==
  ASSUME NEW r \in Syncs, Saving(r), saving'[r] = saving[r],
         thread'[ThreadOf[saving[r].msg]] = thread[ThreadOf[saving[r].msg]],
         In(ThreadOf[saving[r].msg])' = In(ThreadOf[saving[r].msg])
  PROVE  Saving(r)'
<1>1. saving[r].msg \in stored => saving[r].msg \in stored'
  <2>1. saving[r].msg \in stored => saving[r].msg \in In(ThreadOf[saving[r].msg])
    BY DEF In
  <2>2. saving[r].msg \in In(ThreadOf[saving[r].msg])' => saving[r].msg \in stored'
    BY DEF In
  <2>. QED  BY <2>1, <2>2
<1>. QED  BY <1>1 DEF Saving

\* A step of one execution on its thread.
LEMMA SumsKeep ==
  ASSUME InboxTypeOK, SumsInv, NEW s \in Syncs, NEW t \in Threads,
         \A r \in Syncs \ {s} : saving'[r] = saving[r],
         ThreadOf[saving'[s].msg] = t,
         saving[s].pc # "idle" => ThreadOf[saving[s].msg] = t,
         \A u \in Threads \ {t} :
           thread'[u] = thread[u] /\ In(u)' = In(u) /\ (u \in raced' <=> u \in raced),
         t \notin raced' =>
           /\ \A r \in Syncs \ {s} : saving[r].pc = "idle" \/ ThreadOf[saving[r].msg] # t
           /\ IF saving'[s].pc = "idle" THEN Sums(thread'[t], In(t)') ELSE Saving(s)'
  PROVE  SumsInv'
<1>0. \A r \in Syncs : ThreadOf[saving[r].msg] \in Threads
  BY SavingFields
<1>1. ASSUME NEW u \in Threads \ raced', Busy(u)' = {}  PROVE Sums(thread'[u], In(u)')
  <2>1. CASE u = t
    <3>1. saving'[s].pc = "idle"
      BY <1>1, <2>1 DEF Busy
    <3>. QED  BY <2>1, <3>1
  <2>2. CASE u # t
    <3>1. Busy(u) = {}
      BY <1>1, <2>2 DEF Busy
    <3>2. Sums(thread[u], In(u))
      BY <2>2, <3>1 DEF SumsInv
    <3>. QED  BY <2>2, <3>2
  <2>. QED  BY <2>1, <2>2
<1>2. ASSUME NEW q \in Syncs, NEW r \in Syncs, q # r, saving'[q].pc # "idle", saving'[r].pc # "idle",
             ThreadOf[saving'[q].msg] = ThreadOf[saving'[r].msg]
      PROVE  ThreadOf[saving'[q].msg] \in raced'
  <2>1. CASE q = s
    BY <1>2, <2>1
  <2>2. CASE r = s
    BY <1>2, <2>2
  <2>3. CASE q # s /\ r # s
    <3>1. ThreadOf[saving[q].msg] \in raced
      BY <1>2, <2>3 DEF SumsInv
    <3>. QED  BY <1>0, <1>2, <2>3, <3>1
  <2>. QED  BY <2>1, <2>2, <2>3
<1>3. ASSUME NEW r \in Syncs, ThreadOf[saving'[r].msg] \notin raced'  PROVE Saving(r)'
  <2>1. CASE r = s
    <3>1. CASE saving'[s].pc = "idle"
      BY <2>1, <3>1 DEF Saving
    <3>. QED  BY <1>3, <2>1, <3>1
  <2>2. CASE r # s /\ saving[r].pc = "idle"
    BY <2>2 DEF Saving
  <2>3. CASE r # s /\ saving[r].pc # "idle"
    <3>1. ThreadOf[saving[r].msg] \in Threads \ {t}
      BY <1>0, <1>3, <2>3
    <3>2. Saving(r)
      BY <1>3, <2>3, <3>1 DEF SumsInv
    <3>. QED  BY <2>3, <3>1, <3>2, SavingKeeps
  <2>. QED  BY <2>1, <2>2, <2>3
<1>. QED  BY <1>1, <1>2, <1>3 DEF SumsInv

\* An execution on a thread that is not raced for is alone on it.
LEMMA Alone ==
  ASSUME SumsInv, NEW s \in Syncs, saving[s].pc # "idle", ThreadOf[saving[s].msg] \notin raced
  PROVE  /\ Saving(s)
         /\ \A r \in Syncs \ {s} :
              saving[r].pc = "idle" \/ ThreadOf[saving[r].msg] # ThreadOf[saving[s].msg]
BY DEF SumsInv

\* What no step touches keeps what the rows say.
LEMMA SumsStay ==
  ASSUME SumsInv, UNCHANGED <<thread, stored, saving, raced>>
  PROVE  SumsInv'
<1>1. thread' = thread /\ stored' = stored /\ saving' = saving /\ raced' = raced
  OBVIOUS
<1>2. \A t : In(t)' = In(t) /\ Busy(t)' = Busy(t)
  BY <1>1 DEF In, Busy
<1>3. ASSUME NEW s \in Syncs, Saving(s)  PROVE Saving(s)'
  BY <1>1, <1>2, <1>3 DEF Saving
<1>4. /\ \A t \in Threads \ raced' : Busy(t)' = {} => Sums(thread'[t], In(t)')
      /\ \A s \in Syncs : ThreadOf[saving'[s].msg] \notin raced' => Saving(s)'
  BY <1>1, <1>2, <1>3 DEF SumsInv
<1>. QED  BY <1>1, <1>4 DEF SumsInv, Sums

LEMMA SumsStep ==
  ASSUME InboxTypeOK, RowsInv, SumsInv, InboxNext
  PROVE  SumsInv'
<1>0. /\ saving \in [Syncs -> SavingRecord] /\ raced \subseteq Threads /\ stored \subseteq Messages
      /\ thread \in [Threads -> Row]
  BY DEF InboxTypeOK, SavingRecord
<1>i. ASSUME stored' = stored, NEW t \in Threads  PROVE In(t)' = In(t)
  BY <1>i DEF In
<1>1. ASSUME NEW s \in Syncs, NEW m \in Messages, ReadThread(s, m)  PROVE SumsInv'
  <2> DEFINE t == ThreadOf[m]
  <2>1. /\ t \in Threads /\ saving[s].pc = "idle"
        /\ thread' = thread /\ stored' = stored
        /\ saving'[s] = [pc |-> IF Exists(t) THEN "insert" ELSE "read", msg |-> m, seen |-> thread[t]]
        /\ \A r \in Syncs \ {s} : saving'[r] = saving[r]
        /\ raced' = IF Busy(t) = {} THEN raced ELSE raced \cup {t}
    BY <1>0, <1>1, MessageFacts DEF ReadThread
  <2>2. In(t)' = In(t)
    BY <2>1, <1>i
  <2>3. ASSUME t \notin raced'
        PROVE  /\ \A r \in Syncs \ {s} : saving[r].pc = "idle" \/ ThreadOf[saving[r].msg] # t
               /\ Saving(s)'
    <3>1. Busy(t) = {} /\ t \notin raced
      BY <2>1, <2>3
    <3>2. Sums(thread[t], In(t))
      BY <2>1, <3>1 DEF SumsInv
    <3>a. \A r \in Syncs \ {s} : saving[r].pc = "idle" \/ ThreadOf[saving[r].msg] # t
      BY <3>1 DEF Busy
    <3>3. CASE Exists(t)
      <4>1. /\ saving'[s].pc = "insert" /\ saving'[s].msg = m
            /\ saving'[s].seen = thread[t] /\ saving'[s].seen # NoRow /\ thread'[t] = thread[t]
        BY <2>1, <3>3 DEF Exists
      <4>. QED  BY <2>2, <3>a, <3>2, <4>1 DEF Saving
    <3>4. CASE ~Exists(t)
      <4>1. Cardinality(In(t)) = 0
        BY <3>2, <3>4 DEF Sums, Exists, NoRow
      <4>2. In(t) = {}
        BY <2>1, <4>1, InFacts, FS_EmptySet
      <4>3. /\ saving'[s].pc = "read" /\ saving'[s].msg = m
            /\ saving'[s].seen = NoRow /\ thread'[t] = NoRow
        BY <2>1, <3>4 DEF Exists
      <4>. QED  BY <2>2, <3>a, <4>2, <4>3 DEF Saving
    <3>. QED  BY <3>3, <3>4
  <2>. QED  BY <2>1, <2>3, <1>i, SumsKeep
<1>2. ASSUME NEW s \in Syncs, SaveNewThread(s)  PROVE SumsInv'
  <2> DEFINE m == saving[s].msg
             t == ThreadOf[m]
             saved == [latest |-> At[m], count |-> 1]
  <2>1. saved \in Row /\ t \in Threads
    BY SavingFields, MessageFacts DEF Row
  <2>2. /\ saving[s].pc = "read" /\ SavesRow(t, saved)
        /\ saving' = [saving EXCEPT ![s].pc = "insert"]
        /\ stored' = stored /\ raced' = raced
    BY <1>2 DEF SaveNewThread
  <2>3. /\ saving'[s].pc = "insert" /\ saving'[s].msg = m /\ saving'[s].seen = saving[s].seen
        /\ \A r \in Syncs \ {s} : saving'[r] = saving[r]
    BY <1>0, <2>2 DEF SavingRecord
  <2>4. thread'[t] = saved /\ \A u \in Threads \ {t} : thread'[u] = thread[u]
    BY <2>1, <2>2, RowSaved
  <2>5. ASSUME t \notin raced
        PROVE  /\ \A r \in Syncs \ {s} : saving[r].pc = "idle" \/ ThreadOf[saving[r].msg] # t
               /\ Saving(s)'
    <3>1. saving[s].seen = NoRow /\ In(t) = {}
      BY <2>2, <2>5, Alone DEF Saving
    <3>2. In(t)' = {}
      BY <2>1, <2>2, <3>1, <1>i
    <3>3. Saving(s)'
      BY <2>3, <2>4, <3>1, <3>2 DEF Saving
    <3>. QED  BY <2>2, <2>5, <3>3, Alone
  <2>. QED  BY <2>1, <2>2, <2>3, <2>4, <2>5, <1>i, SumsKeep
<1>3. ASSUME NEW s \in Syncs, InsertMessage(s)  PROVE SumsInv'
  <2> DEFINE m == saving[s].msg
             t == ThreadOf[m]
             seen == saving[s].seen
             pc == IF m \notin stored /\ seen # NoRow THEN "update" ELSE "idle"
  <2>1. /\ saving[s].pc = "insert" /\ stored' = stored \cup {m}
        /\ saving' = [saving EXCEPT ![s].pc = pc]
        /\ thread' = thread /\ raced' = raced
    BY <1>3 DEF InsertMessage
  <2>2. /\ saving'[s].pc = pc /\ saving'[s].msg = m /\ saving'[s].seen = seen
        /\ \A r \in Syncs \ {s} : saving'[r] = saving[r]
    BY <1>0, <2>1 DEF SavingRecord
  <2>3. /\ t \in Threads /\ m \in Messages /\ In(t)' = In(t) \cup {m}
        /\ \A u \in Threads \ {t} : In(u)' = In(u)
    BY <2>1, SavingFields DEF In
  <2>4. ASSUME t \notin raced
        PROVE  IF pc = "idle" THEN Sums(thread[t], In(t)') ELSE Saving(s)'
    <3>1. CASE seen = NoRow
      <4>1. thread[t] = [latest |-> At[m], count |-> 1] /\ In(t)' = {m}
        BY <2>1, <2>3, <2>4, <3>1, Alone DEF Saving
      <4>2. At[m] <= At[m] /\ Cardinality({m}) = 1
        <5>1. Cardinality({m}) = 1
          BY FS_Singleton
        <5>2. At[m] \in Nat
          BY <2>3, MessageFacts
        <5>. QED  BY <5>1, <5>2
      <4>. QED  BY <3>1, <4>1, <4>2 DEF Sums
    <3>2. CASE seen # NoRow
      <4>1. thread[t] = seen /\ Sums(seen, In(t))
        BY <2>1, <2>4, <3>2, Alone DEF Saving
      <4>2. CASE m \in stored
        <5>1. In(t)' = In(t)
          BY <2>3, <4>2 DEF In
        <5>. QED  BY <4>1, <4>2, <5>1
      <4>3. CASE m \notin stored
        <5>1. In(t)' \ {m} = In(t)
          BY <2>3, <4>3 DEF In
        <5>2. Saving(s)'
          BY <2>1, <2>2, <3>2, <4>1, <4>3, <5>1 DEF Saving
        <5>. QED  BY <3>2, <4>3, <5>2
      <4>. QED  BY <4>2, <4>3
    <3>. QED  BY <3>1, <3>2
  <2> HIDE DEF pc
  <2>5. t \notin raced => \A r \in Syncs \ {s} : saving[r].pc = "idle" \/ ThreadOf[saving[r].msg] # t
    BY <2>1, Alone
  <2>. QED  BY <2>1, <2>2, <2>3, <2>4, <2>5, SumsKeep
<1>4. ASSUME NEW s \in Syncs, UpdateThread(s)  PROVE SumsInv'
  <2> DEFINE m == saving[s].msg
             t == ThreadOf[m]
             seen == saving[s].seen
             saved == Updated(seen, m)
  <2>1. /\ saving[s].pc = "update" /\ SavesRow(t, saved)
        /\ saving' = [saving EXCEPT ![s].pc = "idle"]
        /\ stored' = stored /\ raced' = raced
    BY <1>4 DEF UpdateThread
  <2>2. /\ saving'[s].pc = "idle" /\ saving'[s].msg = m
        /\ \A r \in Syncs \ {s} : saving'[r] = saving[r]
    BY <1>0, <2>1 DEF SavingRecord
  <2>3. /\ t \in Threads /\ m \in Messages /\ seen \in Row
        /\ saved \in Row /\ saved.count = seen.count + 1
        /\ seen.latest <= saved.latest /\ At[m] <= saved.latest
    BY SavingFields, UpdatedRow
  <2> HIDE DEF saved
  <2>4. thread'[t] = saved /\ \A u \in Threads \ {t} : thread'[u] = thread[u]
    BY <2>1, <2>3, RowSaved
  <2>5. ASSUME t \notin raced  PROVE Sums(saved, In(t))
    <3>1. m \in stored /\ Sums(seen, In(t) \ {m})
      BY <2>1, <2>5, Alone DEF Saving
    <3>2. m \in In(t) /\ In(t) \subseteq Messages /\ IsFiniteSet(In(t))
      BY <2>3, <3>1, InFacts
    <3>3. Cardinality(In(t)) = seen.count + 1
      <4>1. Cardinality(In(t) \ {m}) = Cardinality(In(t)) - 1
        BY <3>2, FS_RemoveElement
      <4>. QED  BY <2>3, <3>1, <4>1, InFacts DEF Sums
    <3>4. \A x \in In(t) : At[x] <= saved.latest
      <4>1. ASSUME NEW x \in In(t), x # m  PROVE At[x] <= saved.latest
        <5>1. At[x] \in Nat /\ At[x] <= seen.latest
          BY <3>1, <3>2, <4>1, MessageFacts DEF Sums
        <5>2. seen.latest \in Nat /\ saved.latest \in Nat
          BY <2>3 DEF Row
        <5>. QED  BY <2>3, <5>1, <5>2
      <4>. QED  BY <2>3, <4>1
    <3>. QED  BY <2>3, <3>3, <3>4 DEF Sums
  <2>6. t \notin raced => \A r \in Syncs \ {s} : saving[r].pc = "idle" \/ ThreadOf[saving[r].msg] # t
    BY <2>1, Alone
  <2>7. \A u \in Threads : In(u)' = In(u)
    BY <2>1, <1>i
  <2>. QED  BY <2>1, <2>2, <2>3, <2>4, <2>5, <2>6, <2>7, SumsKeep
<1>5. ASSUME NEW s \in Syncs, SaveFails(s)  PROVE SumsInv'
  <2> DEFINE t == ThreadOf[saving[s].msg]
  <2>1. /\ saving' = [saving EXCEPT ![s].pc = "idle"]
        /\ raced' = raced \cup {t} /\ thread' = thread /\ stored' = stored
    BY <1>5 DEF SaveFails
  <2>2. /\ saving'[s].msg = saving[s].msg /\ t \in Threads
        /\ \A r \in Syncs \ {s} : saving'[r] = saving[r]
    BY <1>0, <2>1, SavingFields DEF SavingRecord
  <2>. QED  BY <2>1, <2>2, <1>i, SumsKeep
<1>6. ASSUME NEW m \in Messages, DeleteMessage(m)  PROVE SumsInv'
  <2> DEFINE t == ThreadOf[m]
             saved == Recounted(t, In(t) \ {m})
  <2>1. /\ m \in stored /\ t \in Threads /\ stored' = stored \ {m} /\ SavesRow(t, saved)
        /\ raced' = IF Busy(t) = {} THEN raced \ {t} ELSE raced \cup {t}
        /\ saving' = saving
    BY <1>6, MessageFacts DEF DeleteMessage
  <2>2. saved \in Row /\ Sums(saved, In(t) \ {m})
    BY <2>1, RecountedRow
  <2> HIDE DEF saved
  <2>3. thread'[t] = saved /\ \A u \in Threads \ {t} : thread'[u] = thread[u]
    BY <2>1, <2>2, RowSaved
  <2>4. In(t)' = In(t) \ {m} /\ \A u \in Threads \ {t} : In(u)' = In(u)
    BY <2>1 DEF In
  <2>5. \A u \in Threads : Busy(u)' = Busy(u)
    BY <2>1 DEF Busy
  <2>6. ASSUME NEW u \in Threads \ raced', Busy(u)' = {}  PROVE Sums(thread'[u], In(u)')
    <3>1. CASE u = t
      BY <2>2, <2>3, <2>4, <3>1
    <3>2. CASE u # t
      <4>1. u \notin raced /\ Busy(u) = {}
        BY <2>1, <2>5, <2>6, <3>2
      <4>2. Sums(thread[u], In(u))
        BY <4>1 DEF SumsInv
      <4>. QED  BY <2>3, <2>4, <3>2, <4>2
    <3>. QED  BY <3>1, <3>2
  <2>7. ASSUME NEW q \in Syncs, NEW r \in Syncs, q # r, saving[q].pc # "idle", saving[r].pc # "idle",
               ThreadOf[saving[q].msg] = ThreadOf[saving[r].msg]
        PROVE  ThreadOf[saving[q].msg] \in raced'
    <3>1. ThreadOf[saving[q].msg] \in raced
      BY <2>7 DEF SumsInv
    <3>2. ThreadOf[saving[q].msg] = t => Busy(t) # {}
      BY <2>7 DEF Busy
    <3>. QED  BY <2>1, <3>1, <3>2
  <2>8. ASSUME NEW r \in Syncs, ThreadOf[saving[r].msg] \notin raced'  PROVE Saving(r)'
    <3>1. CASE saving[r].pc = "idle"
      BY <2>1, <3>1 DEF Saving
    <3>2. CASE saving[r].pc # "idle"
      <4>1. ThreadOf[saving[r].msg] # t
        BY <2>1, <2>8, <3>2 DEF Busy
      <4>2. ThreadOf[saving[r].msg] \in Threads /\ ThreadOf[saving[r].msg] \notin raced
        BY <2>1, <2>8, <4>1, SavingFields
      <4>3. Saving(r)
        BY <4>2 DEF SumsInv
      <4>. QED  BY <2>1, <2>3, <2>4, <4>1, <4>2, <4>3, SavingKeeps
    <3>. QED  BY <3>1, <3>2
  <2>. QED  BY <2>1, <2>6, <2>7, <2>8 DEF SumsInv
<1>7. ASSUME PurgeConnection  PROVE SumsInv'
  <2>1. /\ stored' = {} /\ thread' = [t \in Threads |-> NoRow] /\ saving' = saving
        /\ raced' = {t \in Threads : Busy(t) # {}}
    BY <1>7 DEF PurgeConnection
  <2>2. \A t \in Threads : Sums(thread'[t], In(t)')
    BY <2>1, FS_EmptySet DEF In, Sums, NoRow
  <2>3. \A r \in Syncs : saving[r].pc # "idle" => ThreadOf[saving[r].msg] \in raced'
    BY <2>1, SavingFields DEF Busy
  <2>4. \A r \in Syncs : ThreadOf[saving[r].msg] \notin raced' => Saving(r)'
    BY <2>1, <2>3 DEF Saving
  <2>. QED  BY <2>1, <2>2, <2>3, <2>4 DEF SumsInv
<1>8. ASSUME UNCHANGED <<thread, stored, saving, raced>>  PROVE SumsInv'
  BY <1>8, SumsStay
<1>9. ASSUME BeginWalk \/ ReadThreads \/ MakePage \/ BeginExport \/ ExportThreads \/ Hydrate
      PROVE  UNCHANGED <<thread, stored, saving, raced>>
  BY <1>9 DEF BeginWalk, ReadThreads, MakePage, BeginExport, ExportThreads, Hydrate
<1>. QED
  BY <1>1, <1>2, <1>3, <1>4, <1>5, <1>6, <1>7, <1>8, <1>9 DEF InboxNext, WalkStep

-----------------------------------------------------------------------------
(* The export.                                                              *)

LEMMA ExportStep ==
  ASSUME InboxTypeOK, RowsInv, RowsInv', ExportInv, InboxNext
  PROVE  ExportInv'
<1>0. export \in ExportRecord /\ stored \subseteq Messages
  BY DEF InboxTypeOK, ExportRecord
<1>m. export.messages \subseteq Messages /\ \A m \in export.messages : ThreadOf[m] \in Threads
  BY <1>0, MessageFacts DEF ExportRecord
<1>1. ASSUME export' = export, \A t \in Threads : Exists(t) => Exists(t)'  PROVE ExportInv'
  BY <1>1, <1>m DEF ExportInv, Connected
<1>2. ASSUME NEW t \in Threads, NEW saved \in Row, saved.latest # 0, SavesRow(t, saved), export' = export
      PROVE  ExportInv'
  <2>1. \A u \in Threads : Exists(u) => Exists(u)'
    BY <1>2, RowSaved DEF Exists, NoRow
  <2>. QED  BY <1>1, <1>2, <2>1
<1>3. ASSUME NEW s \in Syncs, SaveNewThread(s)  PROVE ExportInv'
  <2> DEFINE saved == [latest |-> At[saving[s].msg], count |-> 1]
  <2>1. saved \in Row /\ saved.latest # 0 /\ ThreadOf[saving[s].msg] \in Threads
    BY SavingFields, MessageFacts DEF Row
  <2>2. SavesRow(ThreadOf[saving[s].msg], saved) /\ export' = export
    BY <1>3 DEF SaveNewThread, Readers
  <2> HIDE DEF saved
  <2>. QED  BY <1>2, <2>1, <2>2
<1>4. ASSUME NEW s \in Syncs, UpdateThread(s)  PROVE ExportInv'
  <2> DEFINE saved == Updated(saving[s].seen, saving[s].msg)
  <2>1. saved \in Row /\ saved.latest # 0 /\ ThreadOf[saving[s].msg] \in Threads
    BY SavingFields, UpdatedRow
  <2>2. SavesRow(ThreadOf[saving[s].msg], saved) /\ export' = export
    BY <1>4 DEF UpdateThread, Readers
  <2> HIDE DEF saved
  <2>. QED  BY <1>2, <2>1, <2>2
<1>5. ASSUME NEW m \in Messages, DeleteMessage(m)  PROVE ExportInv'
  <2> DEFINE saved == Recounted(ThreadOf[m], In(ThreadOf[m]) \ {m})
  <2>1. m \in stored /\ SavesRow(ThreadOf[m], saved) /\ export' = export
    BY <1>5 DEF DeleteMessage, Readers
  <2>2. saved \in Row /\ saved.latest # 0 /\ ThreadOf[m] \in Threads
    BY <2>1, RecountedRow, MessageFacts
  <2> HIDE DEF saved
  <2>. QED  BY <1>2, <2>1, <2>2
<1>6. ASSUME PurgeConnection  PROVE ExportInv'
  <2>1. export' = [export EXCEPT !.purged = (export.pc # "idle")]
    BY <1>6 DEF PurgeConnection
  <2>2. export'.pc = export.pc /\ (export.pc # "idle" => export'.purged)
    BY <1>0, <2>1 DEF ExportRecord
  <2>. QED  BY <2>2 DEF ExportInv
<1>7. ASSUME BeginWalk  PROVE ExportInv'
  BY <1>7 DEF BeginWalk, ExportInv, NoExport
<1>8. ASSUME BeginExport  PROVE ExportInv'
  <2>1. export' = [pc |-> "threads", messages |-> stored, threads |-> {}, purged |-> FALSE]
        /\ UNCHANGED <<thread, stored>>
    BY <1>8 DEF BeginExport, NoExport
  <2>. QED  BY <2>1 DEF ExportInv, RowsInv, Exists
<1>9. ASSUME ExportThreads  PROVE ExportInv'
  <2>1. PICK R \in Newest(thread) : export' = [export EXCEPT !.pc = "hydrate", !.threads = R]
    BY <1>9 DEF ExportThreads
  <2>2. /\ export'.pc = "hydrate" /\ export'.threads = R
        /\ export'.messages = export.messages /\ export'.purged = export.purged
        /\ export.pc = "threads"
    BY <1>0, <1>9, <2>1 DEF ExportRecord, ExportThreads
  <2> DEFINE present == {t \in Threads : thread[t] # NoRow}
  <2>3. R \subseteq present /\ Cardinality(R) = Min({Window, Cardinality(present)})
    BY NewestRows
  <2>4. IsFiniteSet(present) /\ Cardinality(present) \in Nat
    BY MessageFacts, FS_Subset, FS_CardinalityType
  <2>5. Cardinality(R) < Window => R = present
    <3>1. Window \in Nat /\ Min({Window, Cardinality(present)}) \in {Window, Cardinality(present)}
      BY <2>4, LimitAssumption, MinPair
    <3>2. Cardinality(R) < Window => Cardinality(R) = Cardinality(present)
      BY <2>3, <3>1
    <3>. QED  BY <2>3, <2>4, <3>2, FS_Subset
  <2>6. ASSUME ~export.purged, NEW m \in export.messages  PROVE ThreadOf[m] \in present
    BY <1>m, <2>2, <2>6 DEF ExportInv, Exists
  <2> HIDE DEF present
  <2>. QED  BY <2>2, <2>5, <2>6 DEF ExportInv, Connected
<1>10. ASSUME Hydrate  PROVE ExportInv'
  <2>1. PICK content \in BOOLEAN :
          export' = [export EXCEPT !.pc = IF content /\ ~(export.messages \subseteq stored)
                                          THEN "failed" ELSE "done"]
    BY <1>10 DEF Hydrate
  <2>2. /\ export'.pc \in {"failed", "done"} /\ export'.threads = export.threads
        /\ export'.messages = export.messages /\ export'.purged = export.purged
        /\ export.pc = "hydrate"
    BY <1>0, <1>10, <2>1 DEF ExportRecord, Hydrate
  <2>. QED  BY <2>2 DEF ExportInv, Connected
<1>11. ASSUME \/ \E s \in Syncs, m \in Messages : ReadThread(s, m)
              \/ \E s \in Syncs : InsertMessage(s) \/ SaveFails(s)
              \/ ReadThreads \/ MakePage
       PROVE  ExportInv'
  <2>1. export' = export /\ thread' = thread
    BY <1>11 DEF ReadThread, InsertMessage, SaveFails, ReadThreads, MakePage, Readers
  <2>. QED  BY <1>1, <2>1 DEF Exists
<1>. QED
  BY <1>3, <1>4, <1>5, <1>6, <1>7, <1>8, <1>9, <1>10, <1>11 DEF InboxNext, WalkStep

-----------------------------------------------------------------------------
(* The walk over the pages.                                                 *)

\* A step of a synchronisation, as the walk sees it.
LEMMA WalkKeeps ==
  ASSUME InboxTypeOK, WalkInv, walk' = walk, steady' \subseteq steady, fell \subseteq fell',
         \A t \in steady' : thread'[t] = thread[t] /\ In(t)' = In(t),
         \A t \in Threads : thread'[t].latest \in Nat,
         walk.pc # "idle" => \A t \in Threads \ fell' : thread[t].latest <= thread'[t].latest
  PROVE  WalkInv'
<1>0. /\ walk \in WalkRecord /\ thread \in [Threads -> Row] /\ steady \subseteq Threads
      /\ walk.shown \subseteq Threads /\ walk.rows \in [Threads -> Row]
      /\ walk.after \in Key
  BY DEF InboxTypeOK, WalkRecord
<1>1. \A t \in steady' : t \in steady /\ (Passes(t)' <=> Passes(t))
  BY DEF Passes
<1>2. \A t \in steady' : KeyIn(thread', t) = KeyIn(thread, t)
  BY DEF KeyIn
<1>3. ASSUME walk.pc # "idle", NEW t \in Threads \ fell', ~Before(KeyIn(thread, t), walk.after)
      PROVE  ~Before(KeyIn(thread', t), walk.after)
  <2>1. thread[t].latest \in Nat /\ thread'[t].latest \in Nat /\ thread[t].latest <= thread'[t].latest
        /\ t \in Nat /\ walk.after[1] \in Nat /\ walk.after[2] \in Nat
    BY <1>0, <1>3, KeyFacts DEF Key
  <2>. QED  BY <1>3, <2>1 DEF Before, KeyIn
<1>4. walk.pc = "page" => \A t \in Threads \ fell' : walk.rows[t].latest <= thread'[t].latest
  <2> SUFFICES ASSUME walk.pc = "page", NEW t \in Threads \ fell'
               PROVE  walk.rows[t].latest <= thread'[t].latest
    OBVIOUS
  <2>1. /\ walk.rows[t].latest <= thread[t].latest /\ thread[t].latest <= thread'[t].latest
        /\ walk.rows[t].latest \in Nat /\ thread[t].latest \in Nat /\ thread'[t].latest \in Nat
    BY <1>0, KeyFacts DEF WalkInv
  <2>. QED  BY <2>1
<1>5. walk.pc \in {"ask", "page"} =>
        /\ \A t \in walk.shown \ fell' : ~Before(KeyIn(thread', t), walk.after)
        /\ \A t \in steady' :
             Passes(t)' => t \in walk.shown \/ walk.after = NoKey \/ Before(KeyIn(thread', t), walk.after)
  BY <1>0, <1>1, <1>2, <1>3 DEF WalkInv
<1>6. walk.pc = "page" =>
        \A t \in walk.shown \ fell' :
          walk.rows[t] # NoRow => ~Before(KeyIn(walk.rows, t), walk.after)
  BY DEF WalkInv
<1>. QED  BY <1>1, <1>4, <1>5, <1>6 DEF WalkInv

LEMMA SaveKeepsWalk ==
  ASSUME InboxTypeOK, WalkInv, NEW t \in Threads, NEW saved \in Row, SavesRow(t, saved), walk' = walk,
         \A u \in Threads \ {t} : In(u)' = In(u)
  PROVE  WalkInv'
<1>1. /\ thread' \in [Threads -> Row] /\ thread'[t] = saved
      /\ \A u \in Threads \ {t} : thread'[u] = thread[u]
      /\ steady' = steady \ {t} /\ fell' \in SUBSET Threads /\ fell \subseteq fell'
      /\ walk.pc # "idle" /\ saved.latest < thread[t].latest => t \in fell'
  BY RowSaved
<1>2. steady \subseteq Threads /\ thread \in [Threads -> Row]
  BY DEF InboxTypeOK
<1>3. \A u \in Threads : thread[u].latest \in Nat /\ thread'[u].latest \in Nat
  BY <1>1, <1>2, KeyFacts
<1>4. walk.pc # "idle" => \A u \in Threads \ fell' : thread[u].latest <= thread'[u].latest
  BY <1>1, <1>3
<1>. QED  BY <1>1, <1>2, <1>3, <1>4, WalkKeeps

\* A page: what is shown for the first time lies between the new cursor and the old one,
\* what matches and is left for later lies beyond the new one.
LEMMA PageKeepsWalk ==
  ASSUME InboxTypeOK, WalkInv, MakePage
  PROVE  WalkInv'
<1> DEFINE K(t) == KeyIn(walk.rows, t)
           more == Items # Match
<1>0. /\ walk \in WalkRecord /\ walk.rows \in [Threads -> Row] /\ walk.after \in Key
      /\ steady \subseteq Threads /\ thread \in [Threads -> Row]
      /\ walk.shown \subseteq Threads /\ walk.twice \subseteq Threads /\ fell \subseteq Threads
  BY DEF InboxTypeOK, WalkRecord
<1>1. /\ walk.pc = "page"
      /\ walk'.pc = (IF more THEN "ask" ELSE "done")
      /\ walk'.shown = walk.shown \cup Items
      /\ walk'.twice = walk.twice \cup (walk.shown \cap Items)
      /\ walk'.after = (IF more THEN CursorAfter ELSE NoKey)
      /\ steady' = {t \in steady : Passes(t)}
      /\ thread' = thread /\ stored' = stored /\ fell' = fell
  BY <1>0, PageMade DEF WalkRecord
<1>2. walk'.unread = walk.unread
  BY <1>0, PageMade DEF WalkRecord
<1>3. \A t \in steady' : t \in steady /\ Passes(t) /\ (Passes(t)' <=> Passes(t))
  BY <1>1, <1>2 DEF Passes, In
<1>4. /\ walk.after = NoKey => walk.shown = {}
      /\ \A t \in walk.shown \ fell : ~Before(KeyIn(thread, t), walk.after)
      /\ \A t \in steady :
           Passes(t) => t \in walk.shown \/ walk.after = NoKey \/ Before(KeyIn(thread, t), walk.after)
      /\ \A t \in steady : walk.rows[t] = thread[t] /\ thread[t] # NoRow
      /\ \A t \in Threads \ fell : walk.rows[t].latest <= thread[t].latest
      /\ \A t \in Threads : walk.rows[t].latest = 0 => walk.rows[t] = NoRow
      /\ \A t \in walk.shown \ fell :
           walk.rows[t] # NoRow => ~Before(K(t), walk.after)
      /\ walk.twice \subseteq fell
  BY <1>1 DEF WalkInv
<1>5. \A t \in steady : KeyIn(thread, t) = K(t)
  BY <1>0, <1>4 DEF KeyIn
<1>k. \A t \in Threads : /\ K(t) \in Key /\ K(t)[1] = walk.rows[t].latest /\ K(t)[2] = t
                         /\ KeyIn(thread, t) \in Key
                         /\ KeyIn(thread, t)[1] = thread[t].latest /\ KeyIn(thread, t)[2] = t
                         /\ walk.rows[t].latest \in Nat /\ thread[t].latest \in Nat /\ t \in Nat
  BY <1>0, KeyFacts
<1>6. Items \subseteq Match /\ Match \subseteq Threads
  BY DEF Items, Match
\* A row is no newer than the thread, so that what the row does not precede, the thread
\* does not either.
<1>7. ASSUME NEW t \in Threads \ fell, NEW k \in Key, Before(KeyIn(thread, t), k)
      PROVE  Before(K(t), k)
  <2>1. K(t)[1] <= KeyIn(thread, t)[1] /\ K(t)[2] = KeyIn(thread, t)[2] /\ k[1] \in Nat /\ k[2] \in Nat
    BY <1>4, <1>k DEF Key
  <2> HIDE DEF K
  <2>. QED  BY <1>k, <1>7, <2>1 DEF Before
\* Shown twice only when the date went back.
<1>8. walk.shown \cap Items \subseteq fell
  <2> SUFFICES ASSUME NEW t \in walk.shown \cap Items, t \notin fell  PROVE FALSE
    OBVIOUS
  <2>1. walk.rows[t] # NoRow /\ Follows(K(t)) /\ walk.after # NoKey
    BY <1>4 DEF Match, Items
  <2>. QED  BY <1>4, <2>1 DEF Follows
<1>9. walk'.twice \subseteq fell'
  BY <1>1, <1>4, <1>8
<1>10. ASSUME Items = Match  PROVE {t \in steady' : Passes(t)'} \subseteq walk'.shown
  <2> SUFFICES ASSUME NEW t \in steady'  PROVE t \in walk.shown \cup Items
    BY <1>1
  <2>1. t \in steady /\ t \in Threads /\ Passes(t) /\ walk.rows[t] # NoRow
    BY <1>0, <1>3, <1>4
  <2>2. CASE Follows(K(t))
    BY <1>10, <2>1, <2>2 DEF Match
  <2>3. CASE ~Follows(K(t))
    BY <1>4, <1>5, <2>1, <2>3 DEF Follows
  <2>. QED  BY <2>2, <2>3
<1>11. ASSUME more
       PROVE  /\ walk'.after # NoKey
              /\ \A t \in walk'.shown \ fell' : ~Before(KeyIn(thread, t), walk'.after)
              /\ \A t \in steady' : t \in walk'.shown \/ Before(KeyIn(thread, t), walk'.after)
              /\ \A t \in steady' : thread[t] # NoRow
  <2>1. PICK u \in Items : CursorAfter = K(u)
    BY <1>11, PageFacts
  <2>2. \A t \in Items : ~Before(K(t), K(u))
    BY <1>11, <2>1, PageFacts
  <2>3. walk'.after = K(u) /\ u \in Threads /\ walk.rows[u] # NoRow /\ Follows(K(u))
    BY <1>1, <1>6, <1>11, <2>1 DEF Match
  <2>4. walk'.after # NoKey
    <3>1. walk.rows[u].latest # 0
      BY <1>4, <2>3
    <3>2. K(u)[1] # NoKey[1]
      BY <1>k, <2>3, <3>1 DEF NoKey
    <3>. QED  BY <2>3, <3>2
  <2>5. ASSUME NEW t \in walk'.shown \ fell'  PROVE ~Before(KeyIn(thread, t), walk'.after)
    <3>1. t \in Threads \ fell
      BY <1>0, <1>1, <1>6, <2>5
    <3>2. CASE t \in Items
      BY <1>7, <1>k, <2>2, <2>3, <3>1, <3>2
    <3>3. CASE t \in walk.shown
      <4>1. walk.after # NoKey /\ Before(K(u), walk.after) /\ ~Before(KeyIn(thread, t), walk.after)
        BY <1>1, <1>4, <2>3, <2>5, <3>3 DEF Follows
      <4> HIDE DEF K
      <4>. QED  BY <1>0, <1>k, <2>3, <3>1, <4>1, BeforeIsOrder
    <3>. QED  BY <1>1, <2>5, <3>2, <3>3
  <2>6. ASSUME NEW t \in steady', t \notin walk'.shown  PROVE Before(KeyIn(thread, t), walk'.after)
    <3>1. /\ t \in steady /\ t \in Threads /\ Passes(t) /\ walk.rows[t] # NoRow
          /\ t \notin walk.shown /\ t \notin Items /\ KeyIn(thread, t) = K(t)
      BY <1>0, <1>1, <1>3, <1>4, <1>5, <2>6
    <3>2. t \in Match
      BY <1>4, <3>1 DEF Match, Follows
    <3>3. IsFiniteSet(AheadOf(u)) /\ Cardinality(AheadOf(u)) < PageSize
      <4>1. AheadOf(u) \subseteq Threads
        BY <1>6 DEF AheadOf
      <4>. QED  BY <4>1, MessageFacts, FS_Subset DEF Items
    <3>4. ~(Cardinality(AheadOf(t)) < PageSize)
      BY <3>1, <3>2 DEF Items
    <3>5. K(t) # K(u)
      <4>1. K(t)[2] # K(u)[2]
        BY <1>k, <2>3, <3>1
      <4>. QED  BY <4>1
    <3>6. ~Before(K(u), K(t))
      <4> SUFFICES ASSUME Before(K(u), K(t))  PROVE FALSE
        OBVIOUS
      <4>1. AheadOf(t) \subseteq AheadOf(u)
        <5> SUFFICES ASSUME NEW v \in AheadOf(t)  PROVE v \in AheadOf(u)
          OBVIOUS
        <5>1. v \in Match /\ v \in Threads /\ Before(K(t), K(v))
          BY <1>6 DEF AheadOf
        <5>2. Before(K(u), K(v))
          <6> HIDE DEF K
          <6>. QED  BY <1>k, <2>3, <3>1, <5>1, BeforeIsOrder
        <5>. QED  BY <5>1, <5>2 DEF AheadOf
      <4>2. /\ Cardinality(AheadOf(t)) <= Cardinality(AheadOf(u))
            /\ Cardinality(AheadOf(t)) \in Nat /\ Cardinality(AheadOf(u)) \in Nat
        BY <3>3, <4>1, FS_Subset, FS_CardinalityType
      <4>. QED  BY <3>3, <3>4, <4>2, LimitAssumption
    <3> HIDE DEF K
    <3>. QED  BY <1>k, <2>3, <3>1, <3>5, <3>6, BeforeIsOrder
  <2>. QED  BY <1>3, <1>4, <2>4, <2>5, <2>6
<1>. QED  BY <1>1, <1>3, <1>9, <1>10, <1>11 DEF WalkInv, KeyIn

LEMMA WalkStepKeeps ==
  ASSUME InboxTypeOK, RowsInv, WalkInv, InboxNext
  PROVE  WalkInv'
<1>0. /\ walk \in WalkRecord /\ thread \in [Threads -> Row] /\ steady \subseteq Threads
      /\ fell \subseteq Threads
  BY DEF InboxTypeOK, WalkRecord
<1>l. \A t \in Threads : thread[t].latest \in Nat
  BY <1>0, KeyFacts
<1>1. ASSUME UNCHANGED <<thread, stored, walk, steady, fell>>  PROVE WalkInv'
  BY <1>1 DEF WalkInv, Passes, In, KeyIn
<1>2. ASSUME NEW s \in Syncs, SaveNewThread(s)  PROVE WalkInv'
  <2> DEFINE saved == [latest |-> At[saving[s].msg], count |-> 1]
  <2>1. saved \in Row /\ ThreadOf[saving[s].msg] \in Threads
    BY SavingFields, MessageFacts DEF Row
  <2>2. SavesRow(ThreadOf[saving[s].msg], saved) /\ walk' = walk /\ stored' = stored
    BY <1>2 DEF SaveNewThread, Readers
  <2> HIDE DEF saved
  <2>. QED  BY <2>1, <2>2, SaveKeepsWalk DEF In
<1>3. ASSUME NEW s \in Syncs, UpdateThread(s)  PROVE WalkInv'
  <2> DEFINE saved == Updated(saving[s].seen, saving[s].msg)
  <2>1. saved \in Row /\ ThreadOf[saving[s].msg] \in Threads
    BY SavingFields, UpdatedRow
  <2>2. SavesRow(ThreadOf[saving[s].msg], saved) /\ walk' = walk /\ stored' = stored
    BY <1>3 DEF UpdateThread, Readers
  <2> HIDE DEF saved
  <2>. QED  BY <2>1, <2>2, SaveKeepsWalk DEF In
<1>4. ASSUME NEW m \in Messages, DeleteMessage(m)  PROVE WalkInv'
  <2> DEFINE t == ThreadOf[m]
             saved == Recounted(t, In(t) \ {m})
  <2>1. m \in stored /\ stored' = stored \ {m} /\ SavesRow(t, saved) /\ walk' = walk
    BY <1>4 DEF DeleteMessage, Readers
  <2>2. saved \in Row /\ t \in Threads
    BY <2>1, RecountedRow, MessageFacts
  <2>3. \A u \in Threads \ {t} : In(u)' = In(u)
    BY <2>1 DEF In
  <2> HIDE DEF saved
  <2>. QED  BY <2>1, <2>2, <2>3, SaveKeepsWalk
<1>5. ASSUME NEW s \in Syncs, InsertMessage(s)  PROVE WalkInv'
  <2> DEFINE m == saving[s].msg
  <2>1. /\ thread' = thread /\ walk' = walk /\ fell' = fell /\ stored' = stored \cup {m}
        /\ steady' = IF m \in stored THEN steady ELSE steady \ {ThreadOf[m]}
    BY <1>5 DEF InsertMessage, Readers
  <2>2. \A t \in steady' : In(t)' = In(t)
    BY <2>1 DEF In
  <2>. QED  BY <1>0, <1>l, <2>1, <2>2, WalkKeeps
<1>6. ASSUME PurgeConnection  PROVE WalkInv'
  <2>1. /\ walk' = walk /\ steady' = {} /\ thread' = [t \in Threads |-> NoRow]
        /\ fell' = IF walk.pc = "idle" THEN fell ELSE Threads
    BY <1>6 DEF PurgeConnection
  <2>2. \A t \in Threads : thread'[t].latest \in Nat
    BY <2>1 DEF NoRow
  <2>. QED  BY <1>0, <2>1, <2>2, WalkKeeps
<1>7. ASSUME BeginWalk  PROVE WalkInv'
  <2>1. PICK u \in BOOLEAN : walk' = [NoWalk EXCEPT !.pc = "ask", !.unread = u]
    BY <1>7 DEF BeginWalk
  <2>2. walk'.pc = "ask" /\ walk'.shown = {} /\ walk'.twice = {} /\ walk'.after = NoKey
    BY <2>1 DEF NoWalk
  <2>3. steady' = {t \in Threads : Exists(t)} /\ thread' = thread
    BY <1>7 DEF BeginWalk
  <2>. QED  BY <2>2, <2>3 DEF WalkInv, Exists
<1>8. ASSUME ReadThreads  PROVE WalkInv'
  <2>1. PICK R \in Newest(thread) :
          /\ walk' = [walk EXCEPT !.pc = "page",
                        !.rows = [t \in Threads |-> IF t \in R THEN thread[t] ELSE NoRow]]
          /\ steady' = steady \cap R
    BY <1>8 DEF ReadThreads
  <2>2. /\ walk.pc = "ask" /\ walk'.pc = "page" /\ walk'.shown = walk.shown
        /\ walk'.twice = walk.twice /\ walk'.after = walk.after /\ walk'.unread = walk.unread
        /\ walk'.rows = [t \in Threads |-> IF t \in R THEN thread[t] ELSE NoRow]
        /\ thread' = thread /\ stored' = stored /\ fell' = fell
    BY <1>0, <1>8, <2>1 DEF ReadThreads, WalkRecord
  <2>3. \A t \in Threads : Passes(t)' <=> Passes(t)
    BY <2>2 DEF Passes, In
  <2>4. \A t \in Threads : walk'.rows[t] = thread[t] \/ walk'.rows[t] = NoRow
    BY <2>2
  <2>5. /\ \A t \in steady' : walk'.rows[t] = thread[t] /\ thread[t] # NoRow
        /\ \A t \in Threads : walk'.rows[t].latest <= thread[t].latest
        /\ \A t \in Threads : walk'.rows[t].latest = 0 => walk'.rows[t] = NoRow
    <3>1. \A t \in steady' : walk'.rows[t] = thread[t] /\ thread[t] # NoRow
      <4>1. \A t \in R : t \in Threads /\ thread[t] # NoRow
        BY NewestRows
      <4>. QED  BY <2>1, <2>2, <4>1
    <3>2. \A t \in Threads : walk'.rows[t].latest <= thread[t].latest
      <4>1. NoRow.latest = 0
        BY DEF NoRow
      <4>. QED  BY <1>l, <2>4, <4>1
    <3>3. \A t \in Threads : walk'.rows[t].latest = 0 => walk'.rows[t] = NoRow
      BY <2>4 DEF RowsInv
    <3>. QED  BY <3>1, <3>2, <3>3
  <2>6. \A t \in walk'.shown \ fell' :
          walk'.rows[t] # NoRow => ~Before(KeyIn(walk'.rows, t), walk'.after)
    <3> SUFFICES ASSUME NEW t \in walk.shown \ fell, walk'.rows[t] # NoRow
                 PROVE  ~Before(KeyIn(walk'.rows, t), walk.after)
      BY <2>2
    <3>1. t \in Threads
      BY DEF InboxTypeOK
    <3>2. KeyIn(walk'.rows, t) = KeyIn(thread, t)
      BY <2>4, <3>1 DEF KeyIn
    <3>. QED  BY <2>2, <3>2 DEF WalkInv
  <2>7. /\ walk'.after = NoKey => walk'.shown = {}
        /\ \A t \in walk'.shown \ fell' : ~Before(KeyIn(thread', t), walk'.after)
        /\ \A t \in steady' : Passes(t)' =>
             t \in walk'.shown \/ walk'.after = NoKey \/ Before(KeyIn(thread', t), walk'.after)
        /\ walk'.twice \subseteq fell'
    BY <1>0, <2>1, <2>2, <2>3 DEF WalkInv
  <2>. QED  BY <2>2, <2>5, <2>6, <2>7 DEF WalkInv
<1>9. ASSUME BeginExport  PROVE WalkInv'
  BY <1>9 DEF BeginExport, NoWalk, WalkInv
<1>10. ASSUME \/ \E s \in Syncs, m \in Messages : ReadThread(s, m)
              \/ \E s \in Syncs : SaveFails(s)
              \/ ExportThreads \/ Hydrate
       PROVE  UNCHANGED <<thread, stored, walk, steady, fell>>
  BY <1>10 DEF ReadThread, SaveFails, ExportThreads, Hydrate, Readers
<1>. QED
  BY <1>1, <1>2, <1>3, <1>4, <1>5, <1>6, <1>7, <1>8, <1>9, <1>10, PageKeepsWalk
  DEF InboxNext, WalkStep

LEMMA WholeStep == Whole /\ [InboxNext]_inboxVars => Whole'
<1> SUFFICES ASSUME Whole, [InboxNext]_inboxVars  PROVE Whole'
  OBVIOUS
<1>1. CASE InboxNext
  <2>1. InboxTypeOK' /\ RowsInv'
    BY <1>1, InboxTypes, RowsStep DEF Whole
  <2>2. SumsInv' /\ WalkInv'
    BY <1>1, SumsStep, WalkStepKeeps DEF Whole
  <2>3. ExportInv'
    BY <1>1, <2>1, ExportStep DEF Whole
  <2>. QED  BY <2>1, <2>2, <2>3 DEF Whole
<1>2. CASE UNCHANGED inboxVars
  <2> USE DEF inboxVars
  <2>1. InboxTypeOK' /\ RowsInv'
    BY <1>2 DEF Whole, InboxTypeOK, RowsInv, Exists
  <2>2. SumsInv'
    BY <1>2, SumsStay DEF Whole
  <2>3. WalkInv' /\ ExportInv'
    BY <1>2 DEF Whole, WalkInv, Passes, In, KeyIn, ExportInv, Connected, Exists
  <2>. QED  BY <2>1, <2>2, <2>3 DEF Whole
<1>. QED  BY <1>1, <1>2

\* However synchronisations, deletions, a purge and lost processes interleave with the
\* reading: a walk over the pages shows every thread that kept still, and twice only what
\* went back, and an export has the threads of its messages.
THEOREM AnswersAreWholeTheorem == InboxSpec => []AnswersAreWhole
<1>1. Whole => AnswersAreWhole
  BY DEF Whole, WalkInv, ExportInv, Connected, AnswersAreWhole, WalkIsFaithful, ExportIsConnected
<1>. QED  BY <1>1, WholeInit, WholeStep, PTL DEF InboxSpec

\* A thread row that no two executions raced for, that none left half done and that none is
\* at work on counts the messages of its thread and is not dated before any of them.
THEOREM SummaryIsTrueTheorem == InboxSpec => []SummaryIsTrue
<1>1. Whole => SummaryIsTrue
  BY DEF Whole, SumsInv, Sums, SummaryIsTrue
<1>. QED  BY <1>1, WholeInit, WholeStep, PTL DEF InboxSpec
=============================================================================
