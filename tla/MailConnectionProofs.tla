------------------------ MODULE MailConnectionProofs ------------------------
(***************************************************************************)
(* Proofs about MailConnection, for every set of calls, credentials,       *)
(* messages and watches. Types hold over both repositories; that a         *)
(* connection stays ended, and loses its credential first, holds when      *)
(* save_connection is atomic and nobody activates a dying connection; that *)
(* its data is purged last, and that a revoked one is silent, when no work *)
(* on the mailbox overlaps its end.                                        *)
(***************************************************************************)
EXTENDS MailConnection, TLAPS

-----------------------------------------------------------------------------
(* Types.                                                                  *)

LEMMA Constants ==
  /\ Tombstone \notin Credentials /\ NoWatch \notin Watches
  /\ AtomicSaves \in BOOLEAN /\ Overlapping \in BOOLEAN /\ Reactivates \in BOOLEAN
  /\ MaxRevision \in Nat
BY NullAssumption, SwitchAssumption, BoundAssumption

LEMMA Stages ==
  /\ {"idle", "refresh", "resolve", "page", "fetch", "store", "remove_body", "submit",
      "read_watch", "watch", "record_watch", "mark", "cancel", "unwatch", "record_cancel",
      "refs", "objects", "knowledge", "credential", "purge", "save"} \subseteq Stage
  /\ {"none", "change", "sync", "share", "ensure", "revoke", "delete"} \subseteq Kind
  /\ NoWatch \in WatchRefs /\ Watches \subseteq WatchRefs
  /\ {"pending_authorization", "active", "degraded", "reauthorization_required",
      "revoked", "deleting", "deleted"} \subseteq Status
BY DEF Stage, WorkStage, EndStage, Kind, WatchRefs, Status

\* Which calls stand where, and what they can have read.
Shape(c) ==
  /\ call[c].pc = "idle" <=> call[c].kind = "none"
  /\ call[c].pc = "refresh" => call[c].kind = "change"
  /\ call[c].pc \in {"resolve", "page", "fetch", "store", "remove_body"} => call[c].kind = "sync"
  /\ call[c].pc = "submit" => call[c].kind = "share"
  /\ call[c].pc \in {"read_watch", "watch", "record_watch"} => call[c].kind = "ensure"
  /\ call[c].pc \in {"mark", "objects", "purge"} => call[c].kind = "delete"
  /\ call[c].pc \in {"cancel", "unwatch", "record_cancel", "refs", "credential", "knowledge"}
       => call[c].kind \in {"revoke", "delete"}
  /\ call[c].pc = "save" => call[c].kind \in {"change", "sync", "revoke", "delete"}
  /\ call[c].kind \notin {"none", "share"} => call[c].seen.status # "deleted"
  /\ call[c].pc = "store" => \E m \in Messages : call[c].refs = {<<m, c>>}

TypeInv == TypeOK /\ \A c \in Calls : Shape(c)

LEMMA Calling ==
  ASSUME TypeOK, NEW c \in Calls
  PROVE  /\ call[c] \in Call /\ call[c].pc \in Stage /\ call[c].kind \in Kind
         /\ call[c].seen \in Connection /\ call[c].row \in Connection
         /\ call[c].checked \in BOOLEAN /\ call[c].ref \in WatchRefs
         /\ call[c].expected \in WatchRefs /\ call[c].refs \in SUBSET Bodies
BY DEF TypeOK, Call

LEMMA RowFields ==
  ASSUME NEW r \in Connection
  PROVE  /\ r.status \in Status /\ r.rev \in Nat
         /\ r.status # "deleted" => r.cred \in Credentials
         /\ r.status = "deleted" => r.cred = Tombstone
BY DEF Connection, Status

LEMMA ReplacedTyped ==
  ASSUME NEW r \in Connection, NEW s \in Status, NEW k,
         s = "deleted" => k = Tombstone, s # "deleted" => k \in Credentials
  PROVE  /\ Replaced(r, s, k) \in Connection
         /\ Replaced(r, s, k).status = s /\ Replaced(r, s, k).cred = k
         /\ Replaced(r, s, k).rev = r.rev + 1
<1>1. r.rev + 1 \in Nat
  BY RowFields
<1>2. CASE s = "deleted"
  BY <1>1, <1>2 DEF Replaced, Connection
<1>3. CASE s # "deleted"
  BY <1>1, <1>3 DEF Replaced, Connection
<1>. QED  BY <1>2, <1>3

LEMMA BlankTyped == Blank \in Connection
BY DEF Blank, Connection

LEMMA NoCallTyped ==
  /\ NoCall \in Call
  /\ NoCall.pc = "idle" /\ NoCall.kind = "none" /\ NoCall.seen = Blank /\ NoCall.row = Blank
<1>1. {} \in SUBSET Bodies
  OBVIOUS
<1>. QED  BY <1>1, BlankTyped, Stages DEF NoCall, Call

\* A call that becomes r, and the others that stay.
LEMMA Becoming ==
  ASSUME TypeOK, NEW c \in Calls, NEW r \in Call, call' = [call EXCEPT ![c] = r]
  PROVE  /\ call' \in [Calls -> Call] /\ call'[c] = r
         /\ \A d \in Calls \ {c} : call'[d] = call[d]
BY DEF TypeOK

LEMMA Ends ==
  ASSUME TypeOK, NEW c \in Calls, call' = [call EXCEPT ![c] = NoCall]
  PROVE  /\ call' \in [Calls -> Call]
         /\ call'[c].pc = "idle" /\ call'[c].kind = "none"
         /\ \A d \in Calls \ {c} : call'[d] = call[d]
BY Becoming, NoCallTyped

LEMMA StartedTyped ==
  ASSUME TypeOK, NEW s \in Stage, NEW k \in Kind, NEW r \in Connection,
         NEW refs \in SUBSET Bodies
  PROVE  /\ Started(k, s, r, refs) \in Call
         /\ Started(k, s, r, refs).pc = s /\ Started(k, s, r, refs).kind = k
         /\ Started(k, s, r, refs).seen = conn /\ Started(k, s, r, refs).row = r
<1>1. conn \in Connection /\ NoWatch \in WatchRefs
  BY Stages DEF TypeOK
<1>. QED  BY <1>1 DEF Call, Started

LEMMA Starts ==
  ASSUME TypeOK, NEW c \in Calls, NEW s \in Stage, NEW k \in Kind, NEW r \in Connection,
         NEW refs \in SUBSET Bodies, call' = [call EXCEPT ![c] = Started(k, s, r, refs)]
  PROVE  /\ call' \in [Calls -> Call]
         /\ call'[c].pc = s /\ call'[c].kind = k
         /\ call'[c].seen = conn /\ call'[c].row = r
         /\ \A d \in Calls \ {c} : call'[d] = call[d]
<1>1. Started(k, s, r, refs) \in Call
  BY StartedTyped
<1>2. /\ call' \in [Calls -> Call] /\ call'[c] = Started(k, s, r, refs)
      /\ \A d \in Calls \ {c} : call'[d] = call[d]
  BY <1>1, Becoming
<1>3. /\ Started(k, s, r, refs).pc = s /\ Started(k, s, r, refs).kind = k
      /\ Started(k, s, r, refs).seen = conn /\ Started(k, s, r, refs).row = r
  BY StartedTyped
<1>. QED  BY <1>2, <1>3

\* Calls that only go on, with what they learnt.
Kept(c) ==
  /\ call'[c].kind = call[c].kind /\ call'[c].seen = call[c].seen
  /\ \A d \in Calls \ {c} : call'[d] = call[d]

LEMMA Goings ==
  ASSUME TypeOK, NEW c \in Calls, NEW s \in Stage, call' = [call EXCEPT ![c].pc = s]
  PROVE  /\ call' \in [Calls -> Call] /\ call'[c].pc = s /\ Kept(c)
         /\ call'[c].row = call[c].row
<1>1. call[c] \in Call
  BY Calling
<1>2. [call[c] EXCEPT !.pc = s] \in Call
  BY <1>1 DEF Call
<1>3. call' = [call EXCEPT ![c] = [call[c] EXCEPT !.pc = s]]
  BY DEF TypeOK
<1>4. /\ call' \in [Calls -> Call] /\ call'[c] = [call[c] EXCEPT !.pc = s]
      /\ \A d \in Calls \ {c} : call'[d] = call[d]
  BY <1>2, <1>3, Becoming
<1>. QED  BY <1>1, <1>4 DEF Kept, Call

LEMMA GoingsWithRefs ==
  ASSUME TypeOK, NEW c \in Calls, NEW s \in Stage, NEW b \in SUBSET Bodies,
         call' = [call EXCEPT ![c].pc = s, ![c].refs = b]
  PROVE  /\ call' \in [Calls -> Call] /\ call'[c].pc = s /\ Kept(c)
         /\ call'[c].row = call[c].row /\ call'[c].refs = b
<1>1. call[c] \in Call
  BY Calling
<1>2. [call[c] EXCEPT !.pc = s, !.refs = b] \in Call
  BY <1>1 DEF Call
<1>3. call' = [call EXCEPT ![c] = [call[c] EXCEPT !.pc = s, !.refs = b]]
  BY DEF TypeOK
<1>4. /\ call' \in [Calls -> Call] /\ call'[c] = [call[c] EXCEPT !.pc = s, !.refs = b]
      /\ \A d \in Calls \ {c} : call'[d] = call[d]
  BY <1>2, <1>3, Becoming
<1>. QED  BY <1>1, <1>4 DEF Kept, Call

LEMMA GoingsWithRow ==
  ASSUME TypeOK, NEW c \in Calls, NEW r \in Connection,
         call' = [call EXCEPT ![c].pc = "save", ![c].row = r]
  PROVE  /\ call' \in [Calls -> Call] /\ call'[c].pc = "save" /\ Kept(c)
         /\ call'[c].row = r
<1>1. call[c] \in Call /\ "save" \in Stage
  BY Calling, Stages
<1>2. [call[c] EXCEPT !.pc = "save", !.row = r] \in Call
  BY <1>1 DEF Call
<1>3. call' = [call EXCEPT ![c] = [call[c] EXCEPT !.pc = "save", !.row = r]]
  BY DEF TypeOK
<1>4. /\ call' \in [Calls -> Call] /\ call'[c] = [call[c] EXCEPT !.pc = "save", !.row = r]
      /\ \A d \in Calls \ {c} : call'[d] = call[d]
  BY <1>2, <1>3, Becoming
<1>. QED  BY <1>1, <1>4 DEF Kept, Call

LEMMA GoingsExpecting ==
  ASSUME TypeOK, NEW c \in Calls, NEW s \in Stage, NEW e \in WatchRefs,
         call' = [call EXCEPT ![c].pc = s, ![c].expected = e]
  PROVE  /\ call' \in [Calls -> Call] /\ call'[c].pc = s /\ Kept(c)
         /\ call'[c].row = call[c].row
<1>1. call[c] \in Call
  BY Calling
<1>2. [call[c] EXCEPT !.pc = s, !.expected = e] \in Call
  BY <1>1 DEF Call
<1>3. call' = [call EXCEPT ![c] = [call[c] EXCEPT !.pc = s, !.expected = e]]
  BY DEF TypeOK
<1>4. /\ call' \in [Calls -> Call]
      /\ call'[c] = [call[c] EXCEPT !.pc = s, !.expected = e]
      /\ \A d \in Calls \ {c} : call'[d] = call[d]
  BY <1>2, <1>3, Becoming
<1>. QED  BY <1>1, <1>4 DEF Kept, Call

LEMMA GoingsWithRef ==
  ASSUME TypeOK, NEW c \in Calls, NEW s \in Stage, NEW e \in WatchRefs,
         call' = [call EXCEPT ![c].pc = s, ![c].ref = e]
  PROVE  /\ call' \in [Calls -> Call] /\ call'[c].pc = s /\ Kept(c)
         /\ call'[c].row = call[c].row
<1>1. call[c] \in Call
  BY Calling
<1>2. [call[c] EXCEPT !.pc = s, !.ref = e] \in Call
  BY <1>1 DEF Call
<1>3. call' = [call EXCEPT ![c] = [call[c] EXCEPT !.pc = s, !.ref = e]]
  BY DEF TypeOK
<1>4. /\ call' \in [Calls -> Call]
      /\ call'[c] = [call[c] EXCEPT !.pc = s, !.ref = e]
      /\ \A d \in Calls \ {c} : call'[d] = call[d]
  BY <1>2, <1>3, Becoming
<1>. QED  BY <1>1, <1>4 DEF Kept, Call

LEMMA GoingsToCancel ==
  ASSUME TypeOK, NEW c \in Calls, NEW s \in Stage, NEW e \in WatchRefs,
         call' = [call EXCEPT ![c].pc = s, ![c].ref = e, ![c].expected = e]
  PROVE  /\ call' \in [Calls -> Call] /\ call'[c].pc = s /\ Kept(c)
         /\ call'[c].row = call[c].row
<1>1. call[c] \in Call
  BY Calling
<1>2. [call[c] EXCEPT !.pc = s, !.ref = e, !.expected = e] \in Call
  BY <1>1 DEF Call
<1>3. call' = [call EXCEPT ![c] = [call[c] EXCEPT !.pc = s, !.ref = e, !.expected = e]]
  BY DEF TypeOK
<1>4. /\ call' \in [Calls -> Call]
      /\ call'[c] = [call[c] EXCEPT !.pc = s, !.ref = e, !.expected = e]
      /\ \A d \in Calls \ {c} : call'[d] = call[d]
  BY <1>2, <1>3, Becoming
<1>. QED  BY <1>1, <1>4 DEF Kept, Call

LEMMA GoingsChecked ==
  ASSUME TypeOK, NEW c \in Calls, NEW s \in Stage, NEW b \in BOOLEAN,
         call' = [call EXCEPT ![c].pc = s, ![c].checked = b]
  PROVE  /\ call' \in [Calls -> Call] /\ call'[c].pc = s /\ Kept(c)
         /\ call'[c].row = call[c].row
<1>1. call[c] \in Call
  BY Calling
<1>2. [call[c] EXCEPT !.pc = s, !.checked = b] \in Call
  BY <1>1 DEF Call
<1>3. call' = [call EXCEPT ![c] = [call[c] EXCEPT !.pc = s, !.checked = b]]
  BY DEF TypeOK
<1>4. /\ call' \in [Calls -> Call]
      /\ call'[c] = [call[c] EXCEPT !.pc = s, !.checked = b]
      /\ \A d \in Calls \ {c} : call'[d] = call[d]
  BY <1>2, <1>3, Becoming
<1>. QED  BY <1>1, <1>4 DEF Kept, Call

LEMMA Checking ==
  ASSUME TypeOK, NEW c \in Calls, NEW b \in BOOLEAN,
         call' = [call EXCEPT ![c].checked = b]
  PROVE  /\ call' \in [Calls -> Call] /\ call'[c].pc = call[c].pc /\ Kept(c)
         /\ call'[c].row = call[c].row
<1>1. call[c] \in Call
  BY Calling
<1>2. [call[c] EXCEPT !.checked = b] \in Call
  BY <1>1 DEF Call
<1>3. call' = [call EXCEPT ![c] = [call[c] EXCEPT !.checked = b]]
  BY DEF TypeOK
<1>4. /\ call' \in [Calls -> Call]
      /\ call'[c] = [call[c] EXCEPT !.checked = b]
      /\ \A d \in Calls \ {c} : call'[d] = call[d]
  BY <1>2, <1>3, Becoming
<1>. QED  BY <1>1, <1>4 DEF Kept, Call

LEMMA Afters ==
  ASSUME NEW c \in Calls
  PROVE  /\ call[c].kind = "revoke" =>
              /\ After(c, "refs") = "knowledge" /\ After(c, "knowledge") = "cancel"
              /\ After(c, "cancel") = "credential" /\ After(c, "credential") = "save"
         /\ call[c].kind = "delete" =>
              /\ After(c, "cancel") = "refs" /\ After(c, "refs") = "objects"
              /\ After(c, "objects") = "credential" /\ After(c, "credential") = "knowledge"
              /\ After(c, "knowledge") = "purge"
BY DEF After, AfterInRevoke, AfterInDelete

\* What a step of one call must show.
StepTyped(c) ==
  /\ TypeOK'
  /\ Shape(c)'
  /\ \A d \in Calls \ {c} : call'[d] = call[d]

LEMMA EndTyped ==
  ASSUME TypeOK, NEW c \in Calls, call' = [call EXCEPT ![c] = NoCall]
  PROVE  Shape(c)'
BY Ends DEF Shape

\* Changes of the row.
LEMMA ChangesTyped ==
  ASSUME TypeInv, NEW c \in Calls, Changes(c)
  PROVE  StepTyped(c)
<1>. USE DEF rows, data, host
<1>0. TypeOK /\ Shape(c)
  BY DEF TypeInv
<1>1. CASE Activate(c)
  <2>0. Changed("active", conn.cred) \in Connection /\ {} \in SUBSET Bodies
    BY <1>0, <1>1, RowFields, ReplacedTyped, Stages DEF TypeOK, Activate, Changed
  <2>1. /\ call' \in [Calls -> Call] /\ call'[c].pc = "save" /\ call'[c].kind = "change"
        /\ call'[c].seen = conn /\ \A d \in Calls \ {c} : call'[d] = call[d]
    BY <1>0, <1>1, <2>0, Starts, Stages DEF Activate, Start
  <2>2. Shape(c)'
    BY <1>1, <2>1 DEF Shape, Activate
  <2>3. TypeOK'
    BY <1>0, <1>1, <2>1 DEF TypeOK, Activate
  <2>. QED  BY <2>1, <2>2, <2>3 DEF StepTyped
<1>2. CASE Reauthorize(c)
  <2>1. PICK k \in Credentials \ issued :
          /\ Start(c, "change", "save", Changed("active", k))
          /\ issued' = issued \cup {k}
    BY <1>2 DEF Reauthorize
  <2>2. Changed("active", k) \in Connection /\ {} \in SUBSET Bodies
    BY <1>0, <2>1, ReplacedTyped, Stages DEF TypeOK, Changed
  <2>3. /\ call' \in [Calls -> Call] /\ call'[c].pc = "save" /\ call'[c].kind = "change"
        /\ call'[c].seen = conn /\ \A d \in Calls \ {c} : call'[d] = call[d]
    <3>1. call' = [call EXCEPT ![c] = Started("change", "save", Changed("active", k), {})]
      BY <2>1 DEF Start
    <3>2. "save" \in Stage /\ "change" \in Kind
      BY Stages
    <3>. QED  BY <1>0, <2>2, <3>1, <3>2, Starts
  <2>4. Shape(c)'
    BY <1>2, <2>3 DEF Shape, Reauthorize
  <2>5. TypeOK'
    BY <1>0, <1>2, <2>1, <2>3 DEF TypeOK, Reauthorize
  <2>. QED  BY <2>3, <2>4, <2>5 DEF StepTyped
<1>3. CASE Refresh(c)
  <2>0. conn \in Connection /\ {} \in SUBSET Bodies
    BY <1>0, <1>3, RowFields, ReplacedTyped, Stages DEF TypeOK, Refresh, Changed
  <2>1. /\ call' \in [Calls -> Call] /\ call'[c].pc = "refresh" /\ call'[c].kind = "change"
        /\ call'[c].seen = conn /\ \A d \in Calls \ {c} : call'[d] = call[d]
    <3>1. call' = [call EXCEPT ![c] = Started("change", "refresh", conn, {})]
      BY <1>3 DEF Refresh, Start
    <3>2. "refresh" \in Stage /\ "change" \in Kind
      BY Stages
    <3>. QED  BY <1>0, <2>0, <3>1, <3>2, Starts
  <2>2. Shape(c)'
    BY <1>3, <2>1 DEF Shape, Refresh
  <2>3. TypeOK'
    BY <1>0, <1>3, <2>1 DEF TypeOK, Refresh
  <2>. QED  BY <2>1, <2>2, <2>3 DEF StepTyped
<1>4. CASE HostRefreshes(c)
  <2>1. PICK k \in {call[c].seen.cred} \cup (Credentials \ issued) :
          /\ issued' = issued \cup {k}
          /\ call' = [call EXCEPT ![c].pc = "save", ![c].row = Replaced(call[c].seen, "active", k)]
    BY <1>4 DEF HostRefreshes
  <2>2. k \in Credentials /\ call[c].kind = "change"
    BY <1>0, <1>4, Calling, RowFields DEF Shape, HostRefreshes
  <2>3. Replaced(call[c].seen, "active", k) \in Connection
    BY <1>0, <2>2, Calling, ReplacedTyped, Stages
  <2>4. call' \in [Calls -> Call] /\ call'[c].pc = "save" /\ Kept(c)
    BY <1>0, <2>1, <2>3, GoingsWithRow
  <2>5. Shape(c)'
    BY <1>0, <2>2, <2>4 DEF Shape, Kept
  <2>6. TypeOK'
    BY <1>0, <1>4, <2>1, <2>2, <2>4 DEF TypeOK, HostRefreshes
  <2>. QED  BY <2>4, <2>5, <2>6 DEF StepTyped, Kept
<1>5. CASE UpdateScopes(c)
  <2>0. Changed(conn.status, conn.cred) \in Connection /\ {} \in SUBSET Bodies
    BY <1>0, <1>5, RowFields, ReplacedTyped, Stages DEF TypeOK, UpdateScopes, Changed
  <2>1. /\ call' \in [Calls -> Call] /\ call'[c].pc = "save" /\ call'[c].kind = "change"
        /\ call'[c].seen = conn /\ \A d \in Calls \ {c} : call'[d] = call[d]
    <3>1. call[c].pc = "idle" /\ call' = [call EXCEPT ![c] = Started("change", "save", Changed(conn.status, conn.cred), {})]
      BY <1>5 DEF UpdateScopes, Start
    <3>2. "save" \in Stage /\ "change" \in Kind
      BY Stages
    <3>. QED  BY <1>0, <2>0, <3>1, <3>2, Starts
  <2>2. Shape(c)'
    BY <1>5, <2>1 DEF Shape, UpdateScopes
  <2>3. TypeOK'
    BY <1>0, <1>5, <2>1 DEF TypeOK, UpdateScopes
  <2>. QED  BY <2>1, <2>2, <2>3 DEF StepTyped
<1>6. ASSUME NEW s \in {"degraded", "reauthorization_required"}, ProviderLifecycle(c, s)
      PROVE  StepTyped(c)
  <2>0. Changed(s, conn.cred) \in Connection /\ {} \in SUBSET Bodies
    BY <1>0, <1>6, RowFields, ReplacedTyped, Stages DEF TypeOK, ProviderLifecycle, Changed
  <2>1. /\ call' \in [Calls -> Call] /\ call'[c].pc = "save" /\ call'[c].kind = "change"
        /\ call'[c].seen = conn /\ \A d \in Calls \ {c} : call'[d] = call[d]
    <3>1. call[c].pc = "idle" /\ call' = [call EXCEPT ![c] = Started("change", "save", Changed(s, conn.cred), {})]
      BY <1>6 DEF ProviderLifecycle, Start
    <3>2. "save" \in Stage /\ "change" \in Kind
      BY Stages
    <3>. QED  BY <1>0, <2>0, <3>1, <3>2, Starts
  <2>2. Shape(c)'
    BY <1>6, <2>1 DEF Shape, ProviderLifecycle
  <2>3. TypeOK'
    BY <1>0, <1>6, <2>1 DEF TypeOK, ProviderLifecycle
  <2>. QED  BY <2>1, <2>2, <2>3 DEF StepTyped
<1>7. ASSUME NEW s \in {"degraded", "reauthorization_required"}, SyncFails(c, s)
      PROVE  StepTyped(c)
  <2>1. call[c].kind = "sync" /\ call[c].seen.cred \in Credentials
    BY <1>0, <1>7, Calling, RowFields DEF Shape, SyncFails
  <2>2. Replaced(call[c].seen, s, call[c].seen.cred) \in Connection
    BY <1>0, <2>1, Calling, ReplacedTyped, Stages
  <2>3. call' \in [Calls -> Call] /\ call'[c].pc = "save" /\ Kept(c)
    BY <1>0, <1>7, <2>2, GoingsWithRow DEF SyncFails
  <2>4. Shape(c)'
    BY <1>0, <2>1, <2>3 DEF Shape, Kept
  <2>5. TypeOK'
    BY <1>0, <1>7, <2>3 DEF TypeOK, SyncFails
  <2>. QED  BY <2>3, <2>4, <2>5 DEF StepTyped, Kept
<1>. QED  BY <1>1, <1>2, <1>3, <1>4, <1>5, <1>6, <1>7 DEF Changes

\* Work on the mailbox leaves the row and the credentials alone.
Worked(c) ==
  /\ UNCHANGED <<conn, ended, issued, revoked>>
  /\ call'[c].kind \in {"none", "sync", "share", "ensure"}
  /\ call'[c].pc \notin {"save", "refresh"}
  /\ call'[c].kind # "none" =>
       \/ call'[c].seen = conn
       \/ call[c].kind # "none" /\ call'[c].seen = call[c].seen

LEMMA WorksTyped ==
  ASSUME TypeInv, NEW c \in Calls, Works(c)
  PROVE  StepTyped(c) /\ Worked(c)
<1>. USE DEF rows, data, host
<1>0. TypeOK /\ Shape(c)
  BY DEF TypeInv
<1>1. CASE Sync(c)
  <2>1. conn \in Connection /\ {} \in SUBSET Bodies
    BY <1>0 DEF TypeOK
  <2>2. /\ call' \in [Calls -> Call] /\ call'[c].pc = "resolve" /\ call'[c].kind = "sync"
        /\ call'[c].seen = conn /\ \A d \in Calls \ {c} : call'[d] = call[d]
    BY <1>0, <1>1, <2>1, Starts, Stages DEF Sync, Start
  <2>3. Shape(c)'
    BY <1>1, <2>2 DEF Shape, Sync
  <2>4. TypeOK'
    BY <1>0, <1>1, <2>2 DEF TypeOK, Sync
  <2>5. Worked(c)
    <3>1. UNCHANGED <<conn, ended, issued, revoked>>
      BY <1>1 DEF Sync
    <3>. QED  BY <2>2, <3>1 DEF Worked
  <2>. QED  BY <2>2, <2>3, <2>4, <2>5 DEF StepTyped
<1>2. CASE ResolveCredential(c)
  <2>1. call[c].kind = "sync"
    BY <1>0, <1>2 DEF Shape, ResolveCredential
  <2>2. /\ call' \in [Calls -> Call] /\ call'[c].pc = "page" /\ Kept(c)
    BY <1>0, <1>2, Goings, Stages DEF ResolveCredential, Goes
  <2>3. Shape(c)'
    BY <1>0, <2>1, <2>2 DEF Shape, Kept
  <2>4. TypeOK'
    BY <1>0, <1>2, <2>2 DEF TypeOK, ResolveCredential
  <2>5. Worked(c)
    BY <1>2, <2>1, <2>2 DEF Worked, ResolveCredential, Kept
  <2>. QED  BY <2>2, <2>3, <2>4, <2>5 DEF StepTyped, Kept
<1>3. CASE FetchPage(c)
  <2>1. call[c].kind = "sync"
    BY <1>0, <1>3 DEF Shape, FetchPage
  <2>2. /\ call' \in [Calls -> Call] /\ call'[c].pc = "fetch" /\ Kept(c)
    BY <1>0, <1>3, Goings, Stages DEF FetchPage, Goes
  <2>3. Shape(c)'
    BY <1>0, <2>1, <2>2 DEF Shape, Kept
  <2>4. TypeOK'
    BY <1>0, <1>3, <2>2 DEF TypeOK, FetchPage
  <2>5. Worked(c)
    BY <1>3, <2>1, <2>2 DEF Worked, FetchPage, Kept
  <2>. QED  BY <2>2, <2>3, <2>4, <2>5 DEF StepTyped, Kept
<1>4. CASE SaveMessage(c)
  <2>. DEFINE duplicate == MessagesOf(call[c].refs) \subseteq MessagesOf(messages)
              stage == IF duplicate THEN "remove_body" ELSE "fetch"
  <2>1. call[c].kind = "sync" /\ stage \in Stage
    BY <1>0, <1>4, Stages DEF Shape, SaveMessage
  <2>2. call' \in [Calls -> Call] /\ call'[c].pc = stage /\ Kept(c)
    BY <1>0, <1>4, <2>1, Goings DEF SaveMessage, Goes
  <2>3. Shape(c)'
    BY <1>0, <2>1, <2>2 DEF Shape, Kept
  <2>4. PICK m \in Messages : call[c].refs = {<<m, c>>}
    BY <1>0, <1>4 DEF Shape, SaveMessage
  <2>6. /\ UNCHANGED <<conn, sub, ended, objects, knowledge, issued, revoked, watch>>
        /\ messages' = IF duplicate THEN messages ELSE messages \cup call[c].refs
    BY <1>4 DEF SaveMessage
  <2>. HIDE DEF duplicate, stage
  <2>5. TypeOK'
    <3>1. CASE duplicate
      BY <1>0, <2>2, <2>6, <3>1 DEF TypeOK
    <3>2. CASE ~duplicate
      <4>1. messages' = messages \cup {<<m, c>>}
        BY <2>4, <2>6, <3>2
      <4>2. \A b \in messages : b[1] # m
        BY <2>4, <3>2 DEF MessagesOf, duplicate
      <4>3. messages' \in SUBSET Bodies
        BY <1>0, <4>1 DEF TypeOK, Bodies
      <4>4. \A b, d \in messages' : b[1] = d[1] => b = d
        BY <1>0, <4>1, <4>2 DEF TypeOK
      <4>. QED  BY <1>0, <2>2, <2>6, <4>3, <4>4 DEF TypeOK
    <3>. QED  BY <3>1, <3>2
  <2>7. Worked(c)
    <3>1. stage \in {"remove_body", "fetch"}
      BY DEF stage
    <3>. QED  BY <2>1, <2>2, <2>6, <3>1 DEF Worked, Kept
  <2>. QED  BY <2>2, <2>3, <2>5, <2>7 DEF StepTyped, Kept
<1>5. CASE SaveMessageFails(c)
  <2>1. call' = [call EXCEPT ![c] = NoCall]
    BY <1>5 DEF SaveMessageFails
  <2>2. TypeOK'
    BY <1>0, <1>5, <2>1, Ends DEF TypeOK, SaveMessageFails
  <2>3. Worked(c)
    BY <1>0, <1>5, <2>1, Ends DEF Worked, SaveMessageFails
  <2>. QED  BY <1>0, <2>1, <2>2, Ends, EndTyped, <2>3 DEF StepTyped
<1>6. CASE RemoveMessage(c)
  <2>1. call[c].kind = "sync"
    BY <1>0, <1>6 DEF Shape, RemoveMessage
  <2>2. PICK b \in messages :
          /\ messages' = messages \ {b}
          /\ call' = [call EXCEPT ![c].pc = "remove_body", ![c].refs = {b}]
    BY <1>6 DEF RemoveMessage
  <2>3. {b} \in SUBSET Bodies
    BY <1>0 DEF TypeOK
  <2>4. call' \in [Calls -> Call] /\ call'[c].pc = "remove_body" /\ Kept(c)
    BY <1>0, <2>2, <2>3, GoingsWithRefs, Stages
  <2>5. Shape(c)'
    BY <1>0, <2>1, <2>4 DEF Shape, Kept
  <2>6. TypeOK'
    BY <1>0, <1>6, <2>2, <2>4 DEF TypeOK, RemoveMessage
  <2>7. Worked(c)
    BY <1>6, <2>1, <2>4 DEF Worked, RemoveMessage, Kept
  <2>. QED  BY <2>4, <2>5, <2>6, <2>7 DEF StepTyped, Kept
<1>7. CASE RemoveBody(c)
  <2>1. call[c].kind = "sync"
    BY <1>0, <1>7 DEF Shape, RemoveBody
  <2>2. /\ call' \in [Calls -> Call] /\ call'[c].pc = "fetch" /\ Kept(c)
    BY <1>0, <1>7, Goings, Stages DEF RemoveBody, Goes
  <2>3. Shape(c)'
    BY <1>0, <2>1, <2>2 DEF Shape, Kept
  <2>4. TypeOK'
    BY <1>0, <1>7, <2>2 DEF TypeOK, RemoveBody
  <2>5. Worked(c)
    BY <1>7, <2>1, <2>2 DEF Worked, RemoveBody, Kept
  <2>. QED  BY <2>2, <2>3, <2>4, <2>5 DEF StepTyped, Kept
<1>8. CASE ApplyCandidate(c)
  <2>1. PICK b \in messages \cap objects :
          call' = [call EXCEPT ![c] = Started("share", "submit", conn, {b})]
    BY <1>8 DEF ApplyCandidate
  <2>2. conn \in Connection /\ {b} \in SUBSET Bodies
    BY <1>0 DEF TypeOK
  <2>3. /\ call' \in [Calls -> Call] /\ call'[c].pc = "submit" /\ call'[c].kind = "share"
        /\ call'[c].seen = conn /\ \A d \in Calls \ {c} : call'[d] = call[d]
    BY <1>0, <2>1, <2>2, Starts, Stages
  <2>4. Shape(c)'
    BY <2>3 DEF Shape
  <2>5. TypeOK'
    BY <1>0, <1>8, <2>3 DEF TypeOK, ApplyCandidate
  <2>6. Worked(c)
    <3>1. UNCHANGED <<conn, ended, issued, revoked>>
      BY <1>8 DEF ApplyCandidate
    <3>. QED  BY <2>3, <3>1 DEF Worked
  <2>. QED  BY <2>3, <2>4, <2>5, <2>6 DEF StepTyped
<1>9. CASE SubmitKnowledge(c)
  <2>1. call' = [call EXCEPT ![c] = NoCall]
    BY <1>9 DEF SubmitKnowledge
  <2>2. MessagesOf(call[c].refs) \subseteq Messages
    BY <1>0, Calling DEF MessagesOf, Bodies
  <2>3. TypeOK'
    BY <1>0, <1>9, <2>1, <2>2, Ends DEF TypeOK, SubmitKnowledge
  <2>4. Worked(c)
    BY <1>0, <1>9, <2>1, Ends DEF Worked, SubmitKnowledge
  <2>. QED  BY <1>0, <2>1, <2>3, Ends, EndTyped, <2>4 DEF StepTyped
<1>10. CASE EnsureSubscription(c)
  <2>1. conn \in Connection /\ {} \in SUBSET Bodies
    BY <1>0 DEF TypeOK
  <2>2. /\ call' \in [Calls -> Call] /\ call'[c].pc = "read_watch" /\ call'[c].kind = "ensure"
        /\ call'[c].seen = conn /\ \A d \in Calls \ {c} : call'[d] = call[d]
    BY <1>0, <1>10, <2>1, Starts, Stages DEF EnsureSubscription, Start
  <2>3. Shape(c)'
    BY <1>10, <2>2 DEF Shape, EnsureSubscription
  <2>4. TypeOK'
    BY <1>0, <1>10, <2>2 DEF TypeOK, EnsureSubscription
  <2>5. Worked(c)
    <3>1. UNCHANGED <<conn, ended, issued, revoked>>
      BY <1>10 DEF EnsureSubscription
    <3>. QED  BY <2>2, <3>1 DEF Worked
  <2>. QED  BY <2>2, <2>3, <2>4, <2>5 DEF StepTyped
<1>11. CASE ReadSyncState(c)
  <2>1. call[c].kind = "ensure" /\ sub.ref \in WatchRefs
    BY <1>0, <1>11 DEF Shape, ReadSyncState, TypeOK, Subscription
  <2>2. call' \in [Calls -> Call] /\ call'[c].pc = "watch" /\ Kept(c)
    BY <1>0, <1>11, <2>1, GoingsExpecting, Stages DEF ReadSyncState
  <2>3. Shape(c)'
    BY <1>0, <2>1, <2>2 DEF Shape, Kept
  <2>4. TypeOK'
    BY <1>0, <1>11, <2>2 DEF TypeOK, ReadSyncState
  <2>5. Worked(c)
    BY <1>11, <2>1, <2>2 DEF Worked, ReadSyncState, Kept
  <2>. QED  BY <2>2, <2>3, <2>4, <2>5 DEF StepTyped, Kept
<1>12. CASE RecordWatch(c)
  <2>1. call' = [call EXCEPT ![c] = NoCall]
    BY <1>12 DEF RecordWatch
  <2>2. sub' \in Subscription
    BY <1>0, <1>12, Calling DEF RecordWatch, SaveSyncState, Subscription
  <2>3. TypeOK'
    BY <1>0, <1>12, <2>1, <2>2, Ends DEF TypeOK, RecordWatch
  <2>4. Worked(c)
    BY <1>0, <1>12, <2>1, Ends DEF Worked, RecordWatch
  <2>. QED  BY <1>0, <2>1, <2>3, Ends, EndTyped, <2>4 DEF StepTyped
<1>13. ASSUME NEW m \in Messages, PutBody(c, m)
       PROVE  StepTyped(c) /\ Worked(c)
  <2>1. call[c].kind = "sync" /\ {<<m, c>>} \in SUBSET Bodies
    BY <1>0, <1>13 DEF Shape, PutBody, Bodies
  <2>2. /\ call' \in [Calls -> Call] /\ call'[c].pc = "store" /\ Kept(c)
        /\ call'[c].refs = {<<m, c>>}
    <3>1. PICK b \in SUBSET Bodies : b = {<<m, c>>}
      BY <2>1
    <3>2. call' = [call EXCEPT ![c].pc = "store", ![c].refs = b]
      BY <1>13, <3>1 DEF PutBody
    <3>3. "store" \in Stage
      BY Stages
    <3>4. /\ call' \in [Calls -> Call] /\ call'[c].pc = "store" /\ Kept(c)
          /\ call'[c].refs = b
      BY <1>0, <3>2, <3>3, GoingsWithRefs
    <3>. QED  BY <3>1, <3>4
  <2>3. Shape(c)'
    BY <1>0, <2>1, <2>2 DEF Shape, Kept
  <2>4. TypeOK'
    BY <1>0, <1>13, <2>1, <2>2 DEF TypeOK, PutBody
  <2>5. Worked(c)
    BY <1>13, <2>1, <2>2 DEF Worked, PutBody, Kept
  <2>. QED  BY <2>2, <2>3, <2>4, <2>5 DEF StepTyped, Kept
<1>14. ASSUME NEW r \in Watches, HostWatches(c, r)
       PROVE  StepTyped(c) /\ Worked(c)
  <2>1. call[c].kind = "ensure" /\ r \in WatchRefs
    BY <1>0, <1>14 DEF Shape, HostWatches, WatchRefs
  <2>2. call' \in [Calls -> Call] /\ call'[c].pc = "record_watch" /\ Kept(c)
    BY <1>0, <1>14, <2>1, GoingsWithRef, Stages DEF HostWatches
  <2>3. Shape(c)'
    BY <1>0, <2>1, <2>2 DEF Shape, Kept
  <2>4. TypeOK'
    BY <1>0, <1>14, <2>1, <2>2 DEF TypeOK, HostWatches
  <2>5. Worked(c)
    BY <1>14, <2>1, <2>2 DEF Worked, HostWatches, Kept
  <2>. QED  BY <2>2, <2>3, <2>4, <2>5 DEF StepTyped, Kept
<1>. QED
  BY <1>1, <1>2, <1>3, <1>4, <1>5, <1>6, <1>7, <1>8, <1>9, <1>10, <1>11, <1>12, <1>13, <1>14
  DEF Works

\* Revocation and deletion.
LEMMA StageAfter ==
  ASSUME TypeInv, NEW c \in Calls, NEW s \in {"refs", "cancel", "objects", "credential", "knowledge"},
         call[c].kind \in {"revoke", "delete"}, s = "objects" => call[c].kind = "delete"
  PROVE  /\ After(c, s) \in {"knowledge", "cancel", "credential", "save", "refs", "objects", "purge"}
         /\ After(c, s) \in {"objects", "purge"} => call[c].kind = "delete"
         /\ After(c, s) \in Stage
BY Afters, Stages

LEMMA AfterTyped ==
  ASSUME TypeInv, NEW c \in Calls, NEW s \in {"refs", "cancel", "objects", "credential", "knowledge"},
         call[c].kind \in {"revoke", "delete"}, s = "objects" => call[c].kind = "delete",
         call'[c].pc = After(c, s), Kept(c)
  PROVE  Shape(c)'
BY StageAfter DEF TypeInv, Shape, Kept

LEMMA EndsFurtherTyped ==
  ASSUME TypeInv, NEW c \in Calls, EndsFurther(c)
  PROVE  StepTyped(c)
<1>. USE DEF rows, data, host
<1>0. TypeOK /\ Shape(c)
  BY DEF TypeInv
<1>1. CASE MarkDeleting(c)
  <2>1. call[c].kind = "delete" /\ conn' \in Connection
    BY <1>0, <1>1, Calling DEF Shape, MarkDeleting
  <2>2. call' \in [Calls -> Call] /\ call'[c].pc = "cancel" /\ Kept(c)
    BY <1>0, <1>1, GoingsChecked, Stages DEF MarkDeleting
  <2>3. Shape(c)'
    BY <1>0, <2>1, <2>2 DEF Shape, Kept
  <2>4. TypeOK'
    BY <1>0, <1>1, <2>1, <2>2 DEF TypeOK, MarkDeleting
  <2>. QED  BY <2>2, <2>3, <2>4 DEF StepTyped, Kept
<1>2. CASE CancelSubscriptions(c)
  <2>1. call[c].kind \in {"revoke", "delete"} /\ sub.ref \in WatchRefs
    BY <1>0, <1>2 DEF Shape, CancelSubscriptions, TypeOK, Subscription
  <2>2. CASE sub.ref = NoWatch \/ sub.cancelled
    <3>1. After(c, "cancel") \in Stage
      BY <2>1, StageAfter
    <3>2. call' \in [Calls -> Call] /\ call'[c].pc = After(c, "cancel") /\ Kept(c)
      BY <1>0, <1>2, <2>2, <3>1, Goings DEF CancelSubscriptions, Goes
    <3>3. Shape(c)'
      BY <2>1, <3>2, AfterTyped
    <3>4. TypeOK'
      BY <1>0, <1>2, <3>2 DEF TypeOK, CancelSubscriptions
    <3>. QED  BY <3>2, <3>3, <3>4 DEF StepTyped, Kept
  <2>3. CASE ~(sub.ref = NoWatch \/ sub.cancelled)
    <3>1. call' \in [Calls -> Call] /\ call'[c].pc = "unwatch" /\ Kept(c)
      <4>1. call' = [call EXCEPT ![c].pc = "unwatch", ![c].ref = sub.ref, ![c].expected = sub.ref]
        BY <1>2, <2>3 DEF CancelSubscriptions
      <4>2. "unwatch" \in Stage /\ sub.ref \in WatchRefs
        BY <1>0, Stages DEF TypeOK, Subscription
      <4>. QED  BY <1>0, <4>1, <4>2, GoingsToCancel
    <3>2. Shape(c)'
      BY <1>0, <2>1, <3>1 DEF Shape, Kept
    <3>3. TypeOK'
      BY <1>0, <1>2, <3>1 DEF TypeOK, CancelSubscriptions
    <3>. QED  BY <3>1, <3>2, <3>3 DEF StepTyped, Kept
  <2>. QED  BY <2>2, <2>3
<1>3. CASE HostCancelsWatch(c)
  <2>1. call[c].kind \in {"revoke", "delete"}
    BY <1>0, <1>3 DEF Shape, HostCancelsWatch
  <2>2. call' \in [Calls -> Call] /\ call'[c].pc = "record_cancel" /\ Kept(c)
    BY <1>0, <1>3, Goings, Stages DEF HostCancelsWatch, Goes
  <2>3. Shape(c)'
    BY <1>0, <2>1, <2>2 DEF Shape, Kept
  <2>4. TypeOK'
    BY <1>0, <1>3, <2>2, Stages DEF TypeOK, HostCancelsWatch
  <2>. QED  BY <2>2, <2>3, <2>4 DEF StepTyped, Kept
<1>4. CASE RecordCancel(c)
  <2>1. /\ call[c].kind \in {"revoke", "delete"}
        /\ "cancel" = "objects" => call[c].kind = "delete"
    BY <1>0, <1>4 DEF Shape, RecordCancel
  <2>2. After(c, "cancel") \in Stage
    BY <2>1, StageAfter
  <2>3. call' \in [Calls -> Call] /\ call'[c].pc = After(c, "cancel") /\ Kept(c)
    BY <1>0, <1>4, <2>2, Goings DEF RecordCancel, Goes
  <2>4. Shape(c)'
    BY <2>1, <2>3, AfterTyped
  <2>5. sub' \in Subscription
    BY <1>0, <1>4, Calling DEF RecordCancel, SaveSyncState, Subscription
  <2>6. TypeOK'
    BY <1>0, <1>4, <2>3, <2>5 DEF TypeOK, RecordCancel
  <2>. QED  BY <2>3, <2>4, <2>6 DEF StepTyped, Kept
<1>5. CASE ListCleanupRefs(c)
  <2>1. /\ call[c].kind \in {"revoke", "delete"}
        /\ "refs" = "objects" => call[c].kind = "delete"
    BY <1>0, <1>5 DEF Shape, ListCleanupRefs
  <2>2. After(c, "refs") \in Stage
    BY <2>1, StageAfter
  <2>3. call' \in [Calls -> Call] /\ call'[c].pc = After(c, "refs") /\ Kept(c)
    BY <1>0, <1>5, <2>2, GoingsWithRefs DEF ListCleanupRefs, TypeOK
  <2>4. Shape(c)'
    BY <2>1, <2>3, AfterTyped
  <2>5. TypeOK'
    BY <1>0, <1>5, <2>3 DEF TypeOK, ListCleanupRefs
  <2>. QED  BY <2>3, <2>4, <2>5 DEF StepTyped, Kept
<1>6. CASE DeleteObject(c)
  <2>1. call' = call
    BY <1>6 DEF DeleteObject
  <2>2. TypeOK'
    BY <1>0, <1>6 DEF TypeOK, DeleteObject
  <2>3. Shape(c)'
    BY <1>0, <2>1 DEF Shape
  <2>. QED  BY <2>1, <2>2, <2>3 DEF StepTyped
<1>7. CASE ObjectsDeleted(c)
  <2>1. /\ call[c].kind \in {"revoke", "delete"}
        /\ "objects" = "objects" => call[c].kind = "delete"
    BY <1>0, <1>7 DEF Shape, ObjectsDeleted
  <2>2. After(c, "objects") \in Stage
    BY <2>1, StageAfter
  <2>3. call' \in [Calls -> Call] /\ call'[c].pc = After(c, "objects") /\ Kept(c)
    BY <1>0, <1>7, <2>2, Goings DEF ObjectsDeleted, Goes
  <2>4. Shape(c)'
    BY <2>1, <2>3, AfterTyped
  <2>5. TypeOK'
    BY <1>0, <1>7, <2>3 DEF TypeOK, ObjectsDeleted
  <2>. QED  BY <2>3, <2>4, <2>5 DEF StepTyped, Kept
<1>8. CASE RevokeCredential(c)
  <2>1. /\ call[c].kind \in {"revoke", "delete"}
        /\ "credential" = "objects" => call[c].kind = "delete"
    BY <1>0, <1>8 DEF Shape, RevokeCredential
  <2>2. After(c, "credential") \in Stage
    BY <2>1, StageAfter
  <2>3. call' \in [Calls -> Call] /\ call'[c].pc = After(c, "credential") /\ Kept(c)
    BY <1>0, <1>8, <2>2, Goings DEF RevokeCredential, Goes
  <2>4. Shape(c)'
    BY <2>1, <2>3, AfterTyped
  <2>5. call[c].seen.cred \in Credentials
    BY <1>0, <2>1, Calling, RowFields DEF Shape
  <2>6. TypeOK'
    BY <1>0, <1>8, <2>3, <2>5 DEF TypeOK, RevokeCredential
  <2>. QED  BY <2>3, <2>4, <2>6 DEF StepTyped, Kept
<1>9. CASE RevokeKnowledge(c)
  <2>1. /\ call[c].kind \in {"revoke", "delete"}
        /\ "knowledge" = "objects" => call[c].kind = "delete"
    BY <1>0, <1>9 DEF Shape, RevokeKnowledge
  <2>2. After(c, "knowledge") \in Stage
    BY <2>1, StageAfter
  <2>3. call' \in [Calls -> Call] /\ call'[c].pc = After(c, "knowledge") /\ Kept(c)
    BY <1>0, <1>9, <2>2, Goings DEF RevokeKnowledge, Goes
  <2>4. Shape(c)'
    BY <2>1, <2>3, AfterTyped
  <2>5. TypeOK'
    BY <1>0, <1>9, <2>3 DEF TypeOK, RevokeKnowledge
  <2>. QED  BY <2>3, <2>4, <2>5 DEF StepTyped, Kept
<1>10. CASE PurgeData(c)
  <2>1. call[c].kind = "delete"
    BY <1>0, <1>10 DEF Shape, PurgeData
  <2>2. Replaced(call[c].row, "deleted", Tombstone) \in Connection
    BY <1>0, Calling, ReplacedTyped, Stages
  <2>3. call' \in [Calls -> Call] /\ call'[c].pc = "save" /\ Kept(c)
    BY <1>0, <1>10, <2>2, GoingsWithRow DEF PurgeData
  <2>4. Shape(c)'
    BY <1>0, <2>1, <2>3 DEF Shape, Kept
  <2>5. NoSubscription \in Subscription
    BY Stages DEF NoSubscription, Subscription
  <2>6. TypeOK'
    BY <1>0, <1>10, <2>3, <2>5 DEF TypeOK, PurgeData
  <2>. QED  BY <2>3, <2>4, <2>6 DEF StepTyped, Kept
<1>. QED
  BY <1>1, <1>2, <1>3, <1>4, <1>5, <1>6, <1>7, <1>8, <1>9, <1>10 DEF EndsFurther

LEMMA CallTyped ==
  ASSUME TypeInv, NEW c \in Calls, CallStep(c)
  PROVE  StepTyped(c)
<1>. USE DEF rows, data, host
<1>0. TypeOK /\ Shape(c)
  BY DEF TypeInv
<1>1. CASE Revoke(c)
  <2>1. Changed("revoked", conn.cred) \in Connection /\ {} \in SUBSET Bodies
    BY <1>0, <1>1, RowFields, ReplacedTyped, Stages DEF TypeOK, Revoke, Changed
  <2>2. /\ call' \in [Calls -> Call] /\ call'[c].pc = "refs" /\ call'[c].kind = "revoke"
        /\ call'[c].seen = conn /\ \A d \in Calls \ {c} : call'[d] = call[d]
    <3>1. call[c].pc = "idle"
          /\ call' = [call EXCEPT ![c] = Started("revoke", "refs", Changed("revoked", conn.cred), {})]
      BY <1>1 DEF Revoke, Start
    <3>2. "refs" \in Stage /\ "revoke" \in Kind
      BY Stages
    <3>. QED  BY <1>0, <2>1, <3>1, <3>2, Starts
  <2>3. Shape(c)'
    BY <1>1, <2>2 DEF Shape, Revoke
  <2>4. TypeOK'
    BY <1>0, <1>1, <2>2 DEF TypeOK, Revoke
  <2>. QED  BY <2>2, <2>3, <2>4 DEF StepTyped
<1>2. CASE Delete(c)
  <2>1. Changed("deleting", conn.cred) \in Connection /\ conn \in Connection
    BY <1>0, <1>2, RowFields, ReplacedTyped, Stages DEF TypeOK, Delete, Changed
  <2>2. /\ call' \in [Calls -> Call] /\ call'[c].pc \in {"cancel", "mark"}
        /\ call'[c].kind = "delete" /\ call'[c].seen = conn
        /\ \A d \in Calls \ {c} : call'[d] = call[d]
    <3>0. {} \in SUBSET Bodies
      OBVIOUS
    <3>1. CASE conn.status = "deleting"
      <4>1. call' = [call EXCEPT ![c] = Started("delete", "cancel", conn, {})]
        BY <1>2, <3>1 DEF Delete, Start
      <4>2. "cancel" \in Stage /\ "delete" \in Kind
        BY Stages
      <4>. QED  BY <1>0, <2>1, <3>0, <4>1, <4>2, Starts
    <3>2. CASE conn.status # "deleting"
      <4>1. call' = [call EXCEPT ![c] =
                       Started("delete", "mark", Changed("deleting", conn.cred), {})]
        BY <1>2, <3>2 DEF Delete, Start
      <4>2. "mark" \in Stage /\ "delete" \in Kind
        BY Stages
      <4>3. PICK r \in Connection : r = Changed("deleting", conn.cred)
        BY <2>1
      <4>4. call' = [call EXCEPT ![c] = Started("delete", "mark", r, {})]
        BY <4>1, <4>3
      <4>. QED  BY <1>0, <3>0, <4>2, <4>4, Starts
    <3>. QED  BY <3>1, <3>2
  <2>3. Shape(c)'
    BY <1>2, <2>2 DEF Shape, Delete
  <2>4. TypeOK'
    BY <1>0, <1>2, <2>2 DEF TypeOK, Delete
  <2>. QED  BY <2>2, <2>3, <2>4 DEF StepTyped
<1>3. CASE CheckRevision(c)
  <2>1. /\ call' \in [Calls -> Call] /\ call'[c].pc = call[c].pc /\ Kept(c)
    BY <1>0, <1>3, Checking DEF CheckRevision
  <2>2. call'[c].pc # "store"
    BY <1>3, <2>1 DEF CheckRevision, Saving
  <2>3. Shape(c)'
    BY <1>0, <2>1, <2>2 DEF Shape, Kept
  <2>4. TypeOK'
    BY <1>0, <1>3, <2>1 DEF TypeOK, CheckRevision
  <2>. QED  BY <2>1, <2>3, <2>4 DEF StepTyped, Kept
<1>4. CASE SaveConnection(c)
  <2>1. call' = [call EXCEPT ![c] = NoCall] /\ conn' = call[c].row
    BY <1>4 DEF SaveConnection
  <2>2. call[c].row \in Connection /\ ended' \in SUBSET Credentials
    BY <1>0, <1>4, Calling, RowFields DEF SaveConnection, TypeOK
  <2>3. TypeOK'
    BY <1>0, <1>4, <2>1, <2>2, Ends DEF TypeOK, SaveConnection
  <2>. QED  BY <1>0, <2>1, <2>3, Ends, EndTyped DEF StepTyped
<1>5. CASE CallFails(c)
  <2>1. call' = [call EXCEPT ![c] = NoCall]
    BY <1>5 DEF CallFails
  <2>2. TypeOK'
    BY <1>0, <1>5, <2>1, Ends DEF TypeOK, CallFails
  <2>. QED  BY <1>0, <2>1, <2>2, Ends, EndTyped DEF StepTyped
<1>. QED
  BY <1>1, <1>2, <1>3, <1>4, <1>5, ChangesTyped, WorksTyped, EndsFurtherTyped DEF CallStep

LEMMA TypeInit == Init => TypeInv
<1>1. SUFFICES ASSUME Init PROVE TypeInv
  OBVIOUS
<1>2. PICK k \in Credentials :
        /\ conn = [status |-> "pending_authorization", rev |-> 1, cred |-> k]
        /\ issued = {k}
  BY <1>1 DEF Init
<1>3. conn \in Connection
  BY <1>2 DEF Connection, Status
<1>4. sub \in Subscription /\ watch \in WatchRefs
  BY <1>1, Stages DEF Init, NoSubscription, Subscription
<1>5. call \in [Calls -> Call] /\ \A c \in Calls : call[c].pc = "idle" /\ call[c].kind = "none"
  BY <1>1, NoCallTyped DEF Init
<1>6. TypeOK
  BY <1>1, <1>2, <1>3, <1>4, <1>5 DEF Init, TypeOK
<1>7. \A c \in Calls : Shape(c)
  BY <1>5 DEF Shape
<1>. QED  BY <1>6, <1>7 DEF TypeInv

LEMMA TypeNext == TypeInv /\ [Next]_vars => TypeInv'
<1>1. SUFFICES ASSUME TypeInv, [Next]_vars PROVE TypeInv'
  OBVIOUS
<1>2. ASSUME NEW c \in Calls, CallStep(c) PROVE TypeInv'
  <2>1. StepTyped(c)
    BY <1>1, <1>2, CallTyped
  <2>2. \A d \in Calls \ {c} : Shape(d) /\ call'[d] = call[d]
    BY <1>1, <2>1 DEF TypeInv, StepTyped
  <2>3. \A d \in Calls \ {c} : Shape(d)'
    BY <2>2 DEF Shape
  <2>. QED  BY <2>1, <2>3 DEF TypeInv, StepTyped
<1>3. CASE WatchLapses
  <2>1. TypeOK'
    BY <1>1, <1>3, Stages DEF TypeInv, TypeOK, WatchLapses, rows, data
  <2>2. \A c \in Calls : Shape(c)'
    BY <1>1, <1>3 DEF TypeInv, Shape, WatchLapses
  <2>. QED  BY <2>1, <2>2 DEF TypeInv
<1>4. CASE UNCHANGED vars
  <2>1. TypeOK'
    BY <1>1, <1>4 DEF TypeInv, TypeOK, vars, rows, data, host
  <2>2. \A c \in Calls : Shape(c)'
    BY <1>1, <1>4 DEF TypeInv, Shape, vars
  <2>. QED  BY <2>1, <2>2 DEF TypeInv
<1>. QED  BY <1>1, <1>2, <1>3, <1>4 DEF Next

LEMMA Typed == Spec => []TypeInv
<1>. QED  BY TypeInit, TypeNext, PTL DEF Spec

(* Whatever calls interleave, over either repository, every row, stored      *)
(* message and call keeps its type, and a message has at most one row        *)
(* (save_connection, save_message, save_sync_state).                         *)
THEOREM TypeCorrect == Spec => []TypeOK
<1>1. TypeInv => TypeOK
  BY DEF TypeInv
<1>. QED  BY <1>1, Typed, PTL

-----------------------------------------------------------------------------
(* The row, when save_connection is atomic.                                *)

\* A copy of the row is as old as its revision says.
Fresh(r) == r.rev <= conn.rev /\ (r.rev = conn.rev => r = conn)

\* The row as calls rely on it.
RowInv ==
  /\ conn.status # "deleted" => conn.cred \in issued
  /\ conn.status = "revoked" => conn.cred \in revoked
  /\ ended \subseteq issued

\* What a call has read.
SeenInv(c) ==
  call[c].kind # "none" =>
    Fresh(call[c].seen) /\ (call[c].seen.status # "deleted" => call[c].seen.cred \in issued)

\* What a change or a failed synchronisation is about to save.
ChangeInv(c) ==
  /\ call[c].pc = "refresh" => call[c].seen.status \notin {"revoked", "deleting", "deleted"}
  /\ call[c].kind \in {"change", "sync"} /\ call[c].pc = "save" =>
       /\ call[c].row.rev = call[c].seen.rev + 1
       /\ call[c].seen.status \notin {"deleting", "deleted"}
       /\ call[c].row.status \notin {"deleting", "deleted"} /\ call[c].row.cred \in issued
       /\ call[c].row.status = "revoked" =>
            call[c].seen.status = "revoked" /\ call[c].row.cred = call[c].seen.cred
       /\ call[c].seen.status = "revoked" /\ call[c].row.status # "revoked" =>
            /\ call[c].row.status = "active"
            /\ conn.rev = call[c].seen.rev => call[c].row.cred \notin ended

RevokeInv(c) ==
  call[c].kind = "revoke" =>
    /\ call[c].seen.status \in {"active", "degraded"}
    /\ call[c].row = Replaced(call[c].seen, "revoked", call[c].seen.cred)
    /\ call[c].pc = "save" => call[c].seen.cred \in revoked

DeleteInv(c) ==
  call[c].kind = "delete" =>
    /\ call[c].seen.status = "revoked" => call[c].seen.cred \in revoked
    /\ call[c].pc \in {"knowledge", "purge", "save"} => call[c].seen.cred \in revoked
    /\ call[c].pc = "mark" => call[c].row = Replaced(call[c].seen, "deleting", call[c].seen.cred)
    /\ call[c].pc \notin {"mark", "save"} =>
         /\ call[c].row.status = "deleting" /\ call[c].row.cred = call[c].seen.cred
         /\ Fresh(call[c].row)
    /\ call[c].pc = "save" =>
         /\ call[c].row.status = "deleted" /\ call[c].row.rev <= conn.rev + 1
         /\ call[c].row.rev = conn.rev + 1 =>
              conn.status = "deleting" /\ conn.cred = call[c].seen.cred

CallInv(c) == SeenInv(c) /\ ChangeInv(c) /\ RevokeInv(c) /\ DeleteInv(c)

\* The inductive invariant of an atomic save_connection.
CasInv == TypeInv /\ RowInv /\ \A c \in Calls : CallInv(c)

LEMMA CasInit == Init => CasInv
<1>1. SUFFICES ASSUME Init PROVE CasInv
  OBVIOUS
<1>2. PICK k \in Credentials :
        /\ conn = [status |-> "pending_authorization", rev |-> 1, cred |-> k]
        /\ issued = {k}
  BY <1>1 DEF Init
<1>3. RowInv
  BY <1>1, <1>2 DEF Init, RowInv
<1>4. \A c \in Calls : call[c].pc = "idle" /\ call[c].kind = "none"
  BY <1>1, NoCallTyped DEF Init
<1>5. \A c \in Calls : CallInv(c)
  BY <1>4 DEF CallInv, SeenInv, ChangeInv, RevokeInv, DeleteInv
<1>. QED  BY <1>1, <1>3, <1>5, TypeInit DEF CasInv

\* What a step of one call leaves to the others.
Grows ==
  /\ TypeOK'
  /\ issued \subseteq issued' /\ revoked \subseteq revoked'
  /\ UNCHANGED <<conn, ended>> \/ conn'.rev > conn.rev

LEMMA FreshStays ==
  ASSUME TypeOK, Grows, NEW r \in Connection, Fresh(r)
  PROVE  r.rev <= conn'.rev /\ (r.rev = conn'.rev => r = conn' /\ conn' = conn)
<1>1. r.rev \in Nat /\ conn.rev \in Nat /\ conn'.rev \in Nat
  BY RowFields DEF TypeOK, Grows
<1>2. CASE UNCHANGED <<conn, ended>>
  BY <1>2 DEF Fresh
<1>3. CASE conn'.rev > conn.rev
  BY <1>1, <1>3 DEF Fresh
<1>. QED  BY <1>2, <1>3 DEF Grows

LEMMA Others ==
  ASSUME CasInv, NEW c \in Calls, call'[c] = call[c], Grows
  PROVE  CallInv(c)'
<1>0. TypeOK /\ Shape(c) /\ CallInv(c)
  BY DEF CasInv, TypeInv
<1>1. /\ call[c].seen \in Connection /\ call[c].row \in Connection
      /\ call[c].seen.rev \in Nat /\ call[c].row.rev \in Nat
      /\ conn.rev \in Nat /\ conn'.rev \in Nat
  BY <1>0, Calling, RowFields DEF TypeOK, Grows
<1>2. issued \subseteq issued' /\ revoked \subseteq revoked'
  BY DEF Grows
<1>3. SeenInv(c)'
  <2>1. CASE call[c].kind = "none"
    BY <2>1 DEF SeenInv
  <2>2. CASE call[c].kind # "none"
    <3>1. /\ Fresh(call[c].seen)
          /\ call[c].seen.status # "deleted" => call[c].seen.cred \in issued
      BY <1>0, <2>2 DEF CallInv, SeenInv
    <3>2. /\ call[c].seen.rev <= conn'.rev
          /\ call[c].seen.rev = conn'.rev => call[c].seen = conn'
      BY <1>0, <1>1, <3>1, FreshStays
    <3>. QED  BY <1>2, <3>1, <3>2 DEF SeenInv, Fresh
  <2>. QED  BY <2>1, <2>2
<1>4. ChangeInv(c)'
  <2>1. CASE call[c].kind \in {"change", "sync"} /\ call[c].pc = "save"
    <3>1. ChangeInv(c) /\ Fresh(call[c].seen)
      BY <1>0, <2>1 DEF CallInv, SeenInv
    <3>2. conn'.rev = call[c].seen.rev => conn.rev = call[c].seen.rev /\ ended' = ended
      <4>1. CASE UNCHANGED <<conn, ended>>
        BY <4>1
      <4>2. CASE conn'.rev > conn.rev
        BY <1>1, <3>1, <4>2 DEF Fresh
      <4>. QED  BY <4>1, <4>2 DEF Grows
    <3>. QED  BY <1>2, <2>1, <3>1, <3>2 DEF ChangeInv
  <2>2. CASE ~(call[c].kind \in {"change", "sync"} /\ call[c].pc = "save")
    BY <1>0, <2>2 DEF CallInv, ChangeInv
  <2>. QED  BY <2>1, <2>2
<1>5. RevokeInv(c)'
  BY <1>0, <1>2 DEF CallInv, RevokeInv, Replaced
<1>6. DeleteInv(c)'
  <2>0. DeleteInv(c)
    BY <1>0 DEF CallInv
  <2>1. CASE call[c].kind # "delete"
    BY <2>1 DEF DeleteInv
  <2>2. CASE call[c].kind = "delete" /\ call[c].pc \notin {"mark", "save"}
    <3>1. Fresh(call[c].row)
      BY <2>0, <2>2 DEF DeleteInv
    <3>2. /\ call[c].row.rev <= conn'.rev
          /\ call[c].row.rev = conn'.rev => call[c].row = conn'
      BY <1>0, <1>1, <3>1, FreshStays
    <3>. QED  BY <1>2, <2>0, <2>2, <3>2 DEF DeleteInv, Fresh
  <2>3. CASE call[c].kind = "delete" /\ call[c].pc = "mark"
    BY <1>2, <2>0, <2>3 DEF DeleteInv, Replaced
  <2>4. CASE call[c].kind = "delete" /\ call[c].pc = "save"
    <3>1. /\ call[c].row.rev <= conn'.rev + 1
          /\ call[c].row.rev = conn'.rev + 1 => conn' = conn
      <4>1. CASE UNCHANGED <<conn, ended>>
        BY <2>0, <2>4, <4>1 DEF DeleteInv
      <4>2. CASE conn'.rev > conn.rev
        <5>1. call[c].row.rev <= conn.rev + 1
          BY <2>0, <2>4 DEF DeleteInv
        <5>. QED  BY <1>1, <4>2, <5>1
      <4>. QED  BY <4>1, <4>2 DEF Grows
    <3>. QED  BY <1>2, <2>0, <2>4, <3>1 DEF DeleteInv
  <2>. QED  BY <2>1, <2>2, <2>3, <2>4
<1>. QED  BY <1>3, <1>4, <1>5, <1>6 DEF CallInv

\* Steps that do not save.
Quiet == UNCHANGED <<conn, ended>> /\ issued \subseteq issued' /\ revoked \subseteq revoked'

LEMMA QuietRow ==
  ASSUME RowInv, Quiet
  PROVE  RowInv'
BY DEF RowInv, Quiet

\* A call that has just read the row.
LEMMA Reads ==
  ASSUME CasInv, NEW c \in Calls, Quiet, call'[c].seen = conn
  PROVE  SeenInv(c)'
<1>1. conn.rev \in Nat
  BY RowFields DEF CasInv, TypeInv, TypeOK
<1>. QED  BY <1>1 DEF CasInv, RowInv, SeenInv, Fresh, Quiet

LEMMA Remembers ==
  ASSUME CasInv, NEW c \in Calls, Quiet, call[c].kind # "none", call'[c].seen = call[c].seen
  PROVE  SeenInv(c)'
BY DEF CasInv, CallInv, SeenInv, Fresh, Quiet

LEMMA Idles ==
  ASSUME TypeOK, NEW c \in Calls, call' = [call EXCEPT ![c] = NoCall]
  PROVE  CallInv(c)'
BY Ends DEF CallInv, SeenInv, ChangeInv, RevokeInv, DeleteInv

LEMMA WorksKeep ==
  ASSUME CasInv, NEW c \in Calls, Works(c)
  PROVE  Quiet /\ CallInv(c)'
<1>1. Worked(c) /\ Quiet
  BY WorksTyped DEF CasInv, Worked, Quiet
<1>2. SeenInv(c)'
  <2>1. CASE call'[c].kind = "none"
    BY <2>1 DEF SeenInv
  <2>2. CASE call'[c].kind # "none"
    BY <1>1, <2>2, Reads, Remembers DEF Worked
  <2>. QED  BY <2>1, <2>2
<1>. QED  BY <1>1, <1>2 DEF Worked, CallInv, ChangeInv, RevokeInv, DeleteInv

\* A change whose new row is known when it reads the old one.
LEMMA ChangeBegins ==
  ASSUME CasInv, NEW c \in Calls, NEW s \in Status \ {"deleting", "deleted"},
         NEW k \in Credentials, Start(c, "change", "save", Changed(s, k)), Quiet,
         k \in issued', conn.status \notin {"deleting", "deleted"},
         s = "revoked" => conn.status = "revoked" /\ k = conn.cred,
         conn.status = "revoked" /\ s # "revoked" => s = "active" /\ k \notin ended
  PROVE  CallInv(c)'
<1>1. TypeOK /\ conn \in Connection /\ {} \in SUBSET Bodies
  BY DEF CasInv, TypeInv, TypeOK
<1>2. /\ Changed(s, k) \in Connection /\ Changed(s, k).status = s
      /\ Changed(s, k).cred = k /\ Changed(s, k).rev = conn.rev + 1
  BY <1>1, ReplacedTyped DEF Changed
<1>3. /\ call'[c].pc = "save" /\ call'[c].kind = "change"
      /\ call'[c].seen = conn /\ call'[c].row = Changed(s, k)
  <2>1. call' = [call EXCEPT ![c] = Started("change", "save", Changed(s, k), {})]
    BY DEF Start
  <2>2. "save" \in Stage /\ "change" \in Kind
    BY Stages
  <2>. DEFINE r == Started("change", "save", Changed(s, k), {})
  <2>3. /\ r \in Call /\ r.pc = "save" /\ r.kind = "change"
        /\ r.seen = conn /\ r.row = Changed(s, k)
    BY <1>1, <1>2, <2>2, StartedTyped
  <2>4. call'[c] = r
    BY <1>1, <2>1, <2>3, Becoming
  <2>. QED  BY <2>3, <2>4
<1>4. SeenInv(c)'
  BY <1>3, Reads
<1>5. ChangeInv(c)'
  <2>1. ended' = ended
    BY DEF Quiet
  <2>. QED  BY <1>2, <1>3, <2>1 DEF ChangeInv
<1>. QED  BY <1>3, <1>4, <1>5 DEF CallInv, RevokeInv, DeleteInv

\* A change whose new row depends on an answer of the host or the provider.
LEMMA ChangeDecides ==
  ASSUME CasInv, NEW c \in Calls, NEW s \in Status \ {"revoked", "deleting", "deleted"},
         NEW k \in Credentials, call[c].kind \in {"change", "sync"},
         call' = [call EXCEPT ![c].pc = "save", ![c].row = Replaced(call[c].seen, s, k)],
         call[c].seen.status \notin {"revoked", "deleting", "deleted"}, Quiet, k \in issued'
  PROVE  CallInv(c)'
<1>1. TypeOK /\ call[c].seen \in Connection
  BY Calling DEF CasInv, TypeInv
<1>2. /\ Replaced(call[c].seen, s, k) \in Connection
      /\ Replaced(call[c].seen, s, k).status = s /\ Replaced(call[c].seen, s, k).cred = k
      /\ Replaced(call[c].seen, s, k).rev = call[c].seen.rev + 1
  BY <1>1, ReplacedTyped
<1>3. call'[c].pc = "save" /\ Kept(c) /\ call'[c].row = Replaced(call[c].seen, s, k)
  BY <1>1, <1>2, GoingsWithRow
<1>4. SeenInv(c)'
  BY <1>3, Remembers DEF Kept
<1>5. ChangeInv(c)'
  BY <1>2, <1>3 DEF ChangeInv, Kept
<1>. QED  BY <1>3, <1>4, <1>5 DEF CallInv, RevokeInv, DeleteInv, Kept

LEMMA ChangesKeep ==
  ASSUME CasInv, ~Reactivates, NEW c \in Calls, Changes(c)
  PROVE  Quiet /\ CallInv(c)'
<1>. USE DEF rows, data, host
<1>0. /\ TypeOK /\ Shape(c) /\ RowInv /\ CallInv(c) /\ conn \in Connection
      /\ conn.status \in Status /\ conn.rev \in Nat
  BY RowFields DEF CasInv, TypeInv, TypeOK
<1>1. CASE Activate(c)
  <2>1. Quiet
    BY <1>1 DEF Activate, Quiet
  <2>2. conn.status \notin {"revoked", "deleting", "deleted"}
    BY <1>1 DEF Activate
  <2>3. conn.cred \in Credentials /\ conn.cred \in issued'
    BY <1>0, <2>1, <2>2, RowFields DEF RowInv, Quiet
  <2>4. Start(c, "change", "save", Changed("active", conn.cred))
    BY <1>1 DEF Activate
  <2>5. "active" \in Status \ {"deleting", "deleted"}
    BY Stages
  <2>. QED  BY <2>1, <2>2, <2>3, <2>4, <2>5, ChangeBegins
<1>2. CASE Reauthorize(c)
  <2>1. PICK k \in Credentials \ issued :
          /\ Start(c, "change", "save", Changed("active", k))
          /\ issued' = issued \cup {k}
    BY <1>2 DEF Reauthorize
  <2>2. Quiet
    BY <1>2, <2>1 DEF Reauthorize, Quiet
  <2>3. conn.status \notin {"deleting", "deleted"}
    BY <1>2 DEF Reauthorize
  <2>4. k \in issued' /\ k \notin ended
    BY <1>0, <2>1 DEF RowInv
  <2>5. "active" \in Status \ {"deleting", "deleted"}
    BY Stages
  <2>. QED  BY <2>1, <2>2, <2>3, <2>4, <2>5, ChangeBegins
<1>3. CASE Refresh(c)
  <2>1. Quiet
    BY <1>3 DEF Refresh, Quiet
  <2>2. conn.status \notin {"revoked", "deleting", "deleted"} /\ {} \in SUBSET Bodies
    BY <1>3 DEF Refresh
  <2>3. call'[c].pc = "refresh" /\ call'[c].kind = "change" /\ call'[c].seen = conn
    BY <1>0, <1>3, <2>2, Starts, Stages DEF Refresh, Start
  <2>4. SeenInv(c)'
    BY <2>1, <2>3, Reads
  <2>. QED  BY <2>1, <2>2, <2>3, <2>4 DEF CallInv, ChangeInv, RevokeInv, DeleteInv
<1>4. CASE HostRefreshes(c)
  <2>1. PICK k \in {call[c].seen.cred} \cup (Credentials \ issued) :
          /\ issued' = issued \cup {k}
          /\ call' = [call EXCEPT ![c].pc = "save", ![c].row = Replaced(call[c].seen, "active", k)]
    BY <1>4 DEF HostRefreshes
  <2>2. Quiet
    BY <1>4, <2>1 DEF HostRefreshes, Quiet
  <2>3. /\ call[c].kind = "change"
        /\ call[c].seen.status \notin {"revoked", "deleting", "deleted"}
    BY <1>0, <1>4 DEF HostRefreshes, Shape, CallInv, ChangeInv
  <2>4. k \in Credentials /\ k \in issued'
    BY <1>0, <2>1, <2>3, Calling, RowFields
  <2>5. "active" \in Status \ {"revoked", "deleting", "deleted"}
    BY Stages
  <2>. QED  BY <2>1, <2>2, <2>3, <2>4, <2>5, ChangeDecides
<1>5. CASE UpdateScopes(c)
  <2>1. Quiet
    BY <1>5 DEF UpdateScopes, Quiet
  <2>2. conn.status \in Status \ {"deleting", "deleted"}
    BY <1>0, <1>5 DEF UpdateScopes
  <2>3. conn.cred \in Credentials /\ conn.cred \in issued'
    BY <1>0, <2>1, <2>2, RowFields DEF RowInv, Quiet
  <2>4. Start(c, "change", "save", Changed(conn.status, conn.cred))
    BY <1>5 DEF UpdateScopes
  <2>. QED  BY <2>1, <2>2, <2>3, <2>4, ChangeBegins
<1>6. ASSUME NEW s \in {"degraded", "reauthorization_required"}, ProviderLifecycle(c, s)
      PROVE  Quiet /\ CallInv(c)'
  <2>1. Quiet
    BY <1>6 DEF ProviderLifecycle, Quiet
  <2>2. conn.status \in {"active", "degraded"}
    BY <1>6 DEF ProviderLifecycle
  <2>3. conn.cred \in Credentials /\ conn.cred \in issued'
    BY <1>0, <2>1, <2>2, RowFields DEF RowInv, Quiet
  <2>4. Start(c, "change", "save", Changed(s, conn.cred))
    BY <1>6 DEF ProviderLifecycle
  <2>5. s \in Status \ {"deleting", "deleted"}
    BY <1>6, Stages
  <2>. QED  BY <2>1, <2>2, <2>3, <2>4, <2>5, ChangeBegins
<1>7. ASSUME NEW s \in {"degraded", "reauthorization_required"}, SyncFails(c, s)
      PROVE  Quiet /\ CallInv(c)'
  <2>1. Quiet
    BY <1>7 DEF SyncFails, Quiet
  <2>2. call[c].kind = "sync" /\ call[c].seen.status = "active"
    BY <1>0, <1>7 DEF SyncFails, Shape
  <2>3. call[c].seen.cred \in Credentials
    BY <1>0, <2>2, Calling, RowFields
  <2>4. call[c].seen.cred \in issued'
    BY <1>0, <2>1, <2>2 DEF CallInv, SeenInv, Quiet
  <2>5. s \in Status \ {"revoked", "deleting", "deleted"}
    BY <1>7, Stages
  <2>6. call' = [call EXCEPT ![c].pc = "save",
                             ![c].row = Replaced(call[c].seen, s, call[c].seen.cred)]
    BY <1>7 DEF SyncFails
  <2>. QED  BY <2>1, <2>2, <2>3, <2>4, <2>5, <2>6, ChangeDecides
<1>. QED  BY <1>1, <1>2, <1>3, <1>4, <1>5, <1>6, <1>7 DEF Changes

\* Revocations and deletions between their first and their last save.
LEMMA EndsOn ==
  ASSUME CasInv, NEW c \in Calls, call[c].kind \in {"revoke", "delete"}, Kept(c), Quiet,
         call'[c].row = call[c].row,
         call[c].pc \notin {"mark", "save"}, call'[c].pc \notin {"refresh", "mark"},
         call[c].kind = "delete" => call'[c].pc # "save",
         call[c].kind = "delete" /\ call'[c].pc \in {"knowledge", "purge"}
           => call[c].seen.cred \in revoked',
         call[c].kind = "revoke" /\ call'[c].pc = "save" => call[c].seen.cred \in revoked'
  PROVE  CallInv(c)'
<1>1. SeenInv(c)'
  BY Remembers DEF Kept
<1>2. ChangeInv(c)'
  BY DEF ChangeInv, Kept
<1>3. RevokeInv(c)'
  BY DEF CasInv, CallInv, RevokeInv, Kept, Replaced
<1>4. DeleteInv(c)'
  <2>1. CASE call[c].kind = "revoke"
    BY <2>1 DEF DeleteInv, Kept
  <2>2. CASE call[c].kind = "delete"
    <3>1. DeleteInv(c) /\ conn' = conn /\ revoked \subseteq revoked'
      BY DEF CasInv, CallInv, Quiet
    <3>2. /\ call'[c].kind = "delete" /\ call'[c].seen = call[c].seen
          /\ call'[c].pc \notin {"mark", "save"}
      BY <2>2 DEF Kept
    <3>3. /\ call[c].row.status = "deleting" /\ call[c].row.cred = call[c].seen.cred
          /\ Fresh(call[c].row)
      BY <2>2, <3>1 DEF DeleteInv
    <3>4. call[c].seen.status = "revoked" => call[c].seen.cred \in revoked'
      BY <2>2, <3>1 DEF DeleteInv
    <3>. QED  BY <2>2, <3>1, <3>2, <3>3, <3>4 DEF DeleteInv, Fresh
  <2>. QED  BY <2>1, <2>2
<1>. QED  BY <1>1, <1>2, <1>3, <1>4 DEF CallInv

LEMMA EndsKeep ==
  ASSUME CasInv, NEW c \in Calls, EndsFurther(c), ~MarkDeleting(c)
  PROVE  Quiet /\ CallInv(c)'
<1>. USE DEF rows, data, host
<1>0. TypeOK /\ Shape(c) /\ CallInv(c)
  BY DEF CasInv, TypeInv
<1>1. CASE CancelSubscriptions(c)
  <2>1. /\ call[c].kind \in {"revoke", "delete"} /\ call[c].pc = "cancel"
        /\ sub.ref \in WatchRefs /\ Quiet
    BY <1>0, <1>1 DEF Shape, CancelSubscriptions, TypeOK, Subscription, Quiet
  <2>2. CASE sub.ref = NoWatch \/ sub.cancelled
    <3>1. After(c, "cancel") \in {"credential", "refs"}
      BY <2>1, Afters
    <3>2. call'[c].pc = After(c, "cancel") /\ Kept(c) /\ call'[c].row = call[c].row
      BY <1>0, <1>1, <2>2, <3>1, Goings, Stages DEF CancelSubscriptions, Goes
    <3>. QED  BY <2>1, <3>1, <3>2, EndsOn
  <2>3. CASE ~(sub.ref = NoWatch \/ sub.cancelled)
    <3>0. call' = [call EXCEPT ![c].pc = "unwatch", ![c].ref = sub.ref, ![c].expected = sub.ref]
      BY <1>1, <2>3 DEF CancelSubscriptions
    <3>1. call'[c].pc = "unwatch" /\ Kept(c) /\ call'[c].row = call[c].row
      <4>1. "unwatch" \in Stage
        BY Stages
      <4>. QED  BY <1>0, <2>1, <3>0, <4>1, GoingsToCancel
    <3>. QED  BY <2>1, <3>1, EndsOn
  <2>. QED  BY <2>2, <2>3
<1>2. CASE HostCancelsWatch(c)
  <2>1. /\ call[c].kind \in {"revoke", "delete"} /\ call[c].pc = "unwatch" /\ Quiet
    BY <1>0, <1>2 DEF Shape, HostCancelsWatch, Quiet
  <2>2. call'[c].pc = "record_cancel" /\ Kept(c) /\ call'[c].row = call[c].row
    BY <1>0, <1>2, Goings, Stages DEF HostCancelsWatch, Goes
  <2>. QED  BY <2>1, <2>2, EndsOn
<1>3. CASE RecordCancel(c)
  <2>1. /\ call[c].kind \in {"revoke", "delete"} /\ call[c].pc = "record_cancel" /\ Quiet
    BY <1>0, <1>3 DEF Shape, RecordCancel, Quiet
  <2>2. After(c, "cancel") \in {"credential", "refs"}
    BY <2>1, Afters
  <2>3. call'[c].pc = After(c, "cancel") /\ Kept(c) /\ call'[c].row = call[c].row
    BY <1>0, <1>3, <2>2, Goings, Stages DEF RecordCancel, Goes
  <2>. QED  BY <2>1, <2>2, <2>3, EndsOn
<1>4. CASE ListCleanupRefs(c)
  <2>1. /\ call[c].kind \in {"revoke", "delete"} /\ call[c].pc = "refs" /\ Quiet
    BY <1>0, <1>4 DEF Shape, ListCleanupRefs, Quiet
  <2>2. /\ After(c, "refs") \in {"knowledge", "objects"}
        /\ call[c].kind = "delete" => After(c, "refs") = "objects"
    BY <2>1, Afters
  <2>3. call'[c].pc = After(c, "refs") /\ Kept(c) /\ call'[c].row = call[c].row
    BY <1>0, <1>4, <2>2, GoingsWithRefs, Stages DEF ListCleanupRefs, TypeOK
  <2>. QED  BY <2>1, <2>2, <2>3, EndsOn
<1>5. CASE DeleteObject(c)
  <2>1. call' = call /\ Quiet
    BY <1>5 DEF DeleteObject, Quiet
  <2>2. TypeOK'
    BY <1>0, <1>5 DEF TypeOK, DeleteObject
  <2>. QED  BY <2>1, <2>2, Others DEF Grows, Quiet
<1>6. CASE ObjectsDeleted(c)
  <2>1. /\ call[c].kind = "delete" /\ call[c].pc = "objects" /\ Quiet
    BY <1>0, <1>6 DEF Shape, ObjectsDeleted, Quiet
  <2>2. After(c, "objects") = "credential"
    BY <2>1, Afters
  <2>3. call'[c].pc = "credential" /\ Kept(c) /\ call'[c].row = call[c].row
    BY <1>0, <1>6, <2>2, Goings, Stages DEF ObjectsDeleted, Goes
  <2>. QED  BY <2>1, <2>3, EndsOn
<1>7. CASE RevokeCredential(c)
  <2>1. /\ call[c].kind \in {"revoke", "delete"} /\ call[c].pc = "credential" /\ Quiet
    BY <1>0, <1>7 DEF Shape, RevokeCredential, Quiet
  <2>2. call[c].seen.cred \in revoked'
    <3>1. CASE MustRevoke(c)
      BY <1>7, <3>1 DEF RevokeCredential
    <3>2. CASE ~MustRevoke(c)
      BY <1>0, <2>1, <3>2 DEF MustRevoke, CallInv, DeleteInv, Quiet
    <3>. QED  BY <3>1, <3>2
  <2>3. /\ After(c, "credential") \in {"knowledge", "save"}
        /\ call[c].kind = "delete" => After(c, "credential") = "knowledge"
    BY <2>1, Afters
  <2>4. call'[c].pc = After(c, "credential") /\ Kept(c) /\ call'[c].row = call[c].row
    BY <1>0, <1>7, <2>3, Goings, Stages DEF RevokeCredential, Goes
  <2>. QED  BY <2>1, <2>2, <2>3, <2>4, EndsOn
<1>8. CASE RevokeKnowledge(c)
  <2>1. /\ call[c].kind \in {"revoke", "delete"} /\ call[c].pc = "knowledge" /\ Quiet
    BY <1>0, <1>8 DEF Shape, RevokeKnowledge, Quiet
  <2>2. call[c].kind = "delete" => call[c].seen.cred \in revoked'
    BY <1>0, <2>1 DEF CallInv, DeleteInv, Quiet
  <2>3. After(c, "knowledge") \in {"cancel", "purge"}
    BY <2>1, Afters
  <2>4. call'[c].pc = After(c, "knowledge") /\ Kept(c) /\ call'[c].row = call[c].row
    BY <1>0, <1>8, <2>3, Goings, Stages DEF RevokeKnowledge, Goes
  <2>. QED  BY <2>1, <2>2, <2>3, <2>4, EndsOn
<1>9. CASE PurgeData(c)
  <2>1. call[c].kind = "delete" /\ call[c].pc = "purge" /\ Quiet
    BY <1>0, <1>9 DEF Shape, PurgeData, Quiet
  <2>2. call[c].row \in Connection /\ call[c].row.rev \in Nat /\ conn.rev \in Nat
    BY <1>0, Calling, RowFields DEF TypeOK
  <2>3. /\ Replaced(call[c].row, "deleted", Tombstone) \in Connection
        /\ Replaced(call[c].row, "deleted", Tombstone).status = "deleted"
        /\ Replaced(call[c].row, "deleted", Tombstone).rev = call[c].row.rev + 1
    BY <2>2, ReplacedTyped, Stages
  <2>4. /\ call'[c].pc = "save" /\ Kept(c)
        /\ call'[c].row = Replaced(call[c].row, "deleted", Tombstone)
    BY <1>0, <1>9, <2>3, GoingsWithRow DEF PurgeData
  <2>5. SeenInv(c)'
    BY <2>1, <2>4, Remembers DEF Kept
  <2>6. /\ call[c].seen.cred \in revoked
        /\ call[c].row.status = "deleting" /\ call[c].row.cred = call[c].seen.cred
        /\ Fresh(call[c].row)
    BY <1>0, <2>1 DEF CallInv, DeleteInv
  <2>7. /\ call'[c].row.status = "deleted" /\ call'[c].row.rev <= conn'.rev + 1
        /\ call'[c].row.rev = conn'.rev + 1 =>
             conn'.status = "deleting" /\ conn'.cred = call'[c].seen.cred
    BY <2>1, <2>2, <2>3, <2>4, <2>6 DEF Fresh, Quiet, Kept
  <2>8. DeleteInv(c)'
    BY <2>1, <2>4, <2>6, <2>7 DEF DeleteInv, Kept, Quiet
  <2>. QED  BY <2>1, <2>4, <2>5, <2>8 DEF CallInv, ChangeInv, RevokeInv, Kept
<1>. QED
  BY <1>1, <1>2, <1>3, <1>4, <1>5, <1>6, <1>7, <1>8, <1>9 DEF EndsFurther

LEMMA EndsBegin ==
  ASSUME CasInv, NEW c \in Calls, Revoke(c) \/ Delete(c)
  PROVE  Quiet /\ CallInv(c)'
<1>. USE DEF rows, data, host
<1>0. /\ TypeOK /\ RowInv /\ conn \in Connection
      /\ conn.status \in Status /\ conn.rev \in Nat /\ {} \in SUBSET Bodies
  BY RowFields DEF CasInv, TypeInv, TypeOK
<1>1. conn.status # "deleted" /\ Quiet
  BY DEF Revoke, Delete, Quiet
<1>2. conn.cred \in Credentials
  BY <1>0, <1>1, RowFields
<1>3. CASE Revoke(c)
  <2>1. Changed("revoked", conn.cred) \in Connection
    BY <1>0, <1>2, ReplacedTyped, Stages DEF Changed
  <2>2. call' = [call EXCEPT ![c] = Started("revoke", "refs", Changed("revoked", conn.cred), {})]
    BY <1>3 DEF Revoke, Start
  <2>3. "refs" \in Stage /\ "revoke" \in Kind
    BY Stages
  <2>4. /\ call'[c].pc = "refs" /\ call'[c].kind = "revoke"
        /\ call'[c].seen = conn /\ call'[c].row = Changed("revoked", conn.cred)
    <3>. DEFINE r == Started("revoke", "refs", Changed("revoked", conn.cred), {})
    <3>1. /\ r \in Call /\ r.pc = "refs" /\ r.kind = "revoke"
          /\ r.seen = conn /\ r.row = Changed("revoked", conn.cred)
      BY <1>0, <2>1, <2>3, StartedTyped
    <3>2. call'[c] = r
      BY <1>0, <2>2, <3>1, Becoming
    <3>. QED  BY <3>1, <3>2
  <2>5. SeenInv(c)'
    BY <1>1, <2>4, Reads
  <2>6. RevokeInv(c)'
    BY <1>3, <2>4 DEF Revoke, RevokeInv, Changed, Replaced
  <2>. QED  BY <1>1, <2>4, <2>5, <2>6 DEF CallInv, ChangeInv, DeleteInv
<1>4. CASE Delete(c) /\ conn.status = "deleting"
  <2>1. call' = [call EXCEPT ![c] = Started("delete", "cancel", conn, {})]
    BY <1>4 DEF Delete, Start
  <2>2. "cancel" \in Stage /\ "delete" \in Kind
    BY Stages
  <2>3. /\ call'[c].pc = "cancel" /\ call'[c].kind = "delete"
        /\ call'[c].seen = conn /\ call'[c].row = conn
    <3>. DEFINE r == Started("delete", "cancel", conn, {})
    <3>1. /\ r \in Call /\ r.pc = "cancel" /\ r.kind = "delete"
          /\ r.seen = conn /\ r.row = conn
      BY <1>0, <2>2, StartedTyped
    <3>2. call'[c] = r
      BY <1>0, <2>1, <3>1, Becoming
    <3>. QED  BY <3>1, <3>2
  <2>4. SeenInv(c)'
    BY <1>1, <2>3, Reads
  <2>5. DeleteInv(c)'
    BY <1>0, <1>1, <1>4, <2>3 DEF DeleteInv, Fresh, Quiet
  <2>. QED  BY <1>1, <2>3, <2>4, <2>5 DEF CallInv, ChangeInv, RevokeInv
<1>5. CASE Delete(c) /\ conn.status # "deleting"
  <2>1. Changed("deleting", conn.cred) \in Connection
    BY <1>0, <1>2, ReplacedTyped, Stages DEF Changed
  <2>2. call' = [call EXCEPT ![c] = Started("delete", "mark", Changed("deleting", conn.cred), {})]
    BY <1>5 DEF Delete, Start
  <2>3. "mark" \in Stage /\ "delete" \in Kind
    BY Stages
  <2>4. /\ call'[c].pc = "mark" /\ call'[c].kind = "delete"
        /\ call'[c].seen = conn /\ call'[c].row = Changed("deleting", conn.cred)
    <3>. DEFINE r == Started("delete", "mark", Changed("deleting", conn.cred), {})
    <3>1. /\ r \in Call /\ r.pc = "mark" /\ r.kind = "delete"
          /\ r.seen = conn /\ r.row = Changed("deleting", conn.cred)
      BY <1>0, <2>1, <2>3, StartedTyped
    <3>2. call'[c] = r
      BY <1>0, <2>2, <3>1, Becoming
    <3>. QED  BY <3>1, <3>2
  <2>5. SeenInv(c)'
    BY <1>1, <2>4, Reads
  <2>6. conn.status = "revoked" => conn.cred \in revoked'
    BY <1>0, <1>1 DEF RowInv, Quiet
  <2>7. DeleteInv(c)'
    BY <2>4, <2>6 DEF DeleteInv, Changed, Replaced
  <2>. QED  BY <1>1, <2>4, <2>5, <2>7 DEF CallInv, ChangeInv, RevokeInv
<1>. QED  BY <1>3, <1>4, <1>5

\* What no step may do to the row.
Closed ==
  /\ conn.status = "deleted" => conn' = conn
  /\ conn.status = "deleting" => conn'.status \in {"deleting", "deleted"}
  /\ conn.status = "revoked" => \/ conn'.status \in {"revoked", "deleting"}
                                \/ conn'.status = "active" /\ conn'.cred \notin ended
Withdrawn == Becomes("revoked") \/ Becomes("deleted") => conn.cred \in revoked

\* Whoever saves a change, a revocation or DELETING has read the row that is replaced.
LEMMA SavesWhatItRead ==
  ASSUME CasInv, AtomicSaves, NEW c \in Calls, MaySave(c),
         \/ call[c].pc = "save" /\ call[c].kind # "delete"
         \/ call[c].pc = "mark"
  PROVE  call[c].seen = conn
<1>1. conn.rev < call[c].row.rev
  BY DEF MaySave, RevisionFree
<1>2. TypeOK /\ Shape(c) /\ CallInv(c)
  BY DEF CasInv, TypeInv
<1>3. call[c].row.rev = call[c].seen.rev + 1
  BY <1>2 DEF Shape, CallInv, ChangeInv, RevokeInv, DeleteInv, Replaced
<1>4. Fresh(call[c].seen)
  BY <1>2 DEF Shape, CallInv, SeenInv
<1>5. call[c].seen.rev \in Nat /\ conn.rev \in Nat
  BY <1>2, Calling, RowFields DEF TypeOK
<1>6. call[c].seen.rev = conn.rev
  BY <1>1, <1>3, <1>4, <1>5 DEF Fresh
<1>. QED  BY <1>4, <1>6 DEF Fresh

LEMMA SaveRules ==
  ASSUME CasInv, AtomicSaves, NEW c \in Calls, MaySave(c), call[c].pc \in {"mark", "save"},
         conn' = call[c].row, UNCHANGED <<issued, revoked>>,
         ended' = ended \cup (IF call[c].row.status = "revoked" THEN {call[c].row.cred} ELSE {})
  PROVE  conn'.rev > conn.rev /\ RowInv' /\ Closed /\ Withdrawn
<1>0. TypeOK /\ Shape(c) /\ RowInv /\ CallInv(c)
  BY DEF CasInv, TypeInv
<1>1. conn.rev < call[c].row.rev /\ call[c].row.rev \in Nat /\ conn.rev \in Nat
  BY <1>0, Calling, RowFields DEF MaySave, RevisionFree, TypeOK
<1>2. conn'.rev > conn.rev
  BY <1>1
<1>3. CASE call[c].pc = "save" /\ call[c].kind \in {"change", "sync"}
  <2>1. call[c].seen = conn
    BY <1>3, SavesWhatItRead
  <2>2. /\ conn.status \notin {"deleting", "deleted"}
        /\ conn'.status \notin {"deleting", "deleted"} /\ conn'.cred \in issued
        /\ conn'.status = "revoked" => conn.status = "revoked" /\ conn'.cred = conn.cred
        /\ conn.status = "revoked" /\ conn'.status # "revoked" =>
             conn'.status = "active" /\ conn'.cred \notin ended
    BY <1>0, <1>3, <2>1 DEF CallInv, ChangeInv
  <2>3. ended' \subseteq issued
    BY <1>0, <2>2 DEF RowInv
  <2>4. RowInv'
    BY <1>0, <2>2, <2>3 DEF RowInv
  <2>. QED  BY <1>2, <2>2, <2>4 DEF Closed, Withdrawn, Becomes
<1>4. CASE call[c].pc = "save" /\ call[c].kind = "revoke"
  <2>1. call[c].seen = conn
    BY <1>4, SavesWhatItRead
  <2>2. /\ conn.status \in {"active", "degraded"} /\ conn.cred \in revoked
        /\ conn'.status = "revoked" /\ conn'.cred = conn.cred
    BY <1>0, <1>4, <2>1 DEF CallInv, RevokeInv, Replaced
  <2>3. ended' \subseteq issued
    BY <1>0, <2>2 DEF RowInv
  <2>4. RowInv'
    BY <1>0, <2>2, <2>3 DEF RowInv
  <2>. QED  BY <1>2, <2>2, <2>4 DEF Closed, Withdrawn, Becomes
<1>5. CASE call[c].pc = "save" /\ call[c].kind = "delete"
  <2>1. /\ conn'.status = "deleted" /\ conn'.rev <= conn.rev + 1
        /\ conn'.rev = conn.rev + 1 => conn.status = "deleting" /\ conn.cred = call[c].seen.cred
        /\ call[c].seen.cred \in revoked
    BY <1>0, <1>5 DEF CallInv, DeleteInv
  <2>2. conn.status = "deleting" /\ conn.cred \in revoked
    BY <1>1, <2>1
  <2>3. RowInv'
    BY <1>0, <2>1 DEF RowInv
  <2>. QED  BY <1>2, <2>1, <2>2, <2>3 DEF Closed, Withdrawn, Becomes
<1>6. CASE call[c].pc = "mark"
  <2>1. call[c].seen = conn /\ call[c].kind = "delete"
    BY <1>0, <1>6, SavesWhatItRead DEF Shape
  <2>2. conn.status # "deleted" /\ conn'.status = "deleting" /\ conn'.cred = conn.cred
    BY <1>0, <1>6, <2>1 DEF Shape, CallInv, DeleteInv, Replaced
  <2>3. RowInv'
    BY <1>0, <2>2 DEF RowInv
  <2>. QED  BY <1>2, <2>2, <2>3 DEF Closed, Withdrawn, Becomes
<1>. QED  BY <1>0, <1>3, <1>4, <1>5, <1>6 DEF Shape

\* One step of one call.
CasStep(c) ==
  Grows /\ RowInv' /\ CallInv(c)' /\ Closed /\ Withdrawn

LEMMA QuietStep ==
  ASSUME CasInv, NEW c \in Calls, Quiet, TypeOK', CallInv(c)'
  PROVE  CasStep(c)
BY QuietRow DEF CasInv, CasStep, Grows, Quiet, Closed, Withdrawn, Becomes

LEMMA CallKeeps ==
  ASSUME CasInv, AtomicSaves, ~Reactivates, NEW c \in Calls, CallStep(c)
  PROVE  CasStep(c)
<1>0. TypeInv /\ TypeOK /\ TypeOK'
  BY CallTyped DEF CasInv, TypeInv, StepTyped
<1>1. CASE Changes(c)
  BY <1>0, <1>1, ChangesKeep, QuietStep
<1>2. CASE Works(c)
  BY <1>0, <1>2, WorksKeep, QuietStep
<1>3. CASE Revoke(c) \/ Delete(c)
  BY <1>0, <1>3, EndsBegin, QuietStep
<1>4. CASE EndsFurther(c) /\ ~MarkDeleting(c)
  BY <1>0, <1>4, EndsKeep, QuietStep
<1>5. CASE MarkDeleting(c)
  <2>1. /\ call[c].pc = "mark" /\ MaySave(c) /\ conn' = call[c].row
        /\ UNCHANGED <<issued, revoked, ended>>
        /\ call' = [call EXCEPT ![c].pc = "cancel", ![c].checked = FALSE]
    BY <1>5 DEF MarkDeleting, host
  <2>2. call[c].kind = "delete" /\ CallInv(c) /\ call[c].seen = conn
    BY <2>1, SavesWhatItRead DEF CasInv, TypeInv, Shape
  <2>3. call[c].row.status = "deleting" /\ call[c].row.cred = call[c].seen.cred
    BY <2>1, <2>2 DEF CallInv, DeleteInv, Replaced
  <2>4. conn'.rev > conn.rev /\ RowInv' /\ Closed /\ Withdrawn
    BY <2>1, <2>3, SaveRules
  <2>5. call'[c].pc = "cancel" /\ Kept(c) /\ call'[c].row = call[c].row
    BY <1>0, <2>1, GoingsChecked, Stages
  <2>6. Grows
    BY <1>0, <2>1, <2>4 DEF Grows
  <2>7. conn.rev \in Nat /\ conn'.rev \in Nat
    BY <1>0, RowFields DEF TypeOK
  <2>8. SeenInv(c)'
    BY <2>1, <2>2, <2>4, <2>5, <2>7 DEF CallInv, SeenInv, Fresh, Kept
  <2>9. DeleteInv(c)'
    BY <2>1, <2>2, <2>3, <2>5, <2>7 DEF CallInv, DeleteInv, Fresh, Kept
  <2>10. CallInv(c)'
    BY <2>2, <2>5, <2>8, <2>9 DEF CallInv, ChangeInv, RevokeInv, Kept
  <2>. QED  BY <2>4, <2>6, <2>10 DEF CasStep
<1>6. CASE SaveConnection(c)
  <2>1. conn'.rev > conn.rev /\ RowInv' /\ Closed /\ Withdrawn
    BY <1>6, SaveRules DEF SaveConnection, host
  <2>2. CallInv(c)'
    BY <1>0, <1>6, Idles DEF SaveConnection
  <2>3. Grows
    BY <1>0, <1>6, <2>1 DEF Grows, SaveConnection, host
  <2>. QED  BY <2>1, <2>2, <2>3 DEF CasStep
<1>7. CASE CallFails(c)
  <2>1. Quiet
    BY <1>7 DEF CallFails, Quiet, rows, host
  <2>2. CallInv(c)'
    BY <1>0, <1>7, Idles DEF CallFails
  <2>. QED  BY <1>0, <2>1, <2>2, QuietStep
<1>. QED
  BY <1>1, <1>2, <1>3, <1>4, <1>5, <1>6, <1>7 DEF CallStep, CheckRevision

LEMMA CasNext ==
  ASSUME CasInv, AtomicSaves, ~Reactivates, [Next]_vars
  PROVE  CasInv' /\ Closed /\ Withdrawn
<1>0. TypeInv /\ TypeInv'
  BY TypeNext DEF CasInv
<1>1. ASSUME NEW c \in Calls, CallStep(c)
      PROVE  CasInv' /\ Closed /\ Withdrawn
  <2>1. CasStep(c)
    BY <1>1, CallKeeps
  <2>2. \A d \in Calls \ {c} : call'[d] = call[d]
    BY <1>0, <1>1, CallTyped DEF StepTyped
  <2>3. \A d \in Calls \ {c} : CallInv(d)'
    BY <2>1, <2>2, Others DEF CasStep
  <2>. QED  BY <1>0, <2>1, <2>3 DEF CasInv, CasStep
<1>2. CASE WatchLapses \/ UNCHANGED vars
  <2>1. Quiet /\ call' = call
    BY <1>2 DEF WatchLapses, Quiet, vars, rows, host
  <2>2. Grows
    BY <1>0, <2>1 DEF Grows, Quiet, TypeInv
  <2>3. \A d \in Calls : CallInv(d)'
    BY <2>1, <2>2, Others
  <2>4. RowInv'
    BY <2>1, QuietRow DEF CasInv
  <2>5. Closed /\ Withdrawn
    BY <2>1 DEF Quiet, Closed, Withdrawn, Becomes
  <2>. QED  BY <1>0, <2>3, <2>4, <2>5 DEF CasInv
<1>. QED  BY <1>1, <1>2 DEF Next

LEMMA Cas ==
  ASSUME AtomicSaves, ~Reactivates
  PROVE  Spec => []CasInv
<1>1. CasInv /\ [Next]_vars => CasInv'
  BY CasNext
<1>. QED  BY <1>1, CasInit, PTL DEF Spec

(* However many calls interleave on stale copies of the row, an atomic         *)
(* save_connection never lets one of them reopen a deleted or dying            *)
(* connection, nor a revoked one under a credential it was revoked with.       *)
THEOREM NotReopenedTheorem ==
  ASSUME AtomicSaves, ~Reactivates
  PROVE  Spec => NotReopened
<1>1. CasInv /\ [Next]_vars => [Closed]_vars
  BY CasNext
<1>2. [][Closed]_vars => NotReopened
  BY PTL DEF NotReopened, Closed
<1>. QED  BY <1>1, <1>2, Cas, PTL DEF Spec

(* The credential of a row that becomes REVOKED or DELETED has been revoked    *)
(* by then, though the host was asked with a copy read many awaits before      *)
(* (_revoke_connection_credential, save_connection).                           *)
THEOREM RevokedBeforeEndTheorem ==
  ASSUME AtomicSaves, ~Reactivates
  PROVE  Spec => RevokedBeforeEnd
<1>1. CasInv /\ [Next]_vars => [Withdrawn]_vars
  BY CasNext
<1>2. [][Withdrawn]_vars => RevokedBeforeEnd
  BY PTL DEF RevokedBeforeEnd, Withdrawn
<1>. QED  BY <1>1, <1>2, Cas, PTL DEF Spec


-----------------------------------------------------------------------------
(* Deletion and revocation of a mailbox that nobody works on.              *)

Silent == sub.ref = NoWatch \/ watch # sub.ref

\* How far a revocation or a deletion has come, and what it has left behind.
CancelInv(c) ==
  /\ call[c].pc \in {"unwatch", "record_cancel"} => call[c].ref # NoWatch
  /\ call[c].pc = "record_cancel" => watch # call[c].ref
  /\ call[c].kind = "revoke" /\ call[c].pc \in {"credential", "save"} => Silent
  /\ call[c].kind = "delete" /\ call[c].pc \in {"refs", "objects", "credential", "knowledge", "purge"}
       => Silent
CleanInv(c) ==
  call[c].kind = "delete" =>
    /\ call[c].pc \in {"objects", "credential", "knowledge", "purge"} => messages \subseteq call[c].refs
    /\ call[c].pc \in {"credential", "knowledge", "purge"} => call[c].refs \cap objects = {}
    /\ call[c].pc = "purge" => MessagesOf(call[c].refs) \cap knowledge = {}
EndInv(c) == CancelInv(c) /\ CleanInv(c)

\* Work and endings exclude each other, and a cancelled watch is gone.
Apart == \A c, d \in Calls : ~(Working(c) /\ Ending(d))
CancelledInv == sub.cancelled => Silent
PurgeInv == Apart /\ CancelledInv /\ \A c \in Calls : EndInv(c)

\* While the row says REVOKED no subscription is being renewed.
SilentInv ==
  conn.status = "revoked" => Silent /\ \A c \in Calls : call[c].kind # "ensure"

\* What a step of an ending or an outside event may do to the data.
Shrinks ==
  /\ messages' \subseteq messages /\ objects' \subseteq objects /\ knowledge' \subseteq knowledge
  /\ watch' \in {watch, NoWatch}
  /\ Silent => Silent'

\* A call that stands where it stood.
Stands(d) ==
  /\ call'[d].pc = call[d].pc /\ call'[d].kind = call[d].kind
  /\ call'[d].ref = call[d].ref /\ call'[d].refs = call[d].refs

LEMMA StandsStill ==
  ASSUME NEW d \in Calls, EndInv(d), Shrinks, Stands(d)
  PROVE  EndInv(d)'
<1>1. CancelInv(d)'
  BY DEF EndInv, CancelInv, Shrinks, Stands
<1>2. CleanInv(d)'
  <2>1. MessagesOf(call'[d].refs) = MessagesOf(call[d].refs)
    BY DEF Stands
  <2>. QED  BY <2>1 DEF EndInv, CleanInv, Shrinks, Stands, MessagesOf
<1>. QED  BY <1>1, <1>2 DEF EndInv

\* Nothing is asked of a call that does not end the mailbox.
LEMMA NoEnding ==
  ASSUME NEW d \in Calls, Shape(d), ~Ending(d)
  PROVE  EndInv(d)
BY DEF Shape, Ending, EndInv, CancelInv, CleanInv

LEMMA Quieter ==
  ASSUME sub' = sub, watch' \in {watch, NoWatch}
  PROVE  Silent => Silent'
BY DEF Silent

\* How a step may change what a call is there for.
KindStep(c) ==
  \/ call'[c].kind \in {call[c].kind, "none", "change"}
  \/ \A d \in Calls : ~Ending(d) /\ ~Ending(c)'
  \/ \A d \in Calls : ~Working(d) /\ ~Working(c)'

LEMMA StayApart ==
  ASSUME Apart, NEW c \in Calls, KindStep(c), \A d \in Calls \ {c} : call'[d] = call[d]
  PROVE  Apart'
<1>. SUFFICES ASSUME NEW a \in Calls, NEW b \in Calls, Working(a)', Ending(b)'
             PROVE  FALSE
  BY DEF Apart
<1>0. ~(Working(a) /\ Ending(b)) /\ ~(Working(c) /\ Ending(b)) /\ ~(Working(a) /\ Ending(c))
  BY DEF Apart
<1>1. a # c => Working(a)
  BY DEF Working
<1>2. b # c => Ending(b)
  BY DEF Ending
<1>3. CASE call'[c].kind \in {call[c].kind, "none", "change"}
  <2>1. a = c => Working(c)
    BY <1>3 DEF Working
  <2>2. b = c => Ending(c)
    BY <1>3 DEF Ending
  <2>. QED  BY <1>0, <1>1, <1>2, <2>1, <2>2
<1>4. CASE \A d \in Calls : ~Ending(d) /\ ~Ending(c)'
  BY <1>2, <1>4
<1>5. CASE \A d \in Calls : ~Working(d) /\ ~Working(c)'
  BY <1>1, <1>5
<1>. QED  BY <1>3, <1>4, <1>5 DEF KindStep

\* What a step of one call must show.
SubStep == sub'.cancelled => Silent' \/ (sub.cancelled /\ (Silent => Silent'))
EndStep(c) ==
  /\ KindStep(c) /\ SubStep /\ EndInv(c)'
  /\ Shrinks \/ \A d \in Calls : ~Ending(d)
  /\ Silent => Silent' \/ call[c].kind = "ensure"
  /\ call'[c].kind = "ensure" => call[c].kind = "ensure" \/ conn.status = "active"

LEMMA EndStepKeeps ==
  ASSUME TypeInv, TypeInv', PurgeInv, NEW c \in Calls, EndStep(c),
         \A d \in Calls \ {c} : call'[d] = call[d]
  PROVE  PurgeInv'
<1>1. Apart'
  BY StayApart DEF PurgeInv, EndStep
<1>2. CancelledInv'
  BY DEF PurgeInv, EndStep, SubStep, CancelledInv
<1>3. ASSUME NEW d \in Calls
      PROVE  EndInv(d)'
  <2>1. CASE d = c
    BY <2>1 DEF EndStep
  <2>2. CASE d # c /\ Shrinks
    BY <2>2, StandsStill DEF PurgeInv, Stands
  <2>3. CASE d # c /\ ~Ending(d)
    <3>1. Shape(d)' /\ ~Ending(d)'
      BY <2>3 DEF Ending, TypeInv
    <3>. QED  BY <3>1 DEF Shape, Ending, EndInv, CancelInv, CleanInv
  <2>. QED  BY <2>1, <2>2, <2>3 DEF EndStep
<1>. QED  BY <1>1, <1>2, <1>3 DEF PurgeInv

LEMMA PurgeInit == Init => PurgeInv
<1>. SUFFICES ASSUME Init PROVE PurgeInv
  OBVIOUS
<1>1. \A c \in Calls : call[c].kind = "none" /\ call[c].pc = "idle"
  BY NoCallTyped DEF Init
<1>2. \A c \in Calls : EndInv(c)
  BY <1>1 DEF EndInv, CancelInv, CleanInv
<1>3. Apart /\ CancelledInv
  BY <1>1 DEF Apart, Working, CancelledInv, Silent, Init, NoSubscription
<1>. QED  BY <1>2, <1>3 DEF PurgeInv

\* A step that leaves the mailbox alone.
Untouched == UNCHANGED <<sub, messages, objects, knowledge, watch>>

LEMMA UntouchedStep ==
  ASSUME Untouched, NEW c \in Calls, KindStep(c), EndInv(c)', call'[c].kind # "ensure"
  PROVE  EndStep(c)
<1>1. Shrinks
  BY DEF Untouched, Shrinks, Silent
<1>. QED  BY <1>1 DEF EndStep, SubStep, Shrinks, Untouched

\* A call of another kind has no ending to account for.
LEMMA NotEndingAfter ==
  ASSUME NEW c \in Calls, Shape(c)', call'[c].kind \notin {"revoke", "delete"}
  PROVE  EndInv(c)'
BY DEF Shape, EndInv, CancelInv, CleanInv

LEMMA ChangesEnd ==
  ASSUME TypeInv, NEW c \in Calls, Changes(c)
  PROVE  EndStep(c)
<1>. USE DEF data, host, rows
<1>0. TypeOK /\ Shape(c) /\ Shape(c)' /\ TypeOK'
  BY ChangesTyped DEF TypeInv, StepTyped
<1>1. Untouched
  BY DEF Changes, Activate, Reauthorize, Refresh, HostRefreshes, UpdateScopes, ProviderLifecycle,
         SyncFails, Untouched
<1>2. CASE \/ Activate(c) \/ Reauthorize(c) \/ Refresh(c) \/ UpdateScopes(c)
           \/ \E s \in {"degraded", "reauthorization_required"} : ProviderLifecycle(c, s)
  <2>1. PICK stage, row : call' = [call EXCEPT ![c] = Started("change", stage, row, {})]
    BY <1>2, Stages DEF Activate, Reauthorize, Refresh, UpdateScopes, ProviderLifecycle, Start
  <2>2. call'[c] = Started("change", stage, row, {})
    BY <1>0, <2>1 DEF TypeOK
  <2>3. call'[c].kind = "change"
    BY <2>2 DEF Started
  <2>. QED  BY <1>0, <1>1, <2>3, NotEndingAfter, UntouchedStep DEF KindStep
<1>3. CASE HostRefreshes(c) \/ \E s \in {"degraded", "reauthorization_required"} : SyncFails(c, s)
  <2>1. call[c].kind \in {"change", "sync"}
    BY <1>0, <1>3 DEF Shape, HostRefreshes, SyncFails
  <2>2. PICK row : call' = [call EXCEPT ![c].pc = "save", ![c].row = row]
    BY <1>3 DEF HostRefreshes, SyncFails
  <2>3. call'[c] = [call[c] EXCEPT !.pc = "save", !.row = row]
    BY <1>0, <2>2 DEF TypeOK
  <2>4. call'[c].kind = call[c].kind
    BY <1>0, <2>3, Calling DEF Call
  <2>. QED  BY <1>0, <1>1, <2>1, <2>4, NotEndingAfter, UntouchedStep DEF KindStep
<1>. QED  BY <1>2, <1>3 DEF Changes

\* Work begins when nothing ends the mailbox, and goes on so.
LEMMA WorksAlone ==
  ASSUME TypeInv, Apart, ~Overlapping, NEW c \in Calls, Works(c)
  PROVE  \A d \in Calls : ~Ending(d)
<1>0. Shape(c)
  BY DEF TypeInv
<1>1. CASE Sync(c) \/ ApplyCandidate(c) \/ EnsureSubscription(c)
  BY <1>1 DEF Sync, ApplyCandidate, EnsureSubscription, MayWork
<1>2. CASE ~(Sync(c) \/ ApplyCandidate(c) \/ EnsureSubscription(c))
  <2>1. call[c].pc \in {"resolve", "page", "fetch", "store", "remove_body", "submit",
                         "read_watch", "watch", "record_watch"}
    BY <1>2 DEF Works, ResolveCredential, FetchPage, SaveMessage, SaveMessageFails, RemoveMessage,
                RemoveBody, SubmitKnowledge, ReadSyncState, RecordWatch, PutBody, HostWatches
  <2>2. Working(c)
    BY <1>0, <2>1 DEF Shape, Working
  <2>. QED  BY <2>2 DEF Apart
<1>. QED  BY <1>1, <1>2

LEMMA WorksEnd ==
  ASSUME TypeInv, Apart, ~Overlapping, NEW c \in Calls, Works(c)
  PROVE  EndStep(c)
<1>. USE DEF data, host, rows
<1>0. TypeOK /\ Shape(c) /\ Shape(c)' /\ TypeOK' /\ call'[c].kind \in {"none", "sync", "share", "ensure"}
  BY WorksTyped DEF TypeInv, StepTyped, Worked
<1>1. EndInv(c)' /\ \A d \in Calls : ~Ending(d) /\ ~Ending(c)'
  BY <1>0, WorksAlone, NotEndingAfter DEF Ending
<1>2. KindStep(c)
  BY <1>1 DEF KindStep
<1>3. SubStep /\ (Silent => Silent' \/ call[c].kind = "ensure")
  <2>1. CASE RecordWatch(c)
    BY <1>0, <2>1 DEF RecordWatch, SaveSyncState, SubStep, Shape
  <2>2. CASE \E r \in Watches : HostWatches(c, r)
    BY <2>2 DEF HostWatches, SubStep, Silent
  <2>3. CASE ~RecordWatch(c) /\ ~(\E r \in Watches : HostWatches(c, r))
    <3>1. sub' = sub /\ watch' = watch
      BY <2>3 DEF Works, Sync, ResolveCredential, FetchPage, SaveMessage, SaveMessageFails,
                  RemoveMessage, RemoveBody, ApplyCandidate, SubmitKnowledge, EnsureSubscription,
                  ReadSyncState, PutBody
    <3>. QED  BY <3>1 DEF SubStep, Silent
  <2>. QED  BY <2>1, <2>2, <2>3
<1>4. call'[c].kind = "ensure" => call[c].kind = "ensure" \/ conn.status = "active"
  <2>1. CASE Sync(c)
    <3>1. call'[c] = Started("sync", "resolve", conn, {})
      BY <1>0, <2>1 DEF Sync, Start, TypeOK
    <3>. QED  BY <3>1 DEF Started
  <2>2. CASE ApplyCandidate(c)
    <3>1. PICK b \in messages \cap objects :
            call' = [call EXCEPT ![c] = Started("share", "submit", conn, {b})]
      BY <2>2 DEF ApplyCandidate
    <3>2. call'[c] = Started("share", "submit", conn, {b})
      BY <1>0, <3>1 DEF TypeOK
    <3>. QED  BY <3>2 DEF Started
  <2>3. CASE EnsureSubscription(c)
    BY <2>3 DEF EnsureSubscription
  <2>4. CASE \/ ReadSyncState(c) \/ RecordWatch(c) \/ \E r \in Watches : HostWatches(c, r)
    BY <1>0, <2>4 DEF Shape, ReadSyncState, RecordWatch, HostWatches
  <2>5. CASE SubmitKnowledge(c) \/ SaveMessageFails(c)
    <3>1. call'[c].kind = "none"
      BY <1>0, <2>5, Ends DEF SubmitKnowledge, SaveMessageFails
    <3>. QED  BY <3>1
  <2>6. CASE ResolveCredential(c) \/ FetchPage(c) \/ RemoveBody(c) \/ SaveMessage(c)
    <3>1. PICK s \in Stage : call' = [call EXCEPT ![c].pc = s]
      BY <2>6, Stages DEF ResolveCredential, FetchPage, RemoveBody, SaveMessage, Goes
    <3>. QED  BY <1>0, <3>1, Goings DEF Kept
  <2>7. CASE RemoveMessage(c) \/ \E m \in Messages : PutBody(c, m)
    <3>1. PICK s, b : call' = [call EXCEPT ![c].pc = s, ![c].refs = b]
      BY <2>7, Stages DEF RemoveMessage, PutBody
    <3>2. call'[c] = [call[c] EXCEPT !.pc = s, !.refs = b]
      BY <1>0, <3>1 DEF TypeOK
    <3>. QED  BY <1>0, <3>2, Calling DEF Call
  <2>. QED  BY <2>1, <2>2, <2>3, <2>4, <2>5, <2>6, <2>7 DEF Works
<1>. QED  BY <1>1, <1>2, <1>3, <1>4 DEF EndStep

LEMMA EndsStart ==
  ASSUME TypeInv, ~Overlapping, NEW c \in Calls, Revoke(c) \/ Delete(c)
  PROVE  EndStep(c)
<1>. USE DEF data, host, rows
<1>0. TypeOK
  BY DEF TypeInv
<1>1. Untouched /\ \A d \in Calls : ~Working(d)
  BY DEF Revoke, Delete, MayEnd, Untouched
<1>2. PICK kind, stage, row :
        /\ call' = [call EXCEPT ![c] = Started(kind, stage, row, {})]
        /\ <<kind, stage>> \in {<<"revoke", "refs">>, <<"delete", "cancel">>, <<"delete", "mark">>}
  BY DEF Revoke, Delete, Start
<1>3. call'[c] = Started(kind, stage, row, {})
  BY <1>0, <1>2 DEF TypeOK
<1>4. call'[c].kind = kind /\ call'[c].pc = stage
  BY <1>3 DEF Started
<1>5. \/ call'[c].kind = "revoke" /\ call'[c].pc = "refs"
      \/ call'[c].kind = "delete" /\ call'[c].pc \in {"cancel", "mark"}
  BY <1>2, <1>4
<1>6. EndInv(c)'
  BY <1>5 DEF EndInv, CancelInv, CleanInv
<1>7. ~Working(c)' /\ call'[c].kind # "ensure"
  BY <1>5 DEF Working
<1>. QED  BY <1>1, <1>6, <1>7, UntouchedStep DEF KindStep

\* A call that only moves to another stage, with what it has seen there.
LEMMA StageFields ==
  ASSUME TypeOK, NEW c \in Calls, NEW s,
         \/ call' = [call EXCEPT ![c].pc = s]
         \/ call' = [call EXCEPT ![c].pc = s, ![c].checked = FALSE]
  PROVE  /\ call'[c].pc = s /\ call'[c].kind = call[c].kind
         /\ call'[c].ref = call[c].ref /\ call'[c].refs = call[c].refs
<1>1. call[c] \in Call
  BY Calling
<1>2. \/ call'[c] = [call[c] EXCEPT !.pc = s]
      \/ call'[c] = [call[c] EXCEPT !.pc = s, !.checked = FALSE]
  BY DEF TypeOK
<1>. QED  BY <1>1, <1>2 DEF Call

LEMMA EndsEnd ==
  ASSUME TypeInv, PurgeInv, NEW c \in Calls, EndsFurther(c)
  PROVE  EndStep(c)
<1>. USE DEF data, host, rows
<1>0. /\ TypeOK /\ Shape(c) /\ call[c] \in Call
      /\ CancelInv(c) /\ CleanInv(c) /\ (sub.cancelled => Silent)
  BY Calling DEF TypeInv, PurgeInv, EndInv, CancelledInv
<1>. SUFFICES EndInv(c)' /\ call'[c].kind = call[c].kind /\ Shrinks /\ SubStep
  BY DEF EndStep, KindStep, Shrinks
<1>1. CASE MarkDeleting(c)
  <2>1. call[c].kind = "delete" /\ Shrinks /\ SubStep
    BY <1>0, <1>1 DEF Shape, MarkDeleting, Shrinks, SubStep, Silent
  <2>2. call'[c].pc = "cancel" /\ call'[c].kind = call[c].kind
    BY <1>0, <1>1, StageFields DEF MarkDeleting
  <2>. QED  BY <2>1, <2>2 DEF EndInv, CancelInv, CleanInv
<1>2. CASE CancelSubscriptions(c) /\ (sub.ref = NoWatch \/ sub.cancelled)
  <2>1. call[c].kind \in {"revoke", "delete"} /\ Shrinks /\ SubStep
    BY <1>0, <1>2 DEF Shape, CancelSubscriptions, Shrinks, SubStep, Silent
  <2>2. call'[c].pc = After(c, "cancel") /\ call'[c].kind = call[c].kind
    BY <1>0, <1>2, StageFields DEF CancelSubscriptions, Goes
  <2>3. Silent'
    BY <1>0, <1>2, <2>1 DEF Silent, Shrinks
  <2>. QED  BY <2>1, <2>2, <2>3, Afters DEF EndInv, CancelInv, CleanInv
<1>3. CASE CancelSubscriptions(c) /\ ~(sub.ref = NoWatch \/ sub.cancelled)
  <2>1. call[c].kind \in {"revoke", "delete"} /\ Shrinks /\ SubStep
    BY <1>0, <1>3 DEF Shape, CancelSubscriptions, Shrinks, SubStep, Silent
  <2>2. call'[c] = [call[c] EXCEPT !.pc = "unwatch", !.ref = sub.ref, !.expected = sub.ref]
    BY <1>0, <1>3 DEF CancelSubscriptions, TypeOK
  <2>3. call'[c].pc = "unwatch" /\ call'[c].kind = call[c].kind /\ call'[c].ref # NoWatch
    BY <1>0, <1>3, <2>2 DEF Call
  <2>. QED  BY <2>1, <2>3 DEF EndInv, CancelInv, CleanInv
<1>4. CASE HostCancelsWatch(c)
  <2>1. /\ call[c].kind \in {"revoke", "delete"} /\ Shrinks /\ SubStep
        /\ call[c].ref # NoWatch /\ watch' # call[c].ref
    BY <1>0, <1>4 DEF Shape, CancelInv, HostCancelsWatch, Shrinks, SubStep, Silent
  <2>2. /\ call'[c].pc = "record_cancel" /\ call'[c].kind = call[c].kind
        /\ call'[c].ref = call[c].ref
    BY <1>0, <1>4, StageFields DEF HostCancelsWatch, Goes
  <2>. QED  BY <2>1, <2>2 DEF EndInv, CancelInv, CleanInv
<1>5. CASE RecordCancel(c)
  <2>1. call[c].kind \in {"revoke", "delete"} /\ watch # call[c].ref
    BY <1>0, <1>5 DEF Shape, CancelInv, RecordCancel
  <2>2. call'[c].pc = After(c, "cancel") /\ call'[c].kind = call[c].kind
    BY <1>0, <1>5, StageFields DEF RecordCancel, Goes
  <2>3. Silent'
    BY <1>5, <2>1 DEF RecordCancel, SaveSyncState, Silent
  <2>4. Shrinks /\ SubStep
    BY <1>5, <2>3 DEF RecordCancel, Shrinks, SubStep
  <2>. QED  BY <2>1, <2>2, <2>3, <2>4, Afters DEF EndInv, CancelInv, CleanInv
<1>6. CASE ListCleanupRefs(c)
  <2>1. call[c].kind \in {"revoke", "delete"} /\ Shrinks /\ SubStep
    BY <1>0, <1>6 DEF Shape, ListCleanupRefs, Shrinks, SubStep, Silent
  <2>2. call'[c] = [call[c] EXCEPT !.pc = After(c, "refs"), !.refs = messages]
    BY <1>0, <1>6 DEF ListCleanupRefs, TypeOK
  <2>3. /\ call'[c].pc = After(c, "refs") /\ call'[c].kind = call[c].kind
        /\ call'[c].refs = messages
    BY <1>0, <2>2 DEF Call
  <2>4. call[c].kind = "delete" => Silent'
    BY <1>0, <1>6, <2>1 DEF CancelInv, ListCleanupRefs, Shrinks
  <2>5. messages' = messages
    BY <1>6 DEF ListCleanupRefs
  <2>. QED  BY <2>1, <2>3, <2>4, <2>5, Afters DEF EndInv, CancelInv, CleanInv
<1>7. CASE DeleteObject(c)
  <2>1. call' = call /\ Shrinks /\ SubStep
    BY <1>0, <1>7 DEF DeleteObject, Shrinks, SubStep, Silent
  <2>2. EndInv(c)'
    BY <2>1, StandsStill DEF PurgeInv, Stands
  <2>. QED  BY <2>1, <2>2
<1>8. CASE ObjectsDeleted(c)
  <2>1. /\ call[c].kind = "delete" /\ Shrinks /\ SubStep /\ UNCHANGED <<messages, objects>>
        /\ messages \subseteq call[c].refs /\ call[c].refs \cap objects = {} /\ Silent
    BY <1>0, <1>8 DEF Shape, ObjectsDeleted, Shrinks, SubStep, Silent, CancelInv, CleanInv
  <2>2. /\ call'[c].pc = "credential" /\ call'[c].kind = call[c].kind
        /\ call'[c].refs = call[c].refs
    <3>1. call' = [call EXCEPT ![c].pc = "credential"]
      BY <1>8, <2>1, Afters DEF ObjectsDeleted, Goes
    <3>. QED  BY <1>0, <3>1, StageFields
  <2>. QED  BY <2>1, <2>2 DEF EndInv, CancelInv, CleanInv, Shrinks
<1>9. CASE RevokeCredential(c)
  <2>1. /\ call[c].kind \in {"revoke", "delete"} /\ Shrinks /\ SubStep /\ Silent
        /\ UNCHANGED <<messages, objects>>
        /\ call[c].kind = "delete" => messages \subseteq call[c].refs /\ call[c].refs \cap objects = {}
    BY <1>0, <1>9 DEF Shape, RevokeCredential, Shrinks, SubStep, Silent, CancelInv, CleanInv
  <2>2. /\ call'[c].pc = After(c, "credential") /\ call'[c].kind = call[c].kind
        /\ call'[c].refs = call[c].refs
    BY <1>0, <1>9, StageFields DEF RevokeCredential, Goes
  <2>. QED  BY <2>1, <2>2, Afters DEF EndInv, CancelInv, CleanInv, Shrinks
<1>10. CASE RevokeKnowledge(c)
  <2>1. /\ call[c].kind \in {"revoke", "delete"} /\ Shrinks /\ SubStep
        /\ UNCHANGED <<messages, objects>>
        /\ knowledge' = knowledge \ MessagesOf(call[c].refs)
        /\ call[c].kind = "delete" =>
             messages \subseteq call[c].refs /\ call[c].refs \cap objects = {} /\ Silent
    BY <1>0, <1>10 DEF Shape, RevokeKnowledge, Shrinks, SubStep, Silent, CancelInv, CleanInv
  <2>2. /\ call'[c].pc = After(c, "knowledge") /\ call'[c].kind = call[c].kind
        /\ call'[c].refs = call[c].refs
    BY <1>0, <1>10, StageFields DEF RevokeKnowledge, Goes
  <2>3. MessagesOf(call'[c].refs) = MessagesOf(call[c].refs)
    BY <2>2
  <2>4. MessagesOf(call'[c].refs) \cap knowledge' = {}
    BY <2>1, <2>3
  <2>. QED  BY <2>1, <2>2, <2>4, Afters DEF EndInv, CancelInv, CleanInv, Shrinks, MessagesOf
<1>11. CASE PurgeData(c)
  <2>1. call[c].kind = "delete" /\ Silent' /\ UNCHANGED <<objects, knowledge, watch>> /\ messages' = {}
    BY <1>0, <1>11 DEF Shape, PurgeData, Silent, NoSubscription
  <2>2. Shrinks /\ SubStep
    BY <2>1 DEF Shrinks, SubStep
  <2>3. PICK row : call' = [call EXCEPT ![c].pc = "save", ![c].row = row]
    BY <1>11 DEF PurgeData
  <2>4. call'[c] = [call[c] EXCEPT !.pc = "save", !.row = row]
    BY <1>0, <2>3 DEF TypeOK
  <2>5. call'[c].pc = "save" /\ call'[c].kind = call[c].kind
    BY <1>0, <2>4 DEF Call
  <2>. QED  BY <2>1, <2>2, <2>5 DEF EndInv, CancelInv, CleanInv
<1>. QED
  BY <1>1, <1>2, <1>3, <1>4, <1>5, <1>6, <1>7, <1>8, <1>9, <1>10, <1>11 DEF EndsFurther

LEMMA RestEnds ==
  ASSUME TypeInv, PurgeInv, NEW c \in Calls,
         SaveConnection(c) \/ CallFails(c) \/ CheckRevision(c)
  PROVE  EndStep(c)
<1>. USE DEF data, host, rows
<1>0. TypeOK /\ call[c] \in Call
  BY Calling DEF TypeInv
<1>1. Untouched
  BY DEF SaveConnection, CallFails, CheckRevision, Untouched
<1>2. CASE SaveConnection(c) \/ CallFails(c)
  <2>1. call'[c].kind = "none" /\ call'[c].pc = "idle"
    BY <1>0, <1>2, Ends DEF SaveConnection, CallFails
  <2>2. EndInv(c)'
    BY <2>1 DEF EndInv, CancelInv, CleanInv
  <2>. QED  BY <1>1, <2>1, <2>2, UntouchedStep DEF KindStep
<1>3. CASE CheckRevision(c)
  <2>1. call'[c] = [call[c] EXCEPT !.checked = TRUE]
    BY <1>0, <1>3 DEF CheckRevision, TypeOK
  <2>2. Stands(c) /\ Shrinks
    BY <1>0, <1>1, <2>1 DEF Call, Stands, Shrinks, Untouched, Silent
  <2>3. EndInv(c)'
    BY <2>2, StandsStill DEF PurgeInv
  <2>. QED  BY <1>1, <2>2, <2>3 DEF EndStep, KindStep, SubStep, Stands, Shrinks, Untouched
<1>. QED  BY <1>2, <1>3

LEMMA CallEnds ==
  ASSUME TypeInv, PurgeInv, ~Overlapping, NEW c \in Calls, CallStep(c)
  PROVE  EndStep(c)
BY ChangesEnd, WorksEnd, EndsStart, EndsEnd, RestEnds DEF CallStep, PurgeInv

LEMMA LapseKeeps ==
  ASSUME PurgeInv, WatchLapses \/ UNCHANGED vars
  PROVE  PurgeInv' /\ call' = call /\ conn' = conn /\ (Silent => Silent')
<1>. USE DEF data, host, rows
<1>1. /\ UNCHANGED <<conn, sub, messages, objects, knowledge, call>>
      /\ watch' \in {watch, NoWatch}
  BY DEF WatchLapses, vars
<1>2. Silent => Silent'
  BY <1>1, Quieter
<1>3. Shrinks
  BY <1>1, <1>2 DEF Shrinks
<1>4. \A d \in Calls : EndInv(d)'
  BY <1>1, <1>3, StandsStill DEF PurgeInv, Stands
<1>5. Apart' /\ CancelledInv'
  BY <1>1, <1>2 DEF PurgeInv, Apart, Working, Ending, CancelledInv
<1>. QED  BY <1>1, <1>2, <1>4, <1>5 DEF PurgeInv

LEMMA PurgeNext ==
  ASSUME TypeInv, PurgeInv, ~Overlapping, [Next]_vars
  PROVE  PurgeInv'
<1>1. TypeInv'
  BY TypeNext
<1>2. ASSUME NEW c \in Calls, CallStep(c)
      PROVE  PurgeInv'
  BY <1>1, <1>2, CallEnds, EndStepKeeps, CallTyped DEF StepTyped
<1>. QED  BY <1>2, LapseKeeps DEF Next

LEMMA Purged ==
  ASSUME ~Overlapping
  PROVE  Spec => []PurgeInv
<1>1. TypeInv /\ PurgeInv /\ [Next]_vars => PurgeInv'
  BY PurgeNext
<1>. QED  BY <1>1, PurgeInit, Typed, PTL DEF Spec

\* What a deletion has seen to before it purges.
Purging ==
  (\E c \in Calls : PurgeData(c)) =>
    /\ messages \cap objects = {}
    /\ MessagesOf(messages) \cap knowledge = {}
    /\ sub.ref = NoWatch \/ watch # sub.ref

(* However many deletions and revocations of one mailbox run at once, fail    *)
(* and are repeated, a purge takes a message only when its body and what      *)
(* knowledge holds of it are gone, and a subscription only when its watch is  *)
(* (delete_connection), provided that no work on the mailbox overlaps them.   *)
(* It holds over both repositories.                                           *)
THEOREM PurgeIsLastTheorem ==
  ASSUME ~Overlapping
  PROVE  Spec => PurgeIsLast
<1>1. ASSUME TypeInv, PurgeInv, [Next]_vars
      PROVE  [Purging]_vars
  <2>. SUFFICES ASSUME NEW c \in Calls, PurgeData(c)
               PROVE  /\ messages \cap objects = {}
                      /\ MessagesOf(messages) \cap knowledge = {}
                      /\ sub.ref = NoWatch \/ watch # sub.ref
    BY DEF Purging
  <2>1. call[c].kind = "delete" /\ call[c].pc = "purge"
    BY <1>1 DEF PurgeData, TypeInv, Shape
  <2>2. CancelInv(c) /\ CleanInv(c)
    BY <1>1 DEF PurgeInv, EndInv
  <2>3. Silent /\ messages \subseteq call[c].refs /\ call[c].refs \cap objects = {}
        /\ MessagesOf(call[c].refs) \cap knowledge = {}
    BY <2>1, <2>2 DEF CancelInv, CleanInv
  <2>4. MessagesOf(messages) \subseteq MessagesOf(call[c].refs)
    BY <2>3 DEF MessagesOf
  <2>. QED  BY <2>3, <2>4 DEF Silent
<1>2. [][Purging]_vars => PurgeIsLast
  BY PTL DEF PurgeIsLast, Purging
<1>. QED  BY <1>1, <1>2, Typed, Purged, PTL DEF Spec

LEMMA ReplacedStatus == \A r, s, k : Replaced(r, s, k).status = s
BY DEF Replaced

\* Only two steps write the row.
LEMMA RowMoves ==
  ASSUME NEW c \in Calls, CallStep(c)
  PROVE  conn' = conn \/ SaveConnection(c) \/ MarkDeleting(c)
BY DEF CallStep, Changes, Activate, Reauthorize, Refresh, HostRefreshes, UpdateScopes,
       ProviderLifecycle, SyncFails, Works, Sync, ResolveCredential, FetchPage, SaveMessage,
       SaveMessageFails, RemoveMessage, RemoveBody, ApplyCandidate, SubmitKnowledge,
       EnsureSubscription, ReadSyncState, RecordWatch, PutBody, HostWatches, Revoke, Delete,
       EndsFurther, CancelSubscriptions, HostCancelsWatch, RecordCancel, ListCleanupRefs,
       DeleteObject, ObjectsDeleted, RevokeCredential, RevokeKnowledge, PurgeData,
       CheckRevision, CallFails, rows, data, host

LEMMA SilentNext ==
  ASSUME CasInv, PurgeInv, SilentInv, AtomicSaves, ~Reactivates, ~Overlapping, [Next]_vars
  PROVE  SilentInv'
<1>. USE DEF data, host, rows
<1>0. TypeInv /\ TypeInv' /\ TypeOK
  BY TypeNext DEF CasInv, TypeInv
<1>1. ASSUME NEW c \in Calls, CallStep(c)
      PROVE  SilentInv'
  <2>1. EndStep(c) /\ \A d \in Calls \ {c} : call'[d] = call[d]
    BY <1>0, <1>1, CallEnds, CallTyped DEF StepTyped
  <2>2. Shape(c) /\ CallInv(c)
    BY DEF CasInv, TypeInv
  <2>3. CASE conn' = conn \/ (conn.status = "revoked" /\ SaveConnection(c))
    <3>. SUFFICES ASSUME conn'.status = "revoked"
                 PROVE  Silent' /\ \A d \in Calls : call'[d].kind # "ensure"
      BY DEF SilentInv
    <3>1. conn.status = "revoked"
      BY <2>3
    <3>2. Silent /\ \A d \in Calls : call[d].kind # "ensure"
      BY <3>1 DEF SilentInv
    <3>. QED  BY <2>1, <3>1, <3>2 DEF EndStep
  <2>4. CASE MarkDeleting(c)
    <3>1. call[c].pc = "mark" /\ call[c].kind = "delete" /\ conn' = call[c].row
      BY <2>2, <2>4 DEF MarkDeleting, Shape
    <3>2. call[c].row.status = "deleting"
      BY <2>2, <3>1, ReplacedStatus DEF CallInv, DeleteInv
    <3>. QED  BY <3>1, <3>2 DEF SilentInv
  <2>5. CASE SaveConnection(c) /\ conn.status # "revoked"
    <3>0. call[c].pc = "save" /\ MaySave(c) /\ conn' = call[c].row /\ UNCHANGED <<sub, watch>>
      BY <2>5 DEF SaveConnection
    <3>1. CASE call[c].kind = "revoke"
      <4>1. Silent'
        BY <3>0, <3>1 DEF PurgeInv, EndInv, CancelInv, Silent
      <4>2. \A d \in Calls : call[d].kind # "ensure"
        BY <3>1 DEF PurgeInv, Apart, Working, Ending
      <4>3. call'[c].kind = "none"
        BY <1>0, <2>5, Ends DEF SaveConnection
      <4>. QED  BY <2>1, <4>1, <4>2, <4>3 DEF SilentInv
    <3>2. CASE call[c].kind \in {"change", "sync"}
      <4>1. call[c].seen = conn
        BY <3>0, <3>2, SavesWhatItRead
      <4>2. conn'.status # "revoked"
        BY <2>2, <2>5, <3>0, <3>2, <4>1 DEF CallInv, ChangeInv
      <4>. QED  BY <4>2 DEF SilentInv
    <3>3. CASE call[c].kind = "delete"
      BY <2>2, <3>0, <3>3 DEF CallInv, DeleteInv, SilentInv
    <3>. QED  BY <2>2, <3>0, <3>1, <3>2, <3>3 DEF Shape
  <2>6. conn' = conn \/ SaveConnection(c) \/ MarkDeleting(c)
    BY <1>1, RowMoves
  <2>. QED  BY <2>3, <2>4, <2>5, <2>6
<1>2. CASE WatchLapses \/ UNCHANGED vars
  BY <1>2, LapseKeeps DEF SilentInv
<1>. QED  BY <1>1, <1>2 DEF Next

(* A revoked connection has no recorded subscription whose watch the provider *)
(* still keeps: the revocation cancels it before it saves the row, and        *)
(* nothing renews it afterwards (revoke_connection,                           *)
(* ensure_provider_subscription), provided that save_connection is atomic,    *)
(* nobody activates a dying connection and no renewal overlaps a revocation.  *)
THEOREM RevokedIsSilentTheorem ==
  ASSUME AtomicSaves, ~Reactivates, ~Overlapping
  PROVE  Spec => []RevokedIsSilent
<1>1. Init => SilentInv
  BY DEF Init, SilentInv
<1>2. CasInv /\ PurgeInv /\ SilentInv /\ [Next]_vars => SilentInv'
  BY SilentNext
<1>3. SilentInv => RevokedIsSilent
  BY DEF SilentInv, RevokedIsSilent, Silent
<1>. QED  BY <1>1, <1>2, <1>3, Cas, Purged, PTL DEF Spec
=============================================================================
