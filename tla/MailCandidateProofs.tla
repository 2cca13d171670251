--------------------------- MODULE MailCandidateProofs ---------------------------
(***************************************************************************)
(* Theorems about MailCandidate and the ledger of the host: types, what a   *)
(* row that says applied is worth, confirmation, and, under one lock, how   *)
(* long a decision stands and how many tasks a candidate becomes.           *)
(*                                                                          *)
(* A call carries the row it has read. Until the message is deleted, rows   *)
(* only change to higher revisions, so a save that passes the comparison    *)
(* either replaces the very row the call has read, or is one the call had   *)
(* no way to know about and is counted. Hence a row that may still be       *)
(* approved is worth one confirmation, and confirmations given and the      *)
(* worth of the row never exceed one, the deletions and the counted saves.  *)
(***************************************************************************)
EXTENDS MailCandidate, FiniteSetTheorems, TLAPS

Writing == {"save", "insert", "update"}
Holding == Writing \cup OfHost \cup {"verify", "claim", "gate", "submit"}

Named(r) == r.pc \notin {"idle", "list", "propose"} => r.cand \in Candidates

\* What a call is about to save follows from what it has read.
Fits(r) ==
  r.pc \in Holding =>
    /\ r.next.rev > 0 /\ r.next.status # "none"
    /\ IF r.next.status = "proposed"
         THEN r.seen = NoRow
         ELSE /\ r.seen.status \in Revocable /\ r.next.rev = r.seen.rev + 1
              /\ r.next.status \in {"approved", "rejected"} => r.seen.status \in Reviewable
    /\ r.pc \notin Writing => r.next.status = "applied"

\* Within one life of the row, the row has been read or has moved on since.
Fresh(r) ==
  /\ r.life <= removed
  /\ locked /\ r.pc \in Holding /\ r.seen # NoRow /\ r.life = removed =>
       /\ rows[r.cand].rev >= r.seen.rev
       /\ rows[r.cand].rev = r.seen.rev => rows[r.cand] = r.seen

Done(x, rev, T, I) == IF x \in Knowledge THEN I[x] > 0 ELSE <<x, rev>> \in T

\* What the host has done when a call is where it is, for tasks T and intake I.
Backed(r, T, I) ==
  /\ r.pc \in Writing /\ r.next.status = "applied" => Done(r.cand, r.seen.rev, T, I)
  /\ r.pc = "complete" => <<r.cand, r.seen.rev>> \in T
  /\ r.pc \in OfHost \cup {"claim"} => r.cand \notin Knowledge
  /\ r.pc \in {"gate", "submit"} => r.cand \in Knowledge
  /\ r.pc = "submit" => r.gate > 0

Cleared(r) ==
  /\ r.pc \in {"read", "verify"} => <<r.cand, r.want>> \in clicked
  /\ r.pc \in OfHost \cup {"claim"} => <<r.cand, r.seen.rev>> \in clicked

Plain(r) == locked => r.pc \notin {"insert", "update"}

Sound(r, T, I) == Fits(r) /\ Fresh(r) /\ Backed(r, T, I) /\ Cleared(r) /\ Plain(r)

\* The confirmations given and the one that can be given at once.
Clicked(x) == {a \in clicked : a[1] = x}
Confirmable(x) ==
  Clicked(x) \cup IF rows[x].status = "approved" THEN {<<x, rows[x].rev>>} ELSE {}
Open(x) == IF rows[x].status \in {"none", "proposed", "rejected"} THEN 1 ELSE 0

Counted ==
  locked => \A x \in Candidates :
    Cardinality(Confirmable(x)) + Open(x) <= 1 + removed + overtaken[x]

Inv ==
  /\ TypeOK
  /\ \A c \in Callers : Sound(calls[c], tasks, intake)
  /\ succeeded \subseteq tasks /\ tasks \subseteq clicked
  /\ AppliedIsReal
  /\ IsFiniteSet(clicked) /\ Counted

-----------------------------------------------------------------------------
(* Calls                                                                    *)

Becomes(c, r) == calls' = [calls EXCEPT ![c] = r]

LEMMA Typed ==
  ASSUME TypeOK, NEW c \in Callers, NEW r \in Call, Named(r), Becomes(c, r)
  PROVE  /\ calls' \in [Callers -> Call] /\ calls'[c] = r
         /\ \A d \in Callers \ {c} : calls'[d] = calls[d]
         /\ \A d \in Callers : Placed(d)'
<1>1. /\ calls' \in [Callers -> Call] /\ calls'[c] = r
      /\ \A d \in Callers \ {c} : calls'[d] = calls[d]
  BY DEF TypeOK, Becomes
<1>2. \A d \in Callers : Placed(d)' BY <1>1 DEF TypeOK, Placed, Named
<1> QED BY <1>1, <1>2

LEMMA Idles ==
  /\ Idle \in Call /\ Named(Idle) /\ Idle.pc = "idle"
  /\ \A todo \in [Candidates -> Nat] :
       LET r == [Idle EXCEPT !.pc = "propose", !.todo = todo]
       IN  r \in Call /\ Named(r) /\ r.pc = "propose" /\ r.life = 0
<1>1. /\ Nothing \in [Candidates -> Nat] /\ NoRow \in Row /\ 0 \in Nat
      /\ "idle" \in Pc /\ "propose" \in Pc /\ NoCandidate \in Candidates \cup {NoCandidate}
  BY DEF Nothing, NoRow, Row, Status, Pc
<1> QED BY <1>1 DEF Idle, Call, Named

LEMMA SoundIdles ==
  ASSUME TypeOK, NEW T, NEW I
  PROVE  /\ Sound(Idle, T, I)
         /\ \A todo \in [Candidates -> Nat] :
              Sound([Idle EXCEPT !.pc = "propose", !.todo = todo], T, I)
<1>1. removed \in Nat BY DEF TypeOK
<1> QED BY <1>1 DEF Sound, Fits, Fresh, Backed, Cleared, Plain, Idle, Holding, Writing, OfHost

\* A step of one call and the host that leaves rows and history alone.
LEMMA HostStep ==
  ASSUME Inv, NEW c \in Callers, NEW r \in Call, Named(r), Becomes(c, r),
         Sound(r, tasks', intake'),
         UNCHANGED <<locked, stored, rows, history>>, events' \in 0 .. MaxEvents,
         LedgerType', tasks \subseteq tasks', tasks' \subseteq clicked, succeeded' \subseteq tasks',
         \A x \in Candidates : intake[x] > 0 => intake'[x] > 0
  PROVE  Inv'
<1>1. /\ calls' \in [Callers -> Call] /\ calls'[c] = r
      /\ \A d \in Callers \ {c} : calls'[d] = calls[d]
      /\ \A d \in Callers : Placed(d)'
  BY Typed DEF Inv
<1>2. TypeOK' BY <1>1 DEF Inv, TypeOK, history
<1>3. ASSUME NEW d \in Callers PROVE Sound(calls[d], tasks, intake)'
  <2>1. CASE d = c
    BY <2>1, <1>1 DEF Sound, Fits, Fresh, Backed, Cleared, Plain, Done, history
  <2>2. CASE d # c
    <3>1. Sound(calls[d], tasks, intake) /\ calls'[d] = calls[d] /\ calls[d] \in Call
      BY <1>1, <2>2 DEF Inv, TypeOK
    <3>2. calls[d].pc \in Writing => calls[d].cand \in Candidates
      BY DEF Inv, TypeOK, Placed, Writing
    <3>3. Backed(calls[d], tasks', intake') BY <3>1, <3>2 DEF Sound, Backed, Done
    <3> QED BY <3>1, <3>3 DEF Sound, Fits, Fresh, Backed, Cleared, Plain, Done, history
  <2> QED BY <2>1, <2>2
<1>4. AppliedIsReal' BY DEF Inv, AppliedIsReal, history
<1>5. IsFiniteSet(clicked)' /\ Counted'
  BY DEF Inv, Counted, Confirmable, Clicked, Open, history
<1>6. succeeded' \subseteq tasks' /\ tasks' \subseteq clicked' BY DEF history
<1> QED BY <1>2, <1>3, <1>4, <1>5, <1>6 DEF Inv

\* A step of one call that changes nothing else that is shared.
LEMMA OwnStep ==
  ASSUME Inv, NEW c \in Callers, NEW r \in Call, Named(r), Becomes(c, r),
         Sound(r, tasks, intake),
         UNCHANGED <<ledger, locked, stored, rows, history>>, events' \in 0 .. MaxEvents
  PROVE  Inv'
<1>1. LedgerType' /\ tasks' = tasks /\ intake' = intake /\ succeeded' = succeeded
  BY DEF Inv, TypeOK, LedgerType, ledger
<1>2. Sound(r, tasks', intake') BY <1>1
<1>3. /\ tasks \subseteq tasks' /\ tasks' \subseteq clicked /\ succeeded' \subseteq tasks'
      /\ \A x \in Candidates : intake[x] > 0 => intake'[x] > 0
  BY <1>1 DEF Inv
<1> HIDE DEF Sound, Named, Becomes, Inv, LedgerType
<1> QED BY <1>1, <1>2, <1>3, HostStep

LEMMA StopStep ==
  ASSUME Inv, NEW c \in Callers, Stop(c),
         UNCHANGED <<ledger, locked, stored, rows, history>>, events' \in 0 .. MaxEvents
  PROVE  Inv'
<1>1. Becomes(c, Idle) BY DEF Stop, Becomes
<1>2. Sound(Idle, tasks, intake) BY SoundIdles DEF Inv
<1> QED BY <1>1, <1>2, Idles, OwnStep

-----------------------------------------------------------------------------
(* Steps that change a call and nothing that is shared.                     *)

LEMMA Happening == TypeOK /\ Happens => events' \in 0 .. MaxEvents
BY CallerAssumption DEF TypeOK, Happens

\* Goto: the fields of the call stay, so what is sound at both places stays sound.
LEMMA Goes ==
  ASSUME TypeOK, NEW c \in Callers, NEW pc \in Pc, Goto(c, pc),
         pc \notin {"idle", "list", "propose"} => calls[c].cand \in Candidates
  PROVE  LET r == [calls[c] EXCEPT !.pc = pc]
         IN  /\ r \in Call /\ Named(r) /\ Becomes(c, r) /\ r.pc = pc
             /\ r.cand = calls[c].cand /\ r.seen = calls[c].seen /\ r.next = calls[c].next
             /\ r.life = calls[c].life /\ r.want = calls[c].want /\ r.gate = calls[c].gate
<1>1. calls[c] \in Call BY DEF TypeOK
<1>2. calls' = [calls EXCEPT ![c].pc = pc] BY DEF Goto
<1>3. Becomes(c, [calls[c] EXCEPT !.pc = pc]) BY <1>1, <1>2 DEF Becomes, Call
<1> QED BY <1>1, <1>3 DEF Call, Named

\* A finite set of natural numbers has a greatest one: among the sets of what is above an
\* element, one that contains no other is empty.
LEMMA Greatest ==
  ASSUME NEW S \in SUBSET Nat, IsFiniteSet(S), S # {}
  PROVE  \E m \in S : \A n \in S : n <= m
<1> DEFINE Above(m) == {n \in S : n > m}
           T == {Above(m) : m \in S}
           R == StrictSubsetOrdering(S)
<1>1. IsWellFoundedOn(R, FiniteSubsetsOf(S)) BY FS_StrictSubsetOrderingWellFounded
<1>2. FiniteSubsetsOf(S) = SUBSET S BY FS_FiniteSubsetsOfFinite
<1>3. T \subseteq SUBSET S /\ T # {} OBVIOUS
<1>4. PICK U \in T : \A V \in T : <<V, U>> \notin R
  <2> HIDE DEF T, R
  <2>1. IsWellFoundedOn(R, SUBSET S) BY <1>1, <1>2
  <2>2. \E U \in T : \A V \in T : ~(<<V, U>> \in R) BY <1>3, <2>1, WFMin
  <2> QED BY <2>2
<1>5. PICK m \in S : U = Above(m) BY <1>4
<1>6. ASSUME NEW n \in S, n > m PROVE FALSE
  <2>1. Above(n) \subseteq U /\ Above(n) # U /\ Above(n) \in T
    <3>1. n \in Nat /\ m \in Nat /\ \A k \in S : k \in Nat OBVIOUS
    <3>2. \A k \in S : k > n => k > m BY <1>6, <3>1
    <3>3. Above(n) \subseteq Above(m) BY <3>2
    <3>4. n \in Above(m) BY <1>6
    <3>5. n \notin Above(n) BY <3>1
    <3>6. Above(n) \in T OBVIOUS
    <3> HIDE DEF Above, T
    <3> QED BY <1>5, <3>3, <3>4, <3>5, <3>6
  <2>2. Above(n) \in SUBSET S /\ U \in SUBSET S BY <1>3, <1>4
  <2>3. <<Above(n), U>> \in R
    <3> HIDE DEF Above, T
    <3> QED BY <2>1, <2>2 DEF StrictSubsetOrdering
  <2> QED BY <1>4, <2>1, <2>3
<1> QED BY <1>6

LEMMA AnalyzeInv ==
  ASSUME Inv, NEW c \in Callers, Analyze(c)
  PROVE  Inv'
<1> DEFINE r == [calls[c] EXCEPT !.pc = "list"]
<1>1. TypeOK /\ Sound(calls[c], tasks, intake) BY DEF Inv
<1>2. r \in Call /\ Named(r) /\ Becomes(c, r) /\ r.pc = "list" /\ r.life = calls[c].life
  <2>1. "list" \in Pc BY DEF Pc
  <2> QED BY <1>1, <2>1, Goes DEF Analyze
<1>3. Sound(r, tasks, intake)
  <2> HIDE DEF r
  <2> QED BY <1>1, <1>2 DEF Sound, Fits, Fresh, Backed, Cleared, Plain, Holding, Writing, OfHost
<1>4. events' \in 0 .. MaxEvents BY <1>1, Happening DEF Analyze
<1> HIDE DEF r
<1> QED BY <1>2, <1>3, <1>4, OwnStep DEF Analyze

LEMMA ListInv ==
  ASSUME Inv, NEW c \in Callers, NEW listed \in SUBSET Candidates, NEW new \in SUBSET Candidates,
         NEW rank \in [new -> 1 .. Cardinality(new)], List(c, listed, new, rank)
  PROVE  Inv'
<1> DEFINE todo == [x \in Candidates |-> IF x \in new THEN Highest(x, listed) + rank[x] ELSE 0]
           r == [calls[c] EXCEPT !.pc = "propose", !.todo = todo]
<1>1. TypeOK /\ Sound(calls[c], tasks, intake) /\ calls[c] \in Call BY DEF Inv, TypeOK
<1>2. todo \in [Candidates -> Nat]
  <2> SUFFICES ASSUME NEW x \in Candidates, x \in new PROVE Highest(x, listed) + rank[x] \in Nat
    OBVIOUS
  <2>1. Highest(x, listed) \in Nat
    <3> DEFINE S == {0} \cup {rows[y].rev : y \in listed \cap Siblings(x)}
    <3>1. IsFiniteSet(listed) BY CallerAssumption, FS_Subset
    <3>2. S \subseteq Nat BY <1>1 DEF TypeOK, Row, Siblings
    <3>3. \E m \in S : \A n \in S : n <= m
      <4>1. IsFiniteSet(S)
        <5>1. IsFiniteSet(listed \cap Siblings(x)) BY <3>1, FS_Subset
        <5>2. IsFiniteSet({rows[y].rev : y \in listed \cap Siblings(x)})
          <6> DEFINE D == listed \cap Siblings(x)
                     f == [y \in D |-> rows[y].rev]
          <6>1. {f[y] : y \in D} = {rows[y].rev : y \in D} OBVIOUS
          <6>2. f \in Surjection(D, {f[y] : y \in D}) BY DEF Surjection
          <6> HIDE DEF f, D
          <6>3. IsFiniteSet({f[y] : y \in D}) BY <5>1, <6>2, FS_Surjection DEF D
          <6> QED BY <6>1, <6>3 DEF D
        <5> QED BY <5>2, FS_Singleton, FS_Union
      <4> HIDE DEF S
      <4>2. 0 \in S BY DEF S
      <4> QED BY <3>2, <4>1, <4>2, Greatest
    <3>4. \E m \in S : \A y \in listed \cap Siblings(x) : rows[y].rev <= m BY <3>3
    <3>5. Highest(x, listed) \in S BY <3>4 DEF Highest
    <3> QED BY <3>2, <3>5
  <2>2. rank[x] \in Nat
    <3>1. IsFiniteSet(new) BY CallerAssumption, FS_Subset
    <3>2. Cardinality(new) \in Nat BY <3>1, FS_CardinalityType
    <3> QED BY <3>2
  <2> QED BY <2>1, <2>2
<1> HIDE DEF todo
<1>3. r \in Call /\ Named(r) /\ r.pc = "propose" /\ r.life = calls[c].life
  <2>1. "propose" \in Pc BY DEF Pc
  <2> QED BY <1>1, <1>2, <2>1 DEF Call, Named
<1>4. Becomes(c, r)
  <2>1. calls' = [calls EXCEPT ![c].pc = "propose", ![c].todo = todo] BY DEF List, todo
  <2> QED BY <1>1, <2>1 DEF Becomes, Call
<1> HIDE DEF r
<1>5. Sound(r, tasks, intake)
  BY <1>1, <1>3 DEF Sound, Fits, Fresh, Backed, Cleared, Plain, Holding, Writing, OfHost
<1>6. events' \in 0 .. MaxEvents BY <1>1 DEF TypeOK, List
<1> QED BY <1>3, <1>4, <1>5, <1>6, OwnStep DEF List

LEMMA ProposeInv ==
  ASSUME Inv, NEW c \in Callers, NEW x \in Candidates, Propose(c, x)
  PROVE  Inv'
<1> DEFINE n == [status |-> "proposed", rev |-> calls[c].todo[x]]
           rest == [calls[c].todo EXCEPT ![x] = 0]
           r == [calls[c] EXCEPT !.pc = "save", !.cand = x, !.todo = rest, !.seen = NoRow,
                                 !.next = n]
<1>1. TypeOK /\ Sound(calls[c], tasks, intake) /\ calls[c] \in Call BY DEF Inv, TypeOK
<1>2. calls[c].todo[x] > 0 /\ calls[c].todo[x] \in Nat BY <1>1 DEF Propose, Call
<1>3. /\ n \in Row /\ n.status = "proposed" /\ n.rev > 0 /\ NoRow \in Row
      /\ rest \in [Candidates -> Nat]
  BY <1>1, <1>2 DEF Row, Status, NoRow, Call
<1>4. Becomes(c, r)
  <2>1. calls' = [calls EXCEPT ![c].pc = "save", ![c].cand = x, ![c].todo[x] = 0,
                    ![c].seen = NoRow, ![c].next = n]
    BY DEF Propose
  <2> QED BY <1>1, <2>1 DEF Becomes, Call
<1> HIDE DEF n, rest
<1>5. /\ r \in Call /\ Named(r) /\ r.pc = "save" /\ r.life = calls[c].life
      /\ r.seen = NoRow /\ r.next = n
  <2>1. "save" \in Pc BY DEF Pc
  <2> QED BY <1>1, <1>3, <2>1 DEF Call, Named
<1> HIDE DEF r
<1>6. Sound(r, tasks, intake)
  BY <1>1, <1>3, <1>5 DEF Sound, Fits, Fresh, Backed, Cleared, Plain, Holding, Writing, OfHost
<1>7. events' \in 0 .. MaxEvents BY <1>1 DEF TypeOK, Propose
<1> QED BY <1>4, <1>5, <1>6, <1>7, OwnStep DEF Propose

\* review_candidate and revoke_candidate: what is decided is about the row just read.
LEMMA DecidesInv ==
  ASSUME Inv, NEW c \in Callers, NEW x \in Candidates,
         NEW status \in {"approved", "rejected", "revoked"},
         rows[x].status \in Revocable,
         status \in {"approved", "rejected"} => rows[x].status \in Reviewable,
         Decides(c, x, status)
  PROVE  Inv'
<1> DEFINE n == [status |-> status, rev |-> rows[x].rev + 1]
           r == [calls[c] EXCEPT !.pc = "save", !.cand = x, !.life = removed, !.seen = rows[x],
                                 !.next = n]
<1>1. /\ TypeOK /\ calls[c] \in Call /\ rows[x] \in Row /\ rows[x].rev \in Nat
      /\ removed \in Nat
  BY DEF Inv, TypeOK, Row
<1>2. n \in Row /\ n.status = status /\ n.rev = rows[x].rev + 1
  BY <1>1 DEF Row, Status
<1>3. Becomes(c, r)
  <2>1. calls' = [calls EXCEPT ![c].pc = "save", ![c].cand = x, ![c].life = removed,
                    ![c].seen = rows[x], ![c].next = n]
    BY DEF Decides
  <2> QED BY <1>1, <2>1 DEF Becomes, Call
<1> HIDE DEF n
<1>4. /\ r \in Call /\ Named(r) /\ r.pc = "save" /\ r.cand = x /\ r.life = removed
      /\ r.seen = rows[x] /\ r.next = n
  <2>1. "save" \in Pc BY DEF Pc
  <2> QED BY <1>1, <1>2, <2>1 DEF Call, Named
<1> HIDE DEF r
<1>5. Fits(r) BY <1>1, <1>2, <1>4 DEF Fits, Writing
<1>6. Fresh(r) BY <1>1, <1>4 DEF Fresh
<1>7. Backed(r, tasks, intake) BY <1>2, <1>4 DEF Backed, OfHost
<1>8. Cleared(r) /\ Plain(r) BY <1>4 DEF Cleared, Plain, OfHost
<1>9. events' \in 0 .. MaxEvents BY <1>1, Happening DEF Decides
<1>10. Sound(r, tasks, intake) BY <1>5, <1>6, <1>7, <1>8 DEF Sound
<1> QED BY <1>3, <1>4, <1>9, <1>10, OwnStep DEF Decides

LEMMA SelectInv ==
  ASSUME Inv, NEW c \in Callers, Select(c)
  PROVE  Inv'
<1>1. /\ TypeOK /\ Sound(calls[c], tasks, intake) /\ calls[c].cand \in Candidates
      /\ events' \in 0 .. MaxEvents
  BY DEF Inv, TypeOK, Placed, Select
<1>2. CASE Stop(c) BY <1>1, <1>2, StopStep DEF Select
<1>3. ASSUME NEW pc \in {"update", "insert"}, Goto(c, pc) PROVE Inv'
  <2> DEFINE r == [calls[c] EXCEPT !.pc = pc]
  <2>1. /\ r \in Call /\ Named(r) /\ Becomes(c, r) /\ r.pc = pc
        /\ r.cand = calls[c].cand /\ r.seen = calls[c].seen /\ r.next = calls[c].next
        /\ r.life = calls[c].life
    <3>1. pc \in Pc BY DEF Pc
    <3> QED BY <1>1, <1>3, <3>1, Goes
  <2> HIDE DEF r
  <2>2. Sound(r, tasks, intake)
    BY <1>1, <2>1 DEF Select, Sound, Fits, Fresh, Backed, Done, Cleared, Plain, Holding, Writing,
                      OfHost
  <2> QED BY <1>1, <2>1, <2>2, OwnStep DEF Select
<1> QED BY <1>2, <1>3 DEF Select

LEMMA ReadInv ==
  ASSUME Inv, NEW c \in Callers, Read(c)
  PROVE  Inv'
<1> DEFINE x == calls[c].cand
           n == [status |-> "applied", rev |-> rows[x].rev + 1]
           r == [calls[c] EXCEPT !.pc = "verify", !.seen = rows[x], !.life = removed, !.next = n]
<1>1. /\ TypeOK /\ Sound(calls[c], tasks, intake) /\ calls[c] \in Call /\ x \in Candidates
      /\ events' \in 0 .. MaxEvents /\ removed \in Nat
  BY DEF Inv, TypeOK, Placed, Read
<1>2. CASE Stop(c) BY <1>1, <1>2, StopStep DEF Read
<1>3. CASE rows[x].status = "approved" /\ stored
  <2>1. rows[x] \in Row /\ rows[x].rev \in Nat BY <1>1 DEF TypeOK, Row
  <2>2. n \in Row /\ n.status = "applied" /\ n.rev = rows[x].rev + 1
    BY <2>1 DEF Row, Status
  <2>3. Becomes(c, r)
    <3>1. calls' = [calls EXCEPT ![c].pc = "verify", ![c].seen = rows[x], ![c].life = removed,
                      ![c].next = n]
      BY <1>3 DEF Read
    <3> QED BY <1>1, <3>1 DEF Becomes, Call
  <2> HIDE DEF n
  <2>4. /\ r \in Call /\ Named(r) /\ r.pc = "verify" /\ r.cand = x /\ r.life = removed
        /\ r.seen = rows[x] /\ r.next = n /\ r.want = calls[c].want
    <3>1. "verify" \in Pc BY DEF Pc
    <3> QED BY <1>1, <2>1, <2>2, <3>1 DEF Call, Named
  <2>5. <<x, calls[c].want>> \in clicked BY <1>1 DEF Sound, Cleared, Read
  <2> HIDE DEF r, x
  <2>6. Fits(r) BY <1>3, <2>1, <2>2, <2>4 DEF Fits, Writing, Revocable
  <2>7. Fresh(r) BY <1>1, <2>1, <2>4 DEF Fresh
  <2>8. Backed(r, tasks, intake) /\ Cleared(r) /\ Plain(r)
    BY <2>4, <2>5 DEF Backed, Cleared, Plain, Writing, OfHost
  <2>9. Sound(r, tasks, intake) BY <2>6, <2>7, <2>8 DEF Sound
  <2> QED BY <1>1, <2>3, <2>4, <2>9, OwnStep DEF Read
<1> QED BY <1>2, <1>3 DEF Read

LEMMA VerifyInv ==
  ASSUME Inv, NEW c \in Callers, NEW expired \in BOOLEAN, Verify(c, expired)
  PROVE  Inv'
<1>1. /\ TypeOK /\ Sound(calls[c], tasks, intake) /\ calls[c].cand \in Candidates
      /\ events' \in 0 .. MaxEvents
  BY DEF Inv, TypeOK, Placed, Verify
<1>2. CASE Stop(c) BY <1>1, <1>2, StopStep DEF Verify
<1>3. ASSUME NEW pc \in {"gate", "claim"}, Goto(c, pc), calls[c].want = calls[c].seen.rev,
             pc = "gate" <=> calls[c].cand \in Knowledge
      PROVE  Inv'
  <2> DEFINE r == [calls[c] EXCEPT !.pc = pc]
  <2>1. /\ r \in Call /\ Named(r) /\ Becomes(c, r) /\ r.pc = pc
        /\ r.cand = calls[c].cand /\ r.seen = calls[c].seen /\ r.next = calls[c].next
        /\ r.life = calls[c].life
    <3>1. pc \in Pc BY DEF Pc
    <3> QED BY <1>1, <1>3, <3>1, Goes
  <2> HIDE DEF r
  <2>2. Sound(r, tasks, intake)
    BY <1>1, <1>3, <2>1 DEF Verify, Sound, Fits, Fresh, Backed, Done, Cleared, Plain, Holding,
                            Writing, OfHost
  <2> QED BY <1>1, <2>1, <2>2, OwnStep DEF Verify
<1> QED BY <1>2, <1>3 DEF Verify

LEMMA RefusedInv ==
  ASSUME Inv, NEW c \in Callers, DispatchRefused(c)
  PROVE  Inv'
<1> DEFINE r == [calls[c] EXCEPT !.pc = "fail"]
<1>1. /\ TypeOK /\ Sound(calls[c], tasks, intake) /\ calls[c].cand \in Candidates
      /\ events' \in 0 .. MaxEvents
  BY DEF Inv, TypeOK, Placed, DispatchRefused
<1>2. /\ r \in Call /\ Named(r) /\ Becomes(c, r) /\ r.pc = "fail"
      /\ r.cand = calls[c].cand /\ r.seen = calls[c].seen /\ r.next = calls[c].next
      /\ r.life = calls[c].life
  <2>1. "fail" \in Pc BY DEF Pc
  <2> QED BY <1>1, <2>1, Goes DEF DispatchRefused
<1> HIDE DEF r
<1>3. Sound(r, tasks, intake)
  BY <1>1, <1>2 DEF DispatchRefused, Sound, Fits, Fresh, Backed, Done, Cleared, Plain, Holding,
                    Writing, OfHost
<1> QED BY <1>1, <1>2, <1>3, OwnStep DEF DispatchRefused

LEMMA GiveUpInv ==
  ASSUME Inv, NEW c \in Callers, GiveUp(c)
  PROVE  Inv'
<1> DEFINE r == [calls[c] EXCEPT !.waiting = FALSE]
<1>1. /\ TypeOK /\ Sound(calls[c], tasks, intake) /\ calls[c] \in Call /\ Placed(c)
      /\ events' \in 0 .. MaxEvents
  BY DEF Inv, TypeOK, GiveUp
<1>2. CASE Stop(c) BY <1>1, <1>2, StopStep DEF GiveUp
<1>3. CASE calls[c].pc \in OfHost
  <2>1. Becomes(c, r) BY <1>1, <1>3 DEF GiveUp, Becomes, Call
  <2>2. /\ r \in Call /\ Named(r) /\ r.pc = calls[c].pc
        /\ r.cand = calls[c].cand /\ r.seen = calls[c].seen /\ r.next = calls[c].next
        /\ r.life = calls[c].life
    BY <1>1, <1>3 DEF Call, Named, Placed, OfHost
  <2> HIDE DEF r
  <2>3. Sound(r, tasks, intake)
    BY <1>1, <1>3, <2>2 DEF Sound, Fits, Fresh, Backed, Done, Cleared, Plain, Holding, Writing,
                            OfHost
  <2> QED BY <1>1, <2>1, <2>2, <2>3, OwnStep DEF GiveUp
<1> QED BY <1>2, <1>3 DEF GiveUp

LEMMA EndsInv ==
  ASSUME Inv, NEW c \in Callers, Proposed(c) \/ SubmissionConflict(c)
  PROVE  Inv'
<1>1. events' \in 0 .. MaxEvents BY DEF Inv, TypeOK, Proposed, SubmissionConflict
<1> QED BY <1>1, StopStep DEF Proposed, SubmissionConflict

-----------------------------------------------------------------------------
(* Steps of a call at the host.                                             *)

LEMMA ActionTyped ==
  ASSUME Inv, NEW c \in Callers, calls[c].cand \in Candidates
  PROVE  Action(c) \in Actions /\ Action(c) = <<calls[c].cand, calls[c].seen.rev>>
<1>1. calls[c].seen.rev \in Nat BY DEF Inv, TypeOK, Call, Row
<1> QED BY <1>1 DEF Action, Actions

LEMMA ClaimedInv ==
  ASSUME Inv, NEW c \in Callers, Claimed(c)
  PROVE  Inv'
<1>1. /\ TypeOK /\ Sound(calls[c], tasks, intake) /\ calls[c].cand \in Candidates
      /\ calls[c] \in Call /\ events' \in 0 .. MaxEvents /\ calls[c].pc = "claim"
  BY DEF Inv, TypeOK, Placed, Claimed
<1>2. Action(c) \in Actions /\ Action(c) = <<calls[c].cand, calls[c].seen.rev>>
  BY <1>1, ActionTyped
<1>3. CASE Replayed(Action(c))
  <2> DEFINE r == [calls[c] EXCEPT !.pc = "save"]
  <2>1. /\ r \in Call /\ Named(r) /\ Becomes(c, r) /\ r.pc = "save"
        /\ r.cand = calls[c].cand /\ r.seen = calls[c].seen /\ r.next = calls[c].next
        /\ r.life = calls[c].life
    <3>1. "save" \in Pc BY DEF Pc
    <3> QED BY <1>1, <1>3, <3>1, Goes DEF Claimed
  <2>2. Done(calls[c].cand, calls[c].seen.rev, tasks, intake)
    BY <1>1, <1>2, <1>3 DEF Replayed, Inv, Done, Sound, Backed
  <2> HIDE DEF r
  <2>3. Sound(r, tasks, intake)
    BY <1>1, <2>1, <2>2 DEF Sound, Fits, Fresh, Backed, Cleared, Plain, Holding, Writing, OfHost
  <2> QED BY <1>1, <1>3, <2>1, <2>3, OwnStep DEF Claimed
<1>4. CASE ~Replayed(Action(c))
  <2> DEFINE r == [calls[c] EXCEPT !.pc = "dispatch", !.waiting = TRUE]
  <2>1. Becomes(c, r) BY <1>1, <1>4 DEF Claimed, Becomes, Call
  <2>2. /\ r \in Call /\ Named(r) /\ r.pc = "dispatch"
        /\ r.cand = calls[c].cand /\ r.seen = calls[c].seen /\ r.next = calls[c].next
        /\ r.life = calls[c].life
    <3>1. "dispatch" \in Pc BY DEF Pc
    <3> QED BY <1>1, <3>1 DEF Call, Named
  <2>3. /\ LedgerType' /\ tasks' = tasks /\ intake' = intake /\ succeeded' = succeeded
    BY <1>1, <1>2, <1>4 DEF Claimed, Claim, TypeOK, LedgerType
  <2> HIDE DEF r
  <2>4. Sound(r, tasks', intake')
    BY <1>1, <2>2, <2>3 DEF Sound, Fits, Fresh, Backed, Done, Cleared, Plain, Holding, Writing,
                            OfHost
  <2>5. tasks' \subseteq clicked /\ succeeded' \subseteq tasks' BY <2>3 DEF Inv
  <2> QED BY <1>1, <2>1, <2>2, <2>3, <2>4, <2>5, HostStep DEF Claimed
<1> QED BY <1>3, <1>4

LEMMA DispatchInv ==
  ASSUME Inv, NEW c \in Callers, NEW answered \in BOOLEAN, Dispatch(c, answered)
  PROVE  Inv'
<1> DEFINE pc == IF answered THEN "complete" ELSE "fail"
           r == [calls[c] EXCEPT !.pc = pc]
<1>1. /\ TypeOK /\ Sound(calls[c], tasks, intake) /\ calls[c].cand \in Candidates
      /\ calls[c] \in Call /\ events' \in 0 .. MaxEvents /\ calls[c].pc = "dispatch"
  BY DEF Inv, TypeOK, Placed, Dispatch
<1>2. Action(c) \in Actions /\ Action(c) = <<calls[c].cand, calls[c].seen.rev>>
  BY <1>1, ActionTyped
<1>3. /\ r \in Call /\ Named(r) /\ Becomes(c, r) /\ r.pc = pc
      /\ r.cand = calls[c].cand /\ r.seen = calls[c].seen /\ r.next = calls[c].next
      /\ r.life = calls[c].life
  <2>1. pc \in Pc /\ Goto(c, pc) BY DEF Pc, Dispatch
  <2> HIDE DEF pc
  <2> QED BY <1>1, <2>1, Goes
<1>4. pc \in {"complete", "fail"} OBVIOUS
<1>5. /\ tasks' = tasks \cup {Action(c)} /\ intake' = intake /\ succeeded' = succeeded
      /\ LedgerType' /\ Action(c) \in clicked
  BY <1>1, <1>2 DEF Dispatch, CreateTask, TypeOK, LedgerType, Sound, Cleared, OfHost
<1> HIDE DEF r, pc
<1>6. Sound(r, tasks', intake')
  BY <1>1, <1>2, <1>3, <1>4, <1>5 DEF Sound, Fits, Fresh, Backed, Done, Cleared, Plain, Holding,
                                      Writing, OfHost
<1>7. tasks \subseteq tasks' /\ tasks' \subseteq clicked /\ succeeded' \subseteq tasks'
  BY <1>5 DEF Inv
<1> QED BY <1>1, <1>3, <1>5, <1>6, <1>7, HostStep DEF Dispatch

\* A step that ends a call and changes the ledger.
LEMMA EndAtHost ==
  ASSUME Inv, NEW c \in Callers, Stop(c), UNCHANGED <<locked, stored, rows, events, history>>,
         running' \subseteq Actions, tasks' = tasks, intake' = intake, gates' = gates,
         succeeded' \subseteq tasks
  PROVE  Inv'
<1>1. Becomes(c, Idle) BY DEF Stop, Becomes
<1>2. LedgerType' BY DEF Inv, TypeOK, LedgerType
<1>3. Sound(Idle, tasks', intake') BY SoundIdles DEF Inv
<1>4. /\ events' \in 0 .. MaxEvents /\ tasks \subseteq tasks' /\ tasks' \subseteq clicked
      /\ succeeded' \subseteq tasks'
  BY DEF Inv, TypeOK
<1> QED BY <1>1, <1>2, <1>3, <1>4, Idles, HostStep

LEMMA CompletedInv ==
  ASSUME Inv, NEW c \in Callers, Completed(c)
  PROVE  Inv'
<1>1. /\ TypeOK /\ Sound(calls[c], tasks, intake) /\ calls[c].cand \in Candidates
      /\ calls[c] \in Call /\ events' \in 0 .. MaxEvents /\ calls[c].pc = "complete"
  BY DEF Inv, TypeOK, Placed, Completed
<1>2. Action(c) \in Actions /\ Action(c) = <<calls[c].cand, calls[c].seen.rev>>
  BY <1>1, ActionTyped
<1>3. Action(c) \in tasks BY <1>1, <1>2 DEF Sound, Backed
<1>4. /\ running' \subseteq Actions /\ succeeded' \subseteq tasks
      /\ tasks' = tasks /\ intake' = intake /\ gates' = gates
  BY <1>1, <1>3 DEF Completed, Complete, Completes, Inv, TypeOK, LedgerType
<1>5. CASE Stop(c) BY <1>4, <1>5, EndAtHost DEF Completed
<1>6. CASE Goto(c, "save")
  <2> DEFINE r == [calls[c] EXCEPT !.pc = "save"]
  <2>1. /\ r \in Call /\ Named(r) /\ Becomes(c, r) /\ r.pc = "save"
        /\ r.cand = calls[c].cand /\ r.seen = calls[c].seen /\ r.next = calls[c].next
        /\ r.life = calls[c].life
    <3>1. "save" \in Pc BY DEF Pc
    <3> QED BY <1>1, <1>6, <3>1, Goes
  <2> HIDE DEF r
  <2>2. Done(calls[c].cand, calls[c].seen.rev, tasks, intake)
    BY <1>1, <1>2, <1>3 DEF Done, Sound, Backed, OfHost
  <2>3. Sound(r, tasks', intake')
    BY <1>1, <1>4, <2>1, <2>2 DEF Sound, Fits, Fresh, Backed, Cleared, Plain, Holding, Writing,
                                  OfHost
  <2>4. LedgerType' /\ tasks' \subseteq clicked /\ succeeded' \subseteq tasks'
    BY <1>2, <1>4 DEF Inv, TypeOK, LedgerType
  <2> QED BY <1>1, <1>4, <2>1, <2>3, <2>4, HostStep DEF Completed
<1> QED BY <1>5, <1>6 DEF Completed

LEMMA FailedInv ==
  ASSUME Inv, NEW c \in Callers, Failed(c)
  PROVE  Inv'
<1>1. /\ running' \subseteq Actions /\ succeeded' \subseteq tasks
      /\ tasks' = tasks /\ intake' = intake /\ gates' = gates
  BY DEF Failed, MarkRetryable, Inv, TypeOK, LedgerType
<1> QED BY <1>1, EndAtHost DEF Failed

LEMMA EvaluateInv ==
  ASSUME Inv, NEW c \in Callers, Evaluate(c)
  PROVE  Inv'
<1> DEFINE r == [calls[c] EXCEPT !.pc = "submit", !.gate = gates + 1]
<1>1. /\ TypeOK /\ Sound(calls[c], tasks, intake) /\ calls[c].cand \in Candidates
      /\ calls[c] \in Call /\ events' \in 0 .. MaxEvents /\ calls[c].pc = "gate"
  BY DEF Inv, TypeOK, Placed, Evaluate
<1>2. gates \in Nat /\ gates + 1 \in Nat /\ gates + 1 > 0 BY <1>1 DEF TypeOK, LedgerType
<1>3. Becomes(c, r) BY <1>1 DEF Evaluate, Becomes, Call
<1>4. /\ r \in Call /\ Named(r) /\ r.pc = "submit" /\ r.gate = gates + 1
      /\ r.cand = calls[c].cand /\ r.seen = calls[c].seen /\ r.next = calls[c].next
      /\ r.life = calls[c].life
  <2>1. "submit" \in Pc BY DEF Pc
  <2> QED BY <1>1, <1>2, <2>1 DEF Call, Named
<1>5. LedgerType' /\ tasks' = tasks /\ intake' = intake /\ succeeded' = succeeded
  BY <1>1, <1>2 DEF Evaluate, IssueGate, TypeOK, LedgerType
<1> HIDE DEF r
<1>6. Sound(r, tasks', intake')
  BY <1>1, <1>2, <1>4, <1>5 DEF Sound, Fits, Fresh, Backed, Done, Cleared, Plain, Holding,
                                Writing, OfHost
<1>7. tasks' \subseteq clicked /\ succeeded' \subseteq tasks' BY <1>5 DEF Inv
<1> QED BY <1>1, <1>3, <1>4, <1>5, <1>6, <1>7, HostStep DEF Evaluate

LEMMA SubmittedInv ==
  ASSUME Inv, NEW c \in Callers, Submitted(c)
  PROVE  Inv'
<1> DEFINE x == calls[c].cand
           r == [calls[c] EXCEPT !.pc = "save"]
<1>1. /\ TypeOK /\ Sound(calls[c], tasks, intake) /\ x \in Candidates
      /\ calls[c] \in Call /\ events' \in 0 .. MaxEvents /\ calls[c].pc = "submit"
  BY DEF Inv, TypeOK, Placed, Submitted
<1>2. x \in Knowledge /\ calls[c].gate > 0 /\ calls[c].gate \in Nat
  BY <1>1 DEF Sound, Backed, Call
<1>3. /\ r \in Call /\ Named(r) /\ Becomes(c, r) /\ r.pc = "save"
      /\ r.cand = x /\ r.seen = calls[c].seen /\ r.next = calls[c].next
      /\ r.life = calls[c].life
  <2>1. "save" \in Pc BY DEF Pc
  <2> QED BY <1>1, <2>1, Goes DEF Submitted
<1>4. intake' = [intake EXCEPT ![x] = calls[c].gate] /\ intake \in [Candidates -> Nat]
  BY <1>1 DEF Submitted, Submit, TypeOK, LedgerType
<1>5. /\ LedgerType' /\ tasks' = tasks /\ succeeded' = succeeded
      /\ intake'[x] > 0 /\ \A y \in Candidates : intake[y] > 0 => intake'[y] > 0
  BY <1>1, <1>2, <1>4 DEF Submitted, Submit, TypeOK, LedgerType
<1>6. Done(x, calls[c].seen.rev, tasks', intake') BY <1>2, <1>5 DEF Done
<1>7. calls[c].cand = x /\ Sound(calls[c], tasks', intake')
  BY <1>1, <1>5 DEF Sound, Backed, OfHost, Writing
<1> HIDE DEF r, x
<1>8. Sound(r, tasks', intake')
  BY <1>1, <1>3, <1>6, <1>7 DEF Sound, Fits, Fresh, Backed, Cleared, Plain, Holding, Writing,
                                OfHost
<1>9. tasks' \subseteq clicked /\ succeeded' \subseteq tasks' BY <1>5 DEF Inv
<1> QED BY <1>1, <1>3, <1>5, <1>8, <1>9, HostStep DEF Submitted

LEMMA RestartInv ==
  ASSUME Inv, HostRestarts
  PROVE  Inv'
<1>1. /\ \A c \in Callers : calls'[c] = Idle \/ calls'[c] = calls[c]
      /\ calls' = [c \in Callers |-> IF calls[c].pc \in OfHost THEN Idle ELSE calls[c]]
      /\ UNCHANGED <<locked, stored, rows, events, history, succeeded, tasks, gates, intake>>
      /\ running' = {}
  BY DEF HostRestarts, Restart
<1>2. calls' \in [Callers -> Call] BY <1>1, Idles DEF Inv, TypeOK
<1>3. \A c \in Callers : Placed(c)'
  BY <1>1, Idles DEF Inv, TypeOK, Placed
<1>4. TypeOK' BY <1>1, <1>2, <1>3 DEF Inv, TypeOK, LedgerType, history
<1>5. ASSUME NEW c \in Callers PROVE Sound(calls[c], tasks, intake)'
  <2>1. Sound(calls'[c], tasks, intake)
    <3> HIDE DEF Sound
    <3> QED BY <1>1, SoundIdles DEF Inv
  <2> QED BY <1>1, <2>1 DEF Sound, Fits, Fresh, Backed, Done, Cleared, Plain, history
<1>6. AppliedIsReal' BY <1>1 DEF Inv, AppliedIsReal, history
<1>7. IsFiniteSet(clicked)' /\ Counted'
  BY <1>1 DEF Inv, Counted, Confirmable, Clicked, Open, history
<1>8. succeeded' \subseteq tasks' /\ tasks' \subseteq clicked'
  BY <1>1 DEF Inv, history
<1> QED BY <1>4, <1>5, <1>6, <1>7, <1>8 DEF Inv

-----------------------------------------------------------------------------
(* Steps that change the rows or the history.                               *)

LEMMA Smaller ==
  ASSUME NEW S, NEW T, IsFiniteSet(S), T \subseteq S
  PROVE  IsFiniteSet(T) /\ Cardinality(T) \in Nat /\ Cardinality(S) \in Nat
         /\ Cardinality(T) <= Cardinality(S)
BY FS_Subset, FS_CardinalityType

LEMMA OneMore ==
  ASSUME NEW S, NEW T, NEW x, IsFiniteSet(S), T \subseteq S \cup {x}
  PROVE  IsFiniteSet(T) /\ Cardinality(T) \in Nat /\ Cardinality(S) \in Nat
         /\ Cardinality(T) <= Cardinality(S) + 1
<1>1. Cardinality(S) \in Nat BY FS_CardinalityType
<1>2. /\ IsFiniteSet(S \cup {x})
      /\ Cardinality(S \cup {x}) = Cardinality(S) \/ Cardinality(S \cup {x}) = Cardinality(S) + 1
  BY FS_AddElement
<1>3. /\ IsFiniteSet(T) /\ Cardinality(T) \in Nat /\ Cardinality(S \cup {x}) \in Nat
      /\ Cardinality(T) <= Cardinality(S \cup {x})
  BY <1>2, Smaller
<1> QED BY <1>1, <1>2, <1>3

LEMMA Sets ==
  ASSUME IsFiniteSet(clicked), NEW x
  PROVE  /\ IsFiniteSet(Clicked(x)) /\ IsFiniteSet(Confirmable(x))
         /\ Cardinality(Clicked(x)) \in Nat /\ Cardinality(Confirmable(x)) \in Nat
         /\ Cardinality(Clicked(x)) <= Cardinality(Confirmable(x))
         /\ Cardinality(Confirmable(x)) <= Cardinality(Clicked(x)) + 1
<1>1. IsFiniteSet(Clicked(x)) BY FS_Subset DEF Clicked
<1>2. Confirmable(x) \subseteq Clicked(x) \cup {<<x, rows[x].rev>>} BY DEF Confirmable
<1>3. Clicked(x) \subseteq Confirmable(x) BY DEF Confirmable
<1> HIDE DEF Clicked, Confirmable
<1>4. IsFiniteSet(Confirmable(x)) /\ Cardinality(Confirmable(x)) <= Cardinality(Clicked(x)) + 1
  BY <1>1, <1>2, OneMore
<1> QED BY <1>1, <1>3, <1>4, Smaller

LEMMA ReviewInv ==
  ASSUME Inv, NEW c \in Callers, NEW x \in Candidates, NEW approved \in BOOLEAN,
         Review(c, x, approved)
  PROVE  Inv'
<1> DEFINE status == IF approved THEN "approved" ELSE "rejected"
<1>1. /\ status \in {"approved", "rejected", "revoked"} /\ rows[x].status \in Reviewable
      /\ rows[x].status \in Revocable /\ Decides(c, x, status)
  BY DEF Review, Reviewable, Revocable
<1> HIDE DEF status
<1> QED BY <1>1, DecidesInv

LEMMA RevokeInv ==
  ASSUME Inv, NEW c \in Callers, NEW x \in Candidates, Revoke(c, x)
  PROVE  Inv'
BY DecidesInv DEF Revoke

\* The owner confirms: what can be confirmed at once becomes what has been confirmed.
LEMMA ClickInv ==
  ASSUME Inv, NEW c \in Callers, NEW x \in Candidates, Click(c, x)
  PROVE  Inv'
<1> DEFINE r == [calls[c] EXCEPT !.pc = "read", !.cand = x, !.want = rows[x].rev]
           a == <<x, rows[x].rev>>
<1>1. /\ TypeOK /\ Sound(calls[c], tasks, intake) /\ calls[c] \in Call
      /\ events' \in 0 .. MaxEvents /\ rows[x].rev \in Nat /\ IsFiniteSet(clicked)
  BY Happening DEF Inv, TypeOK, Row, Click
<1>2. Becomes(c, r)
  <2>1. calls' = [calls EXCEPT ![c].pc = "read", ![c].cand = x, ![c].want = rows[x].rev]
    BY DEF Click
  <2> QED BY <1>1, <2>1 DEF Becomes, Call
<1>3. /\ r \in Call /\ Named(r) /\ r.pc = "read" /\ r.cand = x /\ r.life = calls[c].life
      /\ r.want = rows[x].rev
  <2>1. "read" \in Pc BY DEF Pc
  <2> QED BY <1>1, <2>1 DEF Call, Named
<1> HIDE DEF r
<1>4. /\ calls' \in [Callers -> Call] /\ calls'[c] = r
      /\ \A d \in Callers \ {c} : calls'[d] = calls[d]
      /\ \A d \in Callers : Placed(d)'
  BY <1>1, <1>2, <1>3, Typed
<1>5. /\ clicked' = clicked \cup {a} /\ a \in Actions
      /\ UNCHANGED <<ledger, locked, stored, rows, removed, overtaken>>
  BY <1>1 DEF Click, Actions
<1>6. TypeOK'
  BY <1>1, <1>4, <1>5 DEF TypeOK, LedgerType, ledger
<1>7. ASSUME NEW d \in Callers PROVE Sound(calls[d], tasks, intake)'
  <2>1. CASE d = c
    BY <2>1, <1>1, <1>3, <1>4, <1>5
       DEF Sound, Fits, Fresh, Backed, Cleared, Plain, Holding, Writing, OfHost
  <2>2. CASE d # c
    <3>1. Sound(calls[d], tasks, intake) /\ calls'[d] = calls[d] BY <1>4, <2>2 DEF Inv
    <3> QED BY <3>1, <1>5 DEF Sound, Fits, Fresh, Backed, Done, Cleared, Plain, ledger
  <2> QED BY <2>1, <2>2
<1>8. AppliedIsReal' BY <1>5 DEF Inv, AppliedIsReal, ledger
<1>9. IsFiniteSet(clicked)' BY <1>1, <1>5, FS_AddElement
<1>10. ASSUME NEW y \in Candidates PROVE Confirmable(y)' = Confirmable(y) /\ Open(y)' = Open(y)
  BY <1>5 DEF Confirmable, Clicked, Open, Click
<1>11. Counted'
  BY <1>5, <1>10 DEF Inv, Counted
<1>12. succeeded' \subseteq tasks' /\ tasks' \subseteq clicked' BY <1>5 DEF Inv, ledger
<1> QED BY <1>6, <1>7, <1>8, <1>9, <1>11, <1>12 DEF Inv

\* Under one lock a save that is not counted replaces the very row its call has read.
LEMMA Replaces ==
  ASSUME Inv, locked, NEW c \in Callers, calls[c].pc \in Writing, ~Caught(c),
         Known(c) \/ rows[calls[c].cand] = calls[c].seen
  PROVE  rows[calls[c].cand] = calls[c].seen
<1> DEFINE x == calls[c].cand
<1>1. /\ x \in Candidates /\ rows[x].rev \in Nat /\ calls[c].seen.rev \in Nat
      /\ calls[c].next.rev \in Nat
  BY DEF Inv, TypeOK, Placed, Writing, Row, Call
<1>2. rows[x].rev < calls[c].next.rev BY <1>1 DEF Caught
<1>3. CASE Known(c)
  <2>1. calls[c].next.rev = calls[c].seen.rev + 1
    BY <1>3 DEF Known, Inv, Sound, Fits, Holding
  <2>2. /\ rows[x].rev >= calls[c].seen.rev
        /\ rows[x].rev = calls[c].seen.rev => rows[x] = calls[c].seen
    BY <1>3 DEF Known, Inv, Sound, Fresh, Holding
  <2> QED BY <1>1, <1>2, <2>1, <2>2
<1> QED BY <1>3

LEMMA WrittenCounted ==
  ASSUME Inv, locked, NEW c \in Callers, calls[c].pc \in Writing, ~Caught(c), Written(c)
  PROVE  \A y \in Candidates :
           Cardinality(Confirmable(y))' + Open(y)' <= 1 + removed' + overtaken'[y]
<1>0. PICK x \in Candidates, n \in Row : x = calls[c].cand /\ n = calls[c].next
  BY DEF Inv, TypeOK, Placed, Writing, Call
<1>1. /\ TypeOK /\ IsFiniteSet(clicked) /\ removed \in Nat
      /\ \A y \in Candidates : overtaken[y] \in Nat /\ rows[y] \in Row
  BY DEF Inv, TypeOK
<1>2. /\ rows' = [rows EXCEPT ![x] = n] /\ UNCHANGED <<removed, clicked>>
      /\ rows'[x] = n /\ \A y \in Candidates \ {x} : rows'[y] = rows[y]
  BY <1>0, <1>1 DEF Written, TypeOK
<1>3. \A y \in Candidates : Clicked(y)' = Clicked(y) BY <1>2 DEF Clicked
<1>4. /\ \A y \in Candidates : overtaken'[y] \in Nat /\ overtaken'[y] >= overtaken[y]
      /\ \/ overtaken'[x] = overtaken[x] + 1
         \/ Known(c) \/ rows[x] = calls[c].seen
  BY <1>0, <1>1 DEF Written, TypeOK
<1>5. \A y \in Candidates : Cardinality(Confirmable(y)) + Open(y) <= 1 + removed + overtaken[y]
  BY DEF Inv, Counted
<1>6. \A y \in Candidates : Open(y) \in {0, 1} /\ Open(y)' \in {0, 1} BY DEF Open
<1>7. Fits(calls[c]) BY DEF Inv, Sound
<1>8. ASSUME NEW y \in Candidates, y # x
      PROVE  Cardinality(Confirmable(y))' + Open(y)' <= 1 + removed' + overtaken'[y]
  <2>1. Confirmable(y)' = Confirmable(y) /\ Open(y)' = Open(y)
    BY <1>2, <1>3, <1>8 DEF Confirmable, Open
  <2>2. Cardinality(Confirmable(y)) \in Nat BY <1>1, Sets
  <2> HIDE DEF Confirmable, Open
  <2> QED BY <1>1, <1>2, <1>4, <1>5, <1>6, <2>1, <2>2
<1>9. Cardinality(Confirmable(x))' + Open(x)' <= 1 + removed' + overtaken'[x]
  <2>1. /\ Cardinality(Clicked(x)) \in Nat /\ Cardinality(Confirmable(x)) \in Nat
        /\ Cardinality(Clicked(x)) <= Cardinality(Confirmable(x))
        /\ IsFiniteSet(Clicked(x))
    BY <1>1, Sets
  <2>2. ASSUME n.status = "approved"
        PROVE  /\ Cardinality(Confirmable(x))' \in Nat
               /\ Cardinality(Confirmable(x))' <= Cardinality(Clicked(x)) + 1 /\ Open(x)' = 0
    <3>1. Confirmable(x)' \subseteq Clicked(x) \cup {<<x, n.rev>>}
      BY <1>1, <1>2, <1>3 DEF Confirmable
    <3>2. Open(x)' = 0 BY <1>2, <2>2 DEF Open
    <3> HIDE DEF Confirmable, Clicked
    <3> QED BY <2>1, <3>1, <3>2, OneMore
  <2>3. ASSUME n.status # "approved"
        PROVE  Cardinality(Confirmable(x))' = Cardinality(Clicked(x))
    <3>1. Confirmable(x)' = Clicked(x) BY <1>1, <1>2, <1>3, <2>3 DEF Confirmable
    <3> HIDE DEF Confirmable, Clicked
    <3> QED BY <3>1
  <2>4. CASE overtaken'[x] = overtaken[x] + 1
    <3> HIDE DEF Confirmable, Clicked, Open
    <3>1. Cardinality(Confirmable(x)) + Open(x) <= 1 + removed + overtaken[x] /\ removed' = removed
          /\ Open(x) \in {0, 1} /\ Open(x)' \in {0, 1} /\ overtaken[x] \in Nat
      BY <1>1, <1>2, <1>5, <1>6
    <3> QED BY <1>1, <2>1, <2>2, <2>3, <2>4, <3>1
  <2>5. CASE overtaken'[x] # overtaken[x] + 1
    <3>1. rows[x] = calls[c].seen BY <1>0, <1>4, <2>5, Replaces
    <3>2. n.status \in {"approved", "rejected", "proposed"} => Open(x) = 1
      BY <1>0, <1>7, <3>1 DEF Fits, Holding, Open, Reviewable, NoRow
    <3>3. n.status \in {"revoked", "applied"} => Open(x)' = 0
      BY <1>2 DEF Open
    <3>4. n.status # "none" /\ n.status \in Status BY <1>0, <1>7 DEF Fits, Holding, Row
    <3> HIDE DEF Confirmable, Clicked, Open
    <3>5. Cardinality(Confirmable(x)) + Open(x) <= 1 + removed + overtaken[x] /\ removed' = removed
          /\ Open(x) \in {0, 1} /\ Open(x)' \in {0, 1} /\ overtaken[x] \in Nat
          /\ overtaken'[x] \in Nat /\ overtaken'[x] >= overtaken[x]
      BY <1>1, <1>2, <1>4, <1>5, <1>6
    <3>6. CASE n.status = "approved" BY <1>1, <2>1, <2>2, <3>2, <3>5, <3>6
    <3>7. CASE n.status \in {"rejected", "proposed"} BY <1>1, <2>1, <2>3, <3>2, <3>5, <3>7
    <3>8. CASE n.status \in {"revoked", "applied"} BY <1>1, <2>1, <2>3, <3>3, <3>5, <3>8
    <3> QED BY <3>4, <3>6, <3>7, <3>8 DEF Status
  <2> QED BY <2>4, <2>5
<1> QED BY <1>8, <1>9

LEMMA WrittenInv ==
  ASSUME Inv, NEW c \in Callers, calls[c].pc \in Writing, locked => ~Caught(c),
         Written(c), Saved(c), UNCHANGED <<ledger, locked, stored, events>>
  PROVE  Inv'
<1> DEFINE x == calls[c].cand
           n == calls[c].next
<1>1. /\ TypeOK /\ x \in Candidates /\ n \in Row /\ IsFiniteSet(clicked) /\ removed \in Nat
      /\ calls[c] \in Call /\ calls[c].todo \in [Candidates -> Nat]
      /\ \A y \in Candidates : overtaken[y] \in Nat /\ rows[y] \in Row
  BY DEF Inv, TypeOK, Placed, Writing, Call
<1>2. /\ rows' = [rows EXCEPT ![x] = n] /\ UNCHANGED <<removed, clicked>>
      /\ rows'[x] = n /\ \A y \in Candidates \ {x} : rows'[y] = rows[y]
  BY <1>1 DEF Written, TypeOK
<1>3. overtaken' \in [Candidates -> Nat]
  BY <1>1 DEF Written, TypeOK
<1>4. PICK r \in Call :
        Named(r) /\ Becomes(c, r) /\ r.pc \in {"idle", "propose"} /\ r.life = 0
  <2>1. CASE n.status = "proposed"
    <3>1. Becomes(c, [Idle EXCEPT !.pc = "propose", !.todo = calls[c].todo])
      BY <2>1 DEF Saved, Becomes
    <3> QED BY <1>1, <3>1, Idles
  <2>2. CASE n.status # "proposed"
    <3>1. Becomes(c, Idle) BY <2>2 DEF Saved, Stop, Becomes
    <3>2. Idle.life = 0 BY DEF Idle
    <3> QED BY <3>1, <3>2, Idles
  <2> QED BY <2>1, <2>2
<1>5. /\ calls' \in [Callers -> Call] /\ calls'[c] = r
      /\ \A d \in Callers \ {c} : calls'[d] = calls[d]
      /\ \A d \in Callers : Placed(d)'
  BY <1>1, <1>4, Typed
<1>6. TypeOK'
  BY <1>1, <1>2, <1>3, <1>5 DEF TypeOK, LedgerType, ledger
<1>7. ASSUME NEW d \in Callers PROVE Sound(calls[d], tasks, intake)'
  <2>1. CASE d = c
    BY <2>1, <1>1, <1>2, <1>4, <1>5
       DEF Sound, Fits, Fresh, Backed, Cleared, Plain, Holding, Writing, OfHost
  <2>2. CASE d # c
    <3>1. Sound(calls[d], tasks, intake) /\ calls'[d] = calls[d] /\ calls[d] \in Call
      BY <1>5, <2>2 DEF Inv, TypeOK
    <3>2. calls[d].pc \in Holding => calls[d].cand \in Candidates
      BY DEF Inv, TypeOK, Placed, Holding, Writing, OfHost
    <3>3. calls[d].seen.rev \in Nat /\ rows[x].rev \in Nat /\ n.rev \in Nat
      BY <1>1, <3>1 DEF Call, Row
    <3>4. locked => n.rev > rows[x].rev BY <3>3 DEF Caught
    <3>5. Fresh(calls[d])'
      <4>1. CASE calls[d].pc \in Holding /\ calls[d].cand = x
        BY <1>2, <3>1, <3>3, <3>4, <4>1 DEF Sound, Fresh
      <4>2. CASE ~(calls[d].pc \in Holding /\ calls[d].cand = x)
        BY <1>2, <3>1, <3>2, <4>2 DEF Sound, Fresh
      <4> QED BY <4>1, <4>2
    <3> QED BY <1>2, <3>1, <3>5 DEF Sound, Fits, Backed, Done, Cleared, Plain, ledger
  <2> QED BY <2>1, <2>2
<1>8. AppliedIsReal'
  <2>1. ASSUME n.status = "applied"
        PROVE  IF x \in Knowledge THEN intake[x] > 0 ELSE <<x, n.rev - 1>> \in tasks
    <3>1. Done(x, calls[c].seen.rev, tasks, intake) BY <2>1 DEF Inv, Sound, Backed
    <3>2. n.rev = calls[c].seen.rev + 1 /\ calls[c].seen.rev \in Nat
      BY <1>1, <2>1 DEF Inv, Sound, Fits, Holding, Call, Row
    <3>3. n.rev - 1 = calls[c].seen.rev BY <3>2
    <3> QED BY <3>1, <3>3 DEF Done
  <2> QED BY <1>2, <2>1 DEF Inv, AppliedIsReal, ledger
<1>9. Counted' BY WrittenCounted DEF Counted
<1>10. succeeded' \subseteq tasks' /\ tasks' \subseteq clicked' /\ IsFiniteSet(clicked)'
  BY <1>1, <1>2 DEF Inv, ledger
<1> QED BY <1>6, <1>7, <1>8, <1>9, <1>10 DEF Inv

LEMMA SaveInv ==
  ASSUME Inv, NEW c \in Callers, Save(c)
  PROVE  Inv'
<1>1. events' \in 0 .. MaxEvents /\ calls[c].pc \in Writing
  BY DEF Inv, TypeOK, Save, Writing
<1> QED BY <1>1, StopStep, WrittenInv DEF Save

LEMMA UpdateInv ==
  ASSUME Inv, NEW c \in Callers, Update(c)
  PROVE  Inv'
<1>1. /\ events' \in 0 .. MaxEvents /\ calls[c].pc \in Writing /\ ~locked /\ TypeOK
      /\ calls[c].todo \in [Candidates -> Nat]
  BY DEF Inv, TypeOK, Call, Update, Writing, Sound, Plain
<1>2. CASE Saved(c) /\ UNCHANGED <<rows, history>>
  <2>1. CASE calls[c].next.status = "proposed"
    <3>1. Becomes(c, [Idle EXCEPT !.pc = "propose", !.todo = calls[c].todo])
      BY <1>2, <2>1 DEF Saved, Becomes
    <3>2. Sound([Idle EXCEPT !.pc = "propose", !.todo = calls[c].todo], tasks, intake)
      BY <1>1, SoundIdles
    <3> HIDE DEF Sound, Becomes
    <3> QED BY <1>1, <1>2, <3>1, <3>2, Idles, OwnStep DEF Update
  <2>2. CASE calls[c].next.status # "proposed"
    BY <1>1, <1>2, <2>2, StopStep DEF Saved, Update
  <2> QED BY <2>1, <2>2
<1>3. CASE Stop(c) /\ UNCHANGED <<rows, history>>
  BY <1>1, <1>3, StopStep DEF Update
<1>4. CASE Written(c) /\ Saved(c)
  BY <1>1, <1>4, WrittenInv DEF Update
<1> QED BY <1>2, <1>3, <1>4 DEF Update

LEMMA InsertInv ==
  ASSUME Inv, NEW c \in Callers, Insert(c)
  PROVE  Inv'
<1>1. events' \in 0 .. MaxEvents /\ calls[c].pc \in Writing /\ ~locked
  BY DEF Inv, TypeOK, Insert, Writing, Sound, Plain
<1> QED BY <1>1, StopStep, WrittenInv DEF Insert

LEMMA DeleteInv ==
  ASSUME Inv, DeleteMessage
  PROVE  Inv'
<1>1. /\ TypeOK /\ removed \in Nat /\ IsFiniteSet(clicked)
      /\ rows' = [x \in Candidates |-> NoRow] /\ removed' = removed + 1 /\ stored' = FALSE
      /\ UNCHANGED <<ledger, locked, calls, overtaken, clicked>> /\ events' \in 0 .. MaxEvents
  BY Happening DEF Inv, TypeOK, DeleteMessage
<1>2. NoRow \in Row /\ NoRow.status = "none" BY DEF NoRow, Row, Status
<1>3. TypeOK'
  <2>1. \A c \in Callers : Placed(c)' BY <1>1 DEF TypeOK, Placed
  <2>2. LedgerType' BY <1>1 DEF TypeOK, LedgerType, ledger
  <2>3. rows' \in [Candidates -> Row] /\ removed' \in Nat BY <1>1, <1>2
  <2> QED BY <1>1, <2>1, <2>2, <2>3 DEF TypeOK
<1>4. ASSUME NEW c \in Callers PROVE Sound(calls[c], tasks, intake)'
  <2>1. Sound(calls[c], tasks, intake) /\ calls[c].life \in Nat BY DEF Inv, TypeOK, Call
  <2>2. Fresh(calls[c])' BY <1>1, <2>1 DEF Sound, Fresh
  <2> QED BY <1>1, <2>1, <2>2 DEF Sound, Fits, Backed, Done, Cleared, Plain, ledger
<1>5. AppliedIsReal' BY <1>1, <1>2 DEF AppliedIsReal
<1>6. ASSUME locked, NEW x \in Candidates
      PROVE  Cardinality(Confirmable(x))' + Open(x)' <= 1 + removed' + overtaken'[x]
  <2>1. Confirmable(x)' = Clicked(x) /\ Open(x)' = 1
    BY <1>1, <1>2 DEF Confirmable, Clicked, Open
  <2>2. /\ Cardinality(Clicked(x)) \in Nat /\ Cardinality(Confirmable(x)) \in Nat
        /\ Cardinality(Clicked(x)) <= Cardinality(Confirmable(x))
    BY <1>1, Sets
  <2>3. /\ Cardinality(Confirmable(x)) + Open(x) <= 1 + removed + overtaken[x]
        /\ Open(x) \in {0, 1} /\ overtaken[x] \in Nat /\ overtaken'[x] = overtaken[x]
    BY <1>1, <1>6 DEF Inv, Counted, Open, TypeOK
  <2> HIDE DEF Confirmable, Clicked, Open
  <2> QED BY <1>1, <2>1, <2>2, <2>3
<1>7. Counted' BY <1>1, <1>6 DEF Counted
<1>8. succeeded' \subseteq tasks' /\ tasks' \subseteq clicked' /\ IsFiniteSet(clicked)'
  BY <1>1 DEF Inv, ledger
<1> QED BY <1>3, <1>4, <1>5, <1>7, <1>8 DEF Inv

LEMMA ReturnsInv ==
  ASSUME Inv, MessageReturns
  PROVE  Inv'
<1>1. /\ stored' = TRUE /\ UNCHANGED <<ledger, locked, rows, calls, events, history>>
  BY DEF MessageReturns
<1>2. TypeOK' BY <1>1 DEF Inv, TypeOK, LedgerType, Placed, ledger, history
<1>3. \A c \in Callers : Sound(calls[c], tasks, intake)'
  BY <1>1 DEF Inv, Sound, Fits, Fresh, Backed, Done, Cleared, Plain, ledger, history
<1>4. AppliedIsReal' BY <1>1 DEF Inv, AppliedIsReal, ledger
<1>5. Counted' /\ IsFiniteSet(clicked)'
  BY <1>1 DEF Inv, Counted, Confirmable, Clicked, Open, history
<1>6. succeeded' \subseteq tasks' /\ tasks' \subseteq clicked' BY <1>1 DEF Inv, ledger, history
<1> QED BY <1>2, <1>3, <1>4, <1>5, <1>6 DEF Inv

-----------------------------------------------------------------------------
(* Theorems                                                                 *)

LEMMA InitInv == Init => Inv
<1> SUFFICES ASSUME Init PROVE Inv OBVIOUS
<1>1. /\ \A x \in Candidates : rows[x] \in Found
      /\ rows \in [Candidates -> Row] /\ Nothing \in [Candidates -> Nat]
  <2>1. Found \subseteq Row BY DEF Found, NoRow, Row, Status
  <2> QED BY <2>1 DEF Init, Nothing
<1>2. calls = [c \in Callers |-> Idle] /\ clicked = {} /\ removed = 0 /\ overtaken = Nothing
  BY DEF Init
<1>3. TypeOK
  <2>1. \A c \in Callers : Placed(c) BY <1>2, Idles DEF Placed
  <2>2. LedgerType BY DEF Init, LedgerInit, LedgerType
  <2>3. events \in 0 .. MaxEvents BY CallerAssumption DEF Init
  <2>4. calls \in [Callers -> Call] BY <1>2, Idles
  <2> HIDE DEF LedgerType
  <2> QED BY <1>1, <1>2, <2>1, <2>2, <2>3, <2>4 DEF Init, TypeOK
<1>4. \A c \in Callers : Sound(calls[c], tasks, intake) BY <1>2, <1>3, SoundIdles
<1>5. AppliedIsReal BY <1>1 DEF AppliedIsReal, Found, NoRow
<1>6. succeeded \subseteq tasks /\ tasks \subseteq clicked /\ IsFiniteSet(clicked)
  BY <1>2, FS_EmptySet DEF Init, LedgerInit
<1>7. ASSUME NEW x \in Candidates
      PROVE  Cardinality(Confirmable(x)) + Open(x) <= 1 + removed + overtaken[x]
  <2>1. Clicked(x) = {} BY <1>2 DEF Clicked
  <2>2. CASE rows[x].status = "approved"
    <3>1. Confirmable(x) = {<<x, rows[x].rev>>} /\ Open(x) = 0
      BY <2>1, <2>2 DEF Confirmable, Open
    <3>2. Cardinality(Confirmable(x)) = 1 BY <3>1, FS_Singleton
    <3> QED BY <1>2, <3>1, <3>2 DEF Nothing
  <2>3. CASE rows[x].status # "approved"
    <3>1. Confirmable(x) = {} /\ Open(x) \in {0, 1} BY <2>1, <2>3 DEF Confirmable, Open
    <3>2. Cardinality(Confirmable(x)) = 0 BY <3>1, FS_EmptySet
    <3> QED BY <1>2, <3>1, <3>2 DEF Nothing
  <2> QED BY <2>2, <2>3
<1>8. Counted BY <1>7 DEF Counted
<1> QED BY <1>3, <1>4, <1>5, <1>6, <1>8 DEF Inv

LEMMA ApplyInv ==
  ASSUME Inv, NEW c \in Callers, Apply(c)
  PROVE  Inv'
<1>1. CASE \E x \in Candidates : Click(c, x) BY <1>1, ClickInv
<1>2. CASE \E expired \in BOOLEAN : Verify(c, expired) BY <1>2, VerifyInv
<1>3. CASE \E answered \in BOOLEAN : Dispatch(c, answered) BY <1>3, DispatchInv
<1>4. CASE \/ Read(c) \/ Claimed(c) \/ DispatchRefused(c) \/ Completed(c) \/ Failed(c)
           \/ Evaluate(c) \/ Submitted(c) \/ SubmissionConflict(c)
  BY <1>4, ReadInv, ClaimedInv, RefusedInv, CompletedInv, FailedInv, EvaluateInv, SubmittedInv,
     EndsInv
<1> QED BY <1>1, <1>2, <1>3, <1>4 DEF Apply

LEMMA StepInv ==
  ASSUME Inv, NEW c \in Callers, Step(c)
  PROVE  Inv'
<1>1. CASE \E listed, new \in SUBSET Candidates :
             \E rank \in [new -> 1 .. Cardinality(new)] : List(c, listed, new, rank)
  BY <1>1, ListInv
<1>2. CASE \E x \in Candidates, approved \in BOOLEAN : Review(c, x, approved)
  BY <1>2, ReviewInv
<1>3. CASE \E x \in Candidates : Propose(c, x) \/ Revoke(c, x)
  BY <1>3, ProposeInv, RevokeInv
<1>4. CASE \/ Analyze(c) \/ Proposed(c) \/ Save(c) \/ Select(c) \/ Update(c) \/ Insert(c)
           \/ Apply(c) \/ GiveUp(c)
  BY <1>4, AnalyzeInv, EndsInv, SaveInv, SelectInv, UpdateInv, InsertInv, ApplyInv, GiveUpInv
<1> QED BY <1>1, <1>2, <1>3, <1>4 DEF Step

LEMMA StutterInv == Inv /\ UNCHANGED vars => Inv'
<1> SUFFICES ASSUME Inv, UNCHANGED vars PROVE Inv' OBVIOUS
<1>1. UNCHANGED <<ledger, locked, stored, rows, calls, events, history>> BY DEF vars
<1>2. TypeOK' BY <1>1 DEF Inv, TypeOK, LedgerType, Placed, ledger, history
<1>3. \A c \in Callers : Sound(calls[c], tasks, intake)'
  BY <1>1 DEF Inv, Sound, Fits, Fresh, Backed, Done, Cleared, Plain, ledger, history
<1>4. AppliedIsReal' BY <1>1 DEF Inv, AppliedIsReal, ledger
<1>5. Counted' /\ IsFiniteSet(clicked)'
  BY <1>1 DEF Inv, Counted, Confirmable, Clicked, Open, history
<1>6. succeeded' \subseteq tasks' /\ tasks' \subseteq clicked' BY <1>1 DEF Inv, ledger, history
<1> QED BY <1>2, <1>3, <1>4, <1>5, <1>6 DEF Inv

LEMMA Invariance == Spec => []Inv
<1>1. Inv /\ [Next]_vars => Inv'
  <2> HIDE DEF Inv
  <2> QED BY StepInv, DeleteInv, ReturnsInv, RestartInv, StutterInv DEF Next
<1> QED BY <1>1, InitInv, PTL DEF Spec

\* Every variable keeps its type: revisions stay natural numbers, and a request that has
\* left its entry points always names a candidate (the module MailCandidate as a whole).
THEOREM TypeCorrect == Spec => []TypeOK
<1>1. Inv => TypeOK BY DEF Inv
<1> QED BY <1>1, Invariance, PTL

\* Whatever repository is used, and however requests, lost answers, restarts of the host and
\* deletions interleave, apply_candidate writes "applied" only over something the host has
\* done for the revision that was approved.
THEOREM AppliedIsRealTheorem == Spec => []AppliedIsReal
<1>1. Inv => AppliedIsReal BY DEF Inv
<1> QED BY <1>1, Invariance, PTL

\* The host creates a task only for a revision whose approval the owner confirmed
\* (verify_confirmation and the approval the BFF issues).
THEOREM ConfirmedOnlyTheorem == Spec => []ConfirmedOnly
<1>1. Inv => ConfirmedOnly BY DEF Inv, ConfirmedOnly
<1> QED BY <1>1, Invariance, PTL

\* Under one lock (InMemoryMailRepository) a candidate becomes one task, and at most one
\* more for every deletion of its message and every counted save.
THEOREM AppliedOnceTheorem == Spec => []AppliedOnce
<1>1. Inv => AppliedOnce
  <2> SUFFICES ASSUME Inv, locked, NEW x \in Candidates
               PROVE  Cardinality({a \in tasks : a[1] = x}) <= 1 + removed + overtaken[x]
    BY DEF AppliedOnce
  <2> DEFINE T == {a \in tasks : a[1] = x}
  <2>1. T \subseteq Confirmable(x) BY DEF Inv, Confirmable, Clicked
  <2>2. /\ IsFiniteSet(Confirmable(x)) /\ Open(x) \in {0, 1}
        /\ removed \in Nat /\ overtaken[x] \in Nat
        /\ Cardinality(Confirmable(x)) + Open(x) <= 1 + removed + overtaken[x]
    BY Sets DEF Inv, Counted, Open, TypeOK
  <2> HIDE DEF T, Confirmable, Open
  <2>3. Cardinality(T) <= Cardinality(Confirmable(x)) /\ Cardinality(T) \in Nat
        /\ Cardinality(Confirmable(x)) \in Nat
    BY <2>1, <2>2, Smaller
  <2>4. Cardinality(T) <= 1 + removed + overtaken[x] BY <2>2, <2>3
  <2> QED BY <2>4 DEF T
<1> QED BY <1>1, Invariance, PTL

\* Under one lock a save replaces a decision that is final only if it is counted.
LEMMA FinalRow ==
  ASSUME Inv, locked, NEW c \in Callers, Save(c) \/ Update(c) \/ Insert(c), NEW x \in Candidates,
         rows[x].status \in {"applied", "revoked"}, rows'[x] # rows[x]
  PROVE  overtaken'[x] # overtaken[x]
<1>1. TypeOK /\ Sound(calls[c], tasks, intake) BY DEF Inv
<1>2. Save(c) /\ calls[c].pc \in Writing /\ ~Caught(c) /\ Written(c)
  BY <1>1 DEF Sound, Plain, Save, Update, Insert, Writing
<1>3. calls[c].cand = x BY <1>1, <1>2 DEF Written, TypeOK
<1>4. calls[c].seen # rows[x]
  BY <1>1, <1>2 DEF Sound, Fits, Holding, NoRow, Revocable
<1>5. ~Known(c) BY <1>2, <1>3, <1>4, Replaces
<1>6. overtaken' = [overtaken EXCEPT ![x] = @ + 1] /\ overtaken \in [Candidates -> Nat]
  BY <1>1, <1>2, <1>3, <1>4, <1>5 DEF Written, TypeOK
<1> QED BY <1>6

\* Under one lock what is applied or revoked stays so until the message is deleted, but for
\* the saves that are counted (save_candidate of InMemoryMailRepository).
THEOREM DecisionsStandTheorem == Spec => DecisionsStand
<1> DEFINE Stands == locked => \A x \in Candidates :
             rows[x].status \in {"applied", "revoked"} /\ rows'[x] # rows[x]
               => removed' # removed \/ overtaken'[x] # overtaken[x]
<1>1. Inv /\ [Next]_vars => Stands \/ UNCHANGED vars
  <2> SUFFICES ASSUME Inv, Next, locked, NEW x \in Candidates,
                      rows[x].status \in {"applied", "revoked"}, rows'[x] # rows[x]
               PROVE  removed' # removed \/ overtaken'[x] # overtaken[x]
    OBVIOUS
  <2>1. CASE DeleteMessage
    <3>1. removed' = removed + 1 /\ removed \in Nat BY <2>1 DEF DeleteMessage, Inv, TypeOK
    <3> QED BY <3>1
  <2>2. CASE MessageReturns \/ HostRestarts BY <2>2 DEF MessageReturns, HostRestarts
  <2>3. CASE \E c \in Callers : Step(c)
    <3>1. PICK c \in Callers : Step(c) BY <2>3
    <3>2. Save(c) \/ Update(c) \/ Insert(c)
      BY <3>1 DEF Step, Apply, Analyze, Proposed, List, Review, Revoke, Decides, Propose, Select,
                  GiveUp, Click, Read, Verify, Claimed, Dispatch, DispatchRefused, Completed,
                  Failed, Evaluate, Submitted, SubmissionConflict
    <3> QED BY <3>2, FinalRow
  <2> QED BY <2>1, <2>2, <2>3 DEF Next
<1> QED BY <1>1, Invariance, PTL DEF Spec, DecisionsStand

================================================================================
