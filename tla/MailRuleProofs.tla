---------------------------- MODULE MailRuleProofs ----------------------------
(***************************************************************************)
(* Theorems about MailRule: types, one call of the host per row created,    *)
(* the kill switch, and the limit of the window.                            *)
(*                                                                          *)
(* A row that is absent is worth one call of the host; a call at work on it *)
(* has taken that worth, and a deletion of the message gives another. So    *)
(* calls made, calls at work and the worth of the row never exceed one and  *)
(* the deletions. For the limit, the rows within the window and the calls   *)
(* that have counted them are bounded together.                             *)
(***************************************************************************)
EXTENDS MailRule, FiniteSetTheorems, TLAPS

Worth(k) == IF rows[k] = NoRow THEN 1 ELSE 0
AtWork(c, k) == calls[c].pc \in {"decide", "switch", "act"} /\ Key(c) = k
Working(k) == {c \in Callers : AtWork(c, k)}
Counted(c) == \/ calls[c].pc \in {"switch", "act"}
              \/ calls[c].pc = "save" /\ calls[c].result = "executed"
InFlight == {c \in Callers : Counted(c)}

Once == \A k \in Keys :
          acts[k] + Cardinality(Working(k)) + Worth(k) <= 1 + removed[Message(k)]
Bounded == /\ IsFiniteSet(recent)
           /\ Cardinality(recent) + Cardinality(InFlight)
                <= MaxPerWindow + Cardinality(Callers) - 1

Inv == TypeOK /\ Once /\ Bounded

-----------------------------------------------------------------------------
(* Sets of callers, and what a change of one call does to them.             *)

LEMMA Finite ==
  /\ Cardinality(Callers) \in Nat
  /\ \A k \in Keys : IsFiniteSet(Working(k)) /\ Cardinality(Working(k)) \in Nat
  /\ IsFiniteSet(InFlight) /\ Cardinality(InFlight) \in Nat
  /\ Cardinality(InFlight) <= Cardinality(Callers)
<1>1. IsFiniteSet(Callers) BY PartyAssumption
<1>2. InFlight \subseteq Callers /\ \A k \in Keys : Working(k) \subseteq Callers
  BY DEF InFlight, Working
<1> QED BY <1>1, <1>2, FS_Subset, FS_CardinalityType

LEMMA Smaller ==
  ASSUME NEW S, NEW T, IsFiniteSet(S), T \subseteq S
  PROVE  IsFiniteSet(T) /\ Cardinality(T) \in Nat /\ Cardinality(S) \in Nat
         /\ Cardinality(T) <= Cardinality(S)
BY FS_Subset, FS_CardinalityType

LEMMA Larger ==
  ASSUME NEW S, NEW T, NEW x, IsFiniteSet(S), T = S \cup {x}
  PROVE  IsFiniteSet(T) /\ Cardinality(T) \in Nat /\ Cardinality(S) \in Nat
         /\ Cardinality(T) <= Cardinality(S) + 1
<1>1. Cardinality(S) \in Nat BY FS_CardinalityType
<1>2. IsFiniteSet(T) /\ (Cardinality(T) = Cardinality(S) \/ Cardinality(T) = Cardinality(S) + 1)
  BY FS_AddElement
<1>3. Cardinality(T) \in Nat BY <1>2, FS_CardinalityType
<1> QED BY <1>1, <1>2, <1>3

\* What a step that calls no host, creates no row and writes no executed row preserves.
LEMMA Quiet ==
  ASSUME Inv, TypeOK', acts' = acts, removed' = removed,
         \A k \in Keys : rows'[k] = NoRow => rows[k] = NoRow,
         \A k \in Keys : Working(k)' \subseteq Working(k),
         recent' \subseteq recent, InFlight' \subseteq InFlight
  PROVE  Inv'
<1>1. Once'
  <2> SUFFICES ASSUME NEW k \in Keys
               PROVE  acts'[k] + Cardinality(Working(k)') + Worth(k)' <= 1 + removed'[Message(k)]
    BY DEF Once
  <2>1. IsFiniteSet(Working(k)) BY Finite
  <2>2. /\ Cardinality(Working(k)') \in Nat /\ Cardinality(Working(k)) \in Nat
        /\ Cardinality(Working(k)') <= Cardinality(Working(k))
    BY <2>1, Smaller
  <2>3. Worth(k) \in {0, 1} /\ Worth(k)' \in {0, 1} /\ Worth(k)' <= Worth(k)
    BY DEF Worth
  <2>4. acts[k] + Cardinality(Working(k)) + Worth(k) <= 1 + removed[Message(k)]
    BY DEF Inv, Once
  <2>5. acts[k] \in Nat /\ removed[Message(k)] \in Nat
    BY DEF Inv, TypeOK, Keys, Message
  <2> HIDE DEF Working, Worth
  <2> QED BY <2>2, <2>3, <2>4, <2>5
<1>2. Bounded'
  <2>1. IsFiniteSet(recent) /\ IsFiniteSet(InFlight) BY Finite DEF Inv, Bounded
  <2>2. /\ IsFiniteSet(recent') /\ Cardinality(recent') \in Nat /\ Cardinality(recent) \in Nat
        /\ Cardinality(recent') <= Cardinality(recent)
    BY <2>1, Smaller
  <2>3. /\ Cardinality(InFlight') \in Nat /\ Cardinality(InFlight) \in Nat
        /\ Cardinality(InFlight') <= Cardinality(InFlight)
    BY <2>1, Smaller
  <2>4. Cardinality(recent) + Cardinality(InFlight) <= MaxPerWindow + Cardinality(Callers) - 1
    BY DEF Inv, Bounded
  <2>5. MaxPerWindow \in Nat /\ Cardinality(Callers) \in Nat BY LimitAssumption, Finite
  <2> HIDE DEF InFlight
  <2> QED BY <2>2, <2>3, <2>4, <2>5 DEF Bounded
<1> QED BY <1>1, <1>2 DEF Inv

\* A call that stops or goes on to the next message.
LEMMA Idles == Idle \in Call /\ Idle.pc = "idle" /\ Idle.key = NoKey
<1>1. 1 \in Versions BY LimitAssumption DEF Versions
<1> QED BY <1>1 DEF Idle, Call, Pc, Status

LEMMA Leaves ==
  ASSUME TypeOK, NEW c \in Callers, Stop(c) \/ NextMessage(c)
  PROVE  /\ calls' \in [Callers -> Call]
         /\ calls'[c].pc \in {"idle", "fetch"}
         /\ \A d \in Callers \ {c} : calls'[d] = calls[d]
<1>1. CASE Stop(c) BY <1>1, Idles DEF TypeOK, Stop
<1>2. CASE NextMessage(c) /\ ~Stop(c)
  <2>1. calls' = [calls EXCEPT ![c].pc = "fetch", ![c].key = NoKey, ![c].rev = 0,
                               ![c].result = "none"]
    BY <1>2 DEF NextMessage
  <2>2. [calls[c] EXCEPT !.pc = "fetch", !.key = NoKey, !.rev = 0, !.result = "none"] \in Call
    <3>1. calls[c] \in Call BY DEF TypeOK
    <3>2. "fetch" \in Pc /\ "none" \in Status /\ 0 \in 0 .. 2 /\ NoKey \in Keys \cup {NoKey}
      BY DEF Pc, Status
    <3> QED BY <3>1, <3>2 DEF Call
  <2>3. calls' = [calls EXCEPT ![c] = [calls[c] EXCEPT !.pc = "fetch", !.key = NoKey,
                                                      !.rev = 0, !.result = "none"]]
    BY <2>1 DEF TypeOK
  <2>4. [calls[c] EXCEPT !.pc = "fetch", !.key = NoKey, !.rev = 0, !.result = "none"].pc = "fetch"
    BY DEF TypeOK, Call
  <2> QED BY <2>2, <2>3, <2>4 DEF TypeOK
<1> QED BY <1>1, <1>2

\* Where a call is after a change that only one call takes part in.
LEMMA OneLess ==
  ASSUME NEW c \in Callers, calls'[c].pc \notin {"decide", "switch", "act"},
         \A d \in Callers \ {c} : calls'[d] = calls[d]
  PROVE  \A k \in Keys : Working(k)' = Working(k) \ {c}
BY DEF Working, AtWork, Key

LEMMA OneUncounted ==
  ASSUME NEW c \in Callers, calls'[c].pc \notin {"switch", "act", "save"},
         \A d \in Callers \ {c} : calls'[d] = calls[d]
  PROVE  InFlight' = InFlight \ {c}
BY DEF InFlight, Counted

-----------------------------------------------------------------------------
(* Types.                                                                   *)

\* The row of a call and what an action makes of the call it is for.
Becomes(c, r) == calls' = [calls EXCEPT ![c] = r]

LEMMA Typed ==
  ASSUME TypeOK, NEW c \in Callers, NEW r \in Call, Becomes(c, r)
  PROVE  /\ calls' \in [Callers -> Call] /\ calls'[c] = r
         /\ \A d \in Callers \ {c} : calls'[d] = calls[d]
BY DEF TypeOK, Becomes

LEMMA RowTyped ==
  ASSUME TypeOK, NEW k \in Keys, NEW w \in Row, rows' = [rows EXCEPT ![k] = w]
  PROVE  rows' \in [Keys -> Row] /\ rows'[k] = w /\ \A l \in Keys \ {k} : rows'[l] = rows[l]
BY DEF TypeOK

\* What is left to show when only call c has changed.
LEMMA CallTypes ==
  ASSUME TypeOK, NEW c \in Callers, calls' \in [Callers -> Call],
         \A d \in Callers \ {c} : calls'[d] = calls[d],
         calls'[c].pc \notin {"idle", "fetch"} => calls'[c].key \in Keys,
         calls'[c].pc \in {"decide", "switch"} => calls'[c].rev = 1
  PROVE  \A d \in Callers : Placed(d)'
BY DEF TypeOK, Placed, Key

LEMMA StartTypes ==
  ASSUME TypeOK, NEW c \in Callers, NEW batch \in SUBSET Messages, NEW dry \in BOOLEAN,
         Start(c, batch, dry)
  PROVE  /\ TypeOK' /\ calls'[c].pc = "fetch"
         /\ \A d \in Callers \ {c} : calls'[d] = calls[d]
<1> DEFINE r == [calls[c] EXCEPT !.pc = "fetch", !.todo = batch, !.dry = dry,
                   !.version = rule.version, !.enabled = rule.enabled, !.granted = granted]
<1>1. calls[c] \in Call /\ rule.version \in Versions /\ rule.enabled \in BOOLEAN
      /\ granted \in BOOLEAN
  BY DEF TypeOK
<1>2. r \in Call /\ r.pc = "fetch" BY <1>1 DEF Call, Pc
<1>3. Becomes(c, r) BY <1>1 DEF Start, Becomes, Call
<1>4. /\ calls' \in [Callers -> Call] /\ calls'[c] = r
      /\ \A d \in Callers \ {c} : calls'[d] = calls[d]
  <2> HIDE DEF r
  <2> QED BY <1>2, <1>3, Typed
<1>5. calls'[c].pc = "fetch" BY <1>2, <1>4
<1>6. \A d \in Callers : Placed(d)'
  <2> HIDE DEF r
  <2> QED BY <1>4, <1>5, CallTypes
<1>7. events' \in 0 .. MaxEvents BY LimitAssumption DEF TypeOK, Start, Happens
<1> QED BY <1>4, <1>5, <1>6, <1>7 DEF TypeOK, Start, env

LEMMA FetchTypes ==
  ASSUME TypeOK, NEW c \in Callers, NEW m \in Messages, Fetch(c, m)
  PROVE  /\ TypeOK' /\ calls'[c].pc \in {"idle", "create"}
         /\ \A d \in Callers \ {c} : calls'[d] = calls[d]
<1>1. calls[c] \in Call BY DEF TypeOK
<1>2. CASE m \in stored
  <2> DEFINE k == <<calls[c].version, m, calls[c].dry>>
             r == [calls[c] EXCEPT !.pc = "create", !.todo = @ \ {m}, !.key = k]
  <2>1. k \in Keys BY <1>1 DEF Keys, Call
  <2>2. calls[c].todo \ {m} \in SUBSET Messages BY <1>1 DEF Call
  <2> HIDE DEF k
  <2>3. r \in Call /\ r.pc = "create" /\ r.key = k
    BY <1>1, <2>1, <2>2 DEF Call, Pc
  <2>4. Becomes(c, r)
    BY <1>1, <1>2 DEF Fetch, Becomes, Call, k
  <2>5. /\ calls' \in [Callers -> Call] /\ calls'[c] = r
        /\ \A d \in Callers \ {c} : calls'[d] = calls[d]
    <3> HIDE DEF r
    <3> QED BY <2>3, <2>4, Typed
  <2>6. calls'[c].pc = "create" /\ calls'[c].key \in Keys BY <2>1, <2>3, <2>5
  <2>7. \A d \in Callers : Placed(d)'
    <3> HIDE DEF r
    <3> QED BY <2>5, <2>6, CallTypes
  <2> QED BY <2>5, <2>6, <2>7 DEF TypeOK, Fetch, env
<1>3. CASE m \notin stored
  <2>1. Stop(c) BY <1>3 DEF Fetch
  <2>2. calls' = [calls EXCEPT ![c] = Idle] BY <2>1 DEF Stop
  <2>3. calls' \in [Callers -> Call] /\ calls'[c] = Idle
        /\ \A d \in Callers \ {c} : calls'[d] = calls[d]
    BY <2>2, Idles, Typed DEF Becomes
  <2>4. \A d \in Callers : Placed(d)'
    BY <2>3, Idles, CallTypes
  <2> QED BY <2>3, <2>4, Idles DEF TypeOK, Fetch, env
<1> QED BY <1>2, <1>3

LEMMA CreateTypes ==
  ASSUME TypeOK, NEW c \in Callers, Create(c)
  PROVE  /\ TypeOK' /\ \A d \in Callers \ {c} : calls'[d] = calls[d]
         /\ Key(c) \in Keys
         /\ \/ /\ rows[Key(c)] = NoRow /\ calls'[c].pc = "decide" /\ Key(c)' = Key(c)
               /\ rows'[Key(c)] # NoRow
               /\ \A k \in Keys \ {Key(c)} : rows'[k] = rows[k]
            \/ calls'[c].pc \in {"idle", "fetch"} /\ rows' = rows
<1>1. calls[c] \in Call /\ Key(c) \in Keys /\ calls[c].key = Key(c) BY DEF TypeOK, Placed, Create, Key
<1>2. CASE rows[Key(c)] = NoRow
  <2> DEFINE r == [calls[c] EXCEPT !.pc = "decide", !.rev = 1]
             w == [status |-> "proposed", rev |-> 1]
  <2>1. r \in Call /\ r.pc = "decide" /\ r.key = Key(c) /\ r.rev = 1
    <3>1. 1 \in 0 .. 2 /\ "decide" \in Pc BY DEF Pc
    <3> QED BY <1>1, <3>1 DEF Call
  <2>2. w \in Row /\ w # NoRow BY DEF Row, Status, NoRow
  <2>3. Becomes(c, r) BY <1>1, <1>2 DEF Create, Becomes, Call
  <2>4. rows' = [rows EXCEPT ![Key(c)] = w] BY <1>2 DEF Create
  <2> HIDE DEF r, w
  <2>5. /\ calls' \in [Callers -> Call] /\ calls'[c] = r
        /\ \A d \in Callers \ {c} : calls'[d] = calls[d]
    BY <2>1, <2>3, Typed
  <2>6. rows' \in [Keys -> Row] /\ rows'[Key(c)] = w
        /\ \A l \in Keys \ {Key(c)} : rows'[l] = rows[l]
    BY <1>1, <2>2, <2>4, RowTyped
  <2>7. \A d \in Callers : Placed(d)'
    BY <1>1, <2>1, <2>5, CallTypes
  <2>8. TypeOK' BY <2>5, <2>6, <2>7 DEF TypeOK, Create, env
  <2> QED BY <1>1, <1>2, <2>1, <2>2, <2>5, <2>6, <2>8 DEF Key
<1>3. CASE rows[Key(c)] # NoRow
  <2>1. NextMessage(c) /\ rows' = rows BY <1>3 DEF Create
  <2>2. /\ calls' \in [Callers -> Call] /\ calls'[c].pc \in {"idle", "fetch"}
        /\ \A d \in Callers \ {c} : calls'[d] = calls[d]
    BY <2>1, Leaves
  <2>3. \A d \in Callers : Placed(d)'
    BY <2>2, CallTypes
  <2> QED BY <1>1, <2>1, <2>2, <2>3 DEF TypeOK, Create, env
<1> QED BY <1>2, <1>3

LEMMA DecideTypes ==
  ASSUME TypeOK, NEW c \in Callers, NEW met \in BOOLEAN, Decide(c, met)
  PROVE  /\ TypeOK' /\ \A d \in Callers \ {c} : calls'[d] = calls[d]
         /\ Key(c)' = Key(c) /\ Key(c) \in Keys
         /\ \/ calls'[c].pc = "switch" /\ Within
            \/ calls'[c].pc = "save" /\ calls'[c].result # "executed"
<1>1. calls[c] \in Call /\ Key(c) \in Keys /\ calls[c].key = Key(c) BY DEF TypeOK, Placed, Decide, Key
<1>2. CASE Matches(c, met) /\ Authorized(c) /\ Within /\ ~calls[c].dry
  <2> DEFINE r == [calls[c] EXCEPT !.pc = "switch"]
  <2>0. calls[c].rev = 1 BY DEF TypeOK, Placed, Decide
  <2>1. r \in Call /\ r.pc = "switch" /\ r.key = Key(c) /\ r.rev = 1
    BY <1>1, <2>0 DEF Call, Pc
  <2>2. Becomes(c, r) BY <1>1, <1>2 DEF Decide, Goto, Becomes, Call
  <2> HIDE DEF r
  <2>3. /\ calls' \in [Callers -> Call] /\ calls'[c] = r
        /\ \A d \in Callers \ {c} : calls'[d] = calls[d]
    BY <2>1, <2>2, Typed
  <2>4. \A d \in Callers : Placed(d)'
    BY <1>1, <2>1, <2>3, CallTypes
  <2>5. TypeOK' BY <2>3, <2>4 DEF TypeOK, Decide, env
  <2> QED BY <1>1, <1>2, <2>1, <2>3, <2>5 DEF Key
<1>3. CASE ~(Matches(c, met) /\ Authorized(c) /\ Within /\ ~calls[c].dry)
  <2> DEFINE s == Results(c, met)
             r == [calls[c] EXCEPT !.pc = "save", !.result = s]
  <2>1. s \in Status \ {"executed"} BY DEF Results, Status
  <2>2. Becomes(c, r) BY <1>1, <1>3 DEF Decide, Becomes, Call
  <2> HIDE DEF s
  <2>3. r \in Call /\ r.pc = "save" /\ r.key = Key(c) /\ r.result = s
    BY <1>1, <2>1 DEF Call, Pc
  <2> HIDE DEF r
  <2>4. /\ calls' \in [Callers -> Call] /\ calls'[c] = r
        /\ \A d \in Callers \ {c} : calls'[d] = calls[d]
    BY <2>2, <2>3, Typed
  <2>5. \A d \in Callers : Placed(d)'
    BY <1>1, <2>3, <2>4, CallTypes
  <2>6. TypeOK' BY <2>4, <2>5 DEF TypeOK, Decide, env
  <2> QED BY <1>1, <2>1, <2>3, <2>4, <2>6 DEF Key
<1> QED BY <1>2, <1>3

LEMMA BlockedTypes ==
  ASSUME TypeOK, NEW c \in Callers, Blocked(c)
  PROVE  /\ TypeOK' /\ \A d \in Callers \ {c} : calls'[d] = calls[d]
         /\ Key(c)' = Key(c) /\ calls'[c].pc = "save" /\ calls'[c].result = "blocked"
<1> DEFINE r == [calls[c] EXCEPT !.pc = "save", !.result = "blocked"]
<1>1. calls[c] \in Call /\ Key(c) \in Keys /\ calls[c].key = Key(c) BY DEF TypeOK, Placed, Blocked, Key
<1>2. r \in Call /\ r.pc = "save" /\ r.key = Key(c) /\ r.result = "blocked"
  BY <1>1 DEF Call, Pc, Status
<1>3. Becomes(c, r) BY <1>1 DEF Blocked, Becomes, Call
<1> HIDE DEF r
<1>4. /\ calls' \in [Callers -> Call] /\ calls'[c] = r
      /\ \A d \in Callers \ {c} : calls'[d] = calls[d]
  BY <1>2, <1>3, Typed
<1>5. \A d \in Callers : Placed(d)'
  BY <1>1, <1>2, <1>4, CallTypes
<1>6. TypeOK' BY <1>4, <1>5 DEF TypeOK, Blocked, env
<1> QED BY <1>1, <1>2, <1>4, <1>6 DEF Key

LEMMA ActTypes ==
  ASSUME TypeOK, NEW c \in Callers, NEW result \in Status, Act(c, result)
  PROVE  /\ TypeOK' /\ \A d \in Callers \ {c} : calls'[d] = calls[d]
         /\ Key(c)' = Key(c) /\ Key(c) \in Keys /\ calls'[c].pc = "save"
<1> DEFINE r == [calls[c] EXCEPT !.pc = "save", !.result = result]
<1>1. calls[c] \in Call /\ Key(c) \in Keys /\ calls[c].key = Key(c) BY DEF TypeOK, Placed, Act, Key
<1>2. r \in Call /\ r.pc = "save" /\ r.key = Key(c)
  BY <1>1 DEF Call, Pc
<1>3. Becomes(c, r) BY <1>1 DEF Act, Becomes, Call
<1> HIDE DEF r
<1>4. /\ calls' \in [Callers -> Call] /\ calls'[c] = r
      /\ \A d \in Callers \ {c} : calls'[d] = calls[d]
  BY <1>2, <1>3, Typed
<1>5. \A d \in Callers : Placed(d)'
  BY <1>1, <1>2, <1>4, CallTypes
<1>6. acts' \in [Keys -> Nat] BY <1>1 DEF TypeOK, Act
<1>7. TypeOK' BY <1>4, <1>5, <1>6 DEF TypeOK, Act, env
<1> QED BY <1>1, <1>2, <1>4, <1>7 DEF Key

LEMMA Written ==
  ASSUME TypeOK, NEW c \in Callers, Key(c) \in Keys, NEW status \in Status, Saves(c, status)
  PROVE  /\ rows' \in [Keys -> Row] /\ rows'[Key(c)] # NoRow
         /\ \A l \in Keys \ {Key(c)} : rows'[l] = rows[l]
<1> DEFINE w == [status |-> status, rev |-> calls[c].rev + 1]
<1>1. calls[c].rev \in 0 .. 2 BY DEF TypeOK, Call
<1>2. w \in Row BY <1>1 DEF Row
<1>3. w.rev # NoRow.rev BY <1>1 DEF NoRow
<1>4. rows' = [rows EXCEPT ![Key(c)] = w] BY DEF Saves
<1> HIDE DEF w
<1>5. rows' \in [Keys -> Row] /\ rows'[Key(c)] = w /\ \A l \in Keys \ {Key(c)} : rows'[l] = rows[l]
  BY <1>2, <1>4, RowTyped
<1>6. w # NoRow BY <1>3
<1> QED BY <1>5, <1>6

LEMMA PassesTypes ==
  ASSUME TypeOK, NEW c \in Callers, Passes(c)
  PROVE  /\ TypeOK' /\ \A d \in Callers \ {c} : calls'[d] = calls[d]
         /\ \A k \in Keys : rows'[k] = NoRow => rows[k] = NoRow
         /\ \/ calls'[c].pc = "act" /\ Key(c)' = Key(c)
            \/ calls'[c].pc \in {"idle", "fetch"}
<1>1. calls[c] \in Call /\ Key(c) \in Keys /\ calls[c].key = Key(c) /\ calls[c].rev = 1
  BY DEF TypeOK, Placed, Passes, Key
<1>2. CASE SaveRefused(c)
  <2>1. Stop(c) /\ rows' = rows BY <1>2 DEF Passes
  <2>2. /\ calls' \in [Callers -> Call] /\ calls'[c].pc \in {"idle", "fetch"}
        /\ \A d \in Callers \ {c} : calls'[d] = calls[d]
    BY <2>1, Leaves
  <2>3. \A d \in Callers : Placed(d)' BY <2>2, CallTypes
  <2> QED BY <2>1, <2>2, <2>3 DEF TypeOK, Passes, env
<1>3. CASE ~SaveRefused(c)
  <2> DEFINE r == [calls[c] EXCEPT !.pc = "act", !.rev = 2]
  <2>1. r \in Call /\ r.pc = "act" /\ r.key = Key(c)
    <3>1. 2 \in 0 .. 2 /\ "act" \in Pc BY DEF Pc
    <3> QED BY <1>1, <3>1 DEF Call
  <2>2. Becomes(c, r)
    <3>1. calls' = [calls EXCEPT ![c].pc = "act", ![c].rev = @ + 1] BY <1>3 DEF Passes
    <3>2. 1 + 1 = 2 OBVIOUS
    <3> QED BY <1>1, <3>1, <3>2 DEF Becomes, Call
  <2>3. Saves(c, "allowed") /\ "allowed" \in Status BY <1>3 DEF Passes, Status
  <2> HIDE DEF r
  <2>4. /\ calls' \in [Callers -> Call] /\ calls'[c] = r
        /\ \A d \in Callers \ {c} : calls'[d] = calls[d]
    BY <2>1, <2>2, Typed
  <2>5. /\ rows' \in [Keys -> Row] /\ rows'[Key(c)] # NoRow
        /\ \A l \in Keys \ {Key(c)} : rows'[l] = rows[l]
    BY <1>1, <2>3, Written
  <2>6. \A d \in Callers : Placed(d)' BY <1>1, <2>1, <2>4, CallTypes
  <2>7. TypeOK' BY <2>4, <2>5, <2>6 DEF TypeOK, Passes, env
  <2> QED BY <1>1, <2>1, <2>4, <2>5, <2>7 DEF Key
<1> QED BY <1>2, <1>3

LEMMA SaveTypes ==
  ASSUME TypeOK, NEW c \in Callers, Save(c)
  PROVE  /\ TypeOK' /\ \A d \in Callers \ {c} : calls'[d] = calls[d]
         /\ \A k \in Keys : rows'[k] = NoRow => rows[k] = NoRow
         /\ calls'[c].pc \in {"idle", "fetch"}
         /\ \/ recent' = recent
            \/ Counted(c) /\ recent' = recent \cup {Key(c)}
<1>1. calls[c] \in Call /\ Key(c) \in Keys /\ calls[c].result \in Status /\ calls[c].pc = "save"
  BY DEF TypeOK, Placed, Save, Key, Call
<1>2. CASE SaveRefused(c)
  <2>1. Stop(c) /\ rows' = rows /\ recent' = recent BY <1>2 DEF Save
  <2>2. /\ calls' \in [Callers -> Call] /\ calls'[c].pc \in {"idle", "fetch"}
        /\ \A d \in Callers \ {c} : calls'[d] = calls[d]
    BY <2>1, Leaves
  <2>3. \A d \in Callers : Placed(d)' BY <2>2, CallTypes
  <2> QED BY <2>1, <2>2, <2>3 DEF TypeOK, Save, env
<1>3. CASE ~SaveRefused(c)
  <2>1. /\ Saves(c, calls[c].result) /\ NextMessage(c)
        /\ recent' = IF calls[c].result = "executed" THEN recent \cup {Key(c)} ELSE recent
    BY <1>3 DEF Save
  <2>2. /\ calls' \in [Callers -> Call] /\ calls'[c].pc \in {"idle", "fetch"}
        /\ \A d \in Callers \ {c} : calls'[d] = calls[d]
    BY <2>1, Leaves
  <2>3. \A d \in Callers : Placed(d)' BY <2>2, CallTypes
  <2>4. /\ rows' \in [Keys -> Row] /\ rows'[Key(c)] # NoRow
        /\ \A l \in Keys \ {Key(c)} : rows'[l] = rows[l]
    BY <1>1, <2>1, Written
  <2>5. recent' \subseteq Keys BY <1>1, <2>1 DEF TypeOK
  <2>6. TypeOK' BY <2>2, <2>3, <2>4, <2>5 DEF TypeOK, Save, env
  <2> QED BY <1>1, <2>1, <2>2, <2>4, <2>6 DEF Counted
<1> QED BY <1>2, <1>3

LEMMA CrashTypes ==
  ASSUME TypeOK, NEW c \in Callers, Crash(c)
  PROVE  /\ TypeOK' /\ \A d \in Callers \ {c} : calls'[d] = calls[d]
         /\ calls'[c].pc \in {"idle", "fetch"}
<1>1. Stop(c) BY DEF Crash
<1>2. /\ calls' \in [Callers -> Call] /\ calls'[c].pc \in {"idle", "fetch"}
      /\ \A d \in Callers \ {c} : calls'[d] = calls[d]
  BY <1>1, Leaves
<1>3. \A d \in Callers : Placed(d)' BY <1>2, CallTypes
<1> QED BY <1>2, <1>3 DEF TypeOK, Crash, env

LEMMA WorldTypes ==
  ASSUME TypeOK, World
  PROVE  /\ TypeOK' /\ calls' = calls /\ acts' = acts /\ recent' \subseteq recent
         /\ \/ rows' = rows /\ removed' = removed
            \/ \E m \in Messages : DeleteMessage(m)
<1>1. events \in Nat /\ MaxEvents \in Nat /\ MaxVersion \in Nat /\ rule.version \in Versions
  BY LimitAssumption DEF TypeOK
<1>2. \A c \in Callers : calls' = calls => Placed(c)' BY DEF TypeOK, Placed, Key
<1>3. ASSUME NEW enabled \in BOOLEAN, Publish(enabled) PROVE TypeOK'
  <2>1. rule.version + 1 \in Versions BY <1>1, <1>3 DEF Publish, Versions
  <2>2. events' \in 0 .. MaxEvents BY <1>1, <1>3 DEF Publish, Happens, TypeOK
  <2> QED BY <1>2, <1>3, <2>1, <2>2 DEF Publish, TypeOK
<1>4. CASE Revoke
  <2>1. events' \in 0 .. MaxEvents BY <1>1, <1>4 DEF Revoke, Happens, TypeOK
  <2> QED BY <1>2, <1>4, <2>1 DEF Revoke, TypeOK
<1>5. CASE SwitchMoves
  <2>1. events' \in 0 .. MaxEvents BY <1>1, <1>5 DEF SwitchMoves, Happens, TypeOK
  <2> QED BY <1>2, <1>5, <2>1 DEF SwitchMoves, TypeOK
<1>6. ASSUME NEW m \in Messages, DeleteMessage(m)
      PROVE  TypeOK' /\ calls' = calls /\ acts' = acts /\ recent' \subseteq recent
  <2>1. events' \in 0 .. MaxEvents BY <1>1, <1>6 DEF DeleteMessage, Happens, TypeOK
  <2>2. removed' \in [Messages -> Nat] BY <1>6 DEF DeleteMessage, TypeOK
  <2>3. NoRow \in Row BY DEF NoRow, Row, Status
  <2>4. rows' \in [Keys -> Row] BY <1>6, <2>3 DEF DeleteMessage, TypeOK
  <2>5. recent' \subseteq recent BY <1>6 DEF DeleteMessage
  <2>6. env' = env /\ stored' \subseteq stored /\ calls' = calls /\ acts' = acts /\ leaked' = leaked
    BY <1>6 DEF DeleteMessage
  <2>7. \A c \in Callers : Placed(c)' BY <1>2, <2>6
  <2> QED BY <2>1, <2>2, <2>4, <2>5, <2>6, <2>7 DEF TypeOK, env
<1>7. ASSUME NEW m \in Messages, MessageReturns(m) PROVE TypeOK'
  BY <1>2, <1>7 DEF MessageReturns, TypeOK, env
<1>8. ASSUME NEW k \in Keys, LeavesWindow(k) PROVE TypeOK'
  BY <1>2, <1>8 DEF LeavesWindow, TypeOK, env
<1> QED
  BY <1>3, <1>4, <1>5, <1>6, <1>7, <1>8
     DEF World, Publish, Revoke, SwitchMoves, MessageReturns, LeavesWindow

-----------------------------------------------------------------------------
(* The invariant.                                                           *)

LEMMA InvInit == Init => Inv
<1> SUFFICES ASSUME Init PROVE Inv OBVIOUS
<1>1. TypeOK
  <2>1. NoRow \in Row /\ 1 \in Versions /\ MaxEvents \in Nat
    BY LimitAssumption DEF NoRow, Row, Status, Versions
  <2>2. \A c \in Callers : calls[c] = Idle BY DEF Init
  <2>3. \A c \in Callers : Placed(c) BY <2>2, Idles DEF Placed
  <2> QED BY <2>1, <2>2, <2>3, Idles DEF Init, TypeOK
<1>2. \A c \in Callers : calls[c].pc = "idle" BY Idles DEF Init
<1>3. InFlight = {} /\ \A k \in Keys : Working(k) = {}
  BY <1>2 DEF InFlight, Counted, Working, AtWork
<1>4. Once
  <2> SUFFICES ASSUME NEW k \in Keys
               PROVE  acts[k] + Cardinality(Working(k)) + Worth(k) <= 1 + removed[Message(k)]
    BY DEF Once
  <2>1. Cardinality(Working(k)) = 0 BY <1>3, FS_EmptySet
  <2>2. acts[k] = 0 /\ Worth(k) = 1 /\ removed[Message(k)] = 0
    BY DEF Init, Worth, Keys, Message
  <2> QED BY <2>1, <2>2
<1>5. Bounded
  <2>1. Cardinality(InFlight) = 0 /\ Cardinality(recent) = 0 /\ IsFiniteSet(recent)
    BY <1>3, FS_EmptySet DEF Init
  <2>2. MaxPerWindow \in Nat \ {0} /\ Cardinality(Callers) \in Nat BY LimitAssumption, Finite
  <2> QED BY <2>1, <2>2 DEF Bounded
<1> QED BY <1>1, <1>4, <1>5 DEF Inv

\* A call that goes on without a row or a result of its own, or ends.
LEMMA InvEnds ==
  ASSUME Inv, TypeOK', NEW c \in Callers, calls'[c].pc \in {"idle", "fetch", "create"},
         \A d \in Callers \ {c} : calls'[d] = calls[d],
         acts' = acts, removed' = removed, recent' = recent,
         \A k \in Keys : rows'[k] = NoRow => rows[k] = NoRow
  PROVE  Inv'
<1>1. \A k \in Keys : Working(k)' \subseteq Working(k) BY OneLess
<1>2. InFlight' \subseteq InFlight BY OneUncounted
<1> QED BY <1>1, <1>2, Quiet

\* A call that stays on its row and has not counted, or had already.
LEMMA InvStays ==
  ASSUME Inv, TypeOK', NEW c \in Callers, Key(c)' = Key(c),
         calls[c].pc \in {"decide", "switch"},
         Counted(c)' => Counted(c),
         \A d \in Callers \ {c} : calls'[d] = calls[d],
         acts' = acts, removed' = removed, recent' = recent,
         \A k \in Keys : rows'[k] = NoRow => rows[k] = NoRow
  PROVE  Inv'
<1>1. \A k \in Keys : Working(k)' \subseteq Working(k) BY DEF Working, AtWork, Key
<1>2. InFlight' \subseteq InFlight BY DEF InFlight, Counted
<1> QED BY <1>1, <1>2, Quiet

LEMMA InvCreate ==
  ASSUME Inv, NEW c \in Callers, Create(c)
  PROVE  Inv'
<1>1. TypeOK BY DEF Inv
<1>2. /\ TypeOK' /\ \A d \in Callers \ {c} : calls'[d] = calls[d]
      /\ Key(c) \in Keys
      /\ \/ /\ rows[Key(c)] = NoRow /\ calls'[c].pc = "decide" /\ Key(c)' = Key(c)
            /\ rows'[Key(c)] # NoRow
            /\ \A k \in Keys \ {Key(c)} : rows'[k] = rows[k]
         \/ calls'[c].pc \in {"idle", "fetch"} /\ rows' = rows
  BY <1>1, CreateTypes
<1>3. acts' = acts /\ removed' = removed /\ recent' = recent /\ calls[c].pc = "create"
  BY DEF Create
<1>4. CASE calls'[c].pc \in {"idle", "fetch"} /\ rows' = rows
  BY <1>2, <1>3, <1>4, InvEnds
<1>5. CASE /\ rows[Key(c)] = NoRow /\ calls'[c].pc = "decide" /\ Key(c)' = Key(c)
           /\ rows'[Key(c)] # NoRow
           /\ \A k \in Keys \ {Key(c)} : rows'[k] = rows[k]
  <2>1. InFlight' \subseteq InFlight BY <1>2, <1>5 DEF InFlight, Counted
  <2>2. Bounded'
    <3>1. Cardinality(InFlight') <= Cardinality(InFlight) /\ Cardinality(InFlight') \in Nat
          /\ Cardinality(InFlight) \in Nat
      BY <2>1, Finite, Smaller
    <3>2. /\ IsFiniteSet(recent) /\ Cardinality(recent) \in Nat
          /\ Cardinality(recent) + Cardinality(InFlight) <= MaxPerWindow + Cardinality(Callers) - 1
      BY FS_CardinalityType DEF Inv, Bounded
    <3>3. MaxPerWindow \in Nat /\ Cardinality(Callers) \in Nat BY LimitAssumption, Finite
    <3> HIDE DEF InFlight
    <3> QED BY <1>3, <3>1, <3>2, <3>3 DEF Bounded
  <2>3. Once'
    <3> SUFFICES ASSUME NEW k \in Keys
                 PROVE  acts'[k] + Cardinality(Working(k)') + Worth(k)' <= 1 + removed'[Message(k)]
      BY DEF Once
    <3>1. /\ acts[k] + Cardinality(Working(k)) + Worth(k) <= 1 + removed[Message(k)]
          /\ acts[k] \in Nat /\ removed[Message(k)] \in Nat
          /\ Cardinality(Working(k)) \in Nat /\ IsFiniteSet(Working(k))
      BY Finite DEF Inv, Once, TypeOK, Keys, Message
    <3>2. CASE k = Key(c)
      <4>1. Worth(k) = 1 /\ Worth(k)' = 0 BY <1>5, <3>2 DEF Worth
      <4>2. Working(k)' = Working(k) \cup {c}
        BY <1>2, <1>5, <3>2 DEF Working, AtWork, Key
      <4>3. Cardinality(Working(k)') <= Cardinality(Working(k)) + 1
            /\ Cardinality(Working(k)') \in Nat
        BY <3>1, <4>2, Larger
      <4> HIDE DEF Working, Worth
      <4> QED BY <1>3, <3>1, <4>1, <4>3
    <3>3. CASE k # Key(c)
      <4>1. Worth(k)' = Worth(k) /\ Worth(k) \in {0, 1} BY <1>5, <3>3 DEF Worth
      <4>2. Working(k)' \subseteq Working(k)
        BY <1>2, <1>5, <3>3 DEF Working, AtWork, Key
      <4>3. Cardinality(Working(k)') <= Cardinality(Working(k)) /\ Cardinality(Working(k)') \in Nat
        BY <3>1, <4>2, Smaller
      <4> HIDE DEF Working, Worth
      <4> QED BY <1>3, <3>1, <4>1, <4>3
    <3> QED BY <3>2, <3>3
  <2> QED BY <1>2, <2>2, <2>3 DEF Inv
<1> QED BY <1>2, <1>4, <1>5

LEMMA InvDecide ==
  ASSUME Inv, NEW c \in Callers, NEW met \in BOOLEAN, Decide(c, met)
  PROVE  Inv'
<1>1. TypeOK BY DEF Inv
<1>2. /\ TypeOK' /\ \A d \in Callers \ {c} : calls'[d] = calls[d]
      /\ Key(c)' = Key(c) /\ Key(c) \in Keys
      /\ \/ calls'[c].pc = "switch" /\ Within
         \/ calls'[c].pc = "save" /\ calls'[c].result # "executed"
  BY <1>1, DecideTypes
<1>3. /\ acts' = acts /\ removed' = removed /\ recent' = recent /\ rows' = rows
      /\ calls[c].pc = "decide"
  BY DEF Decide
<1>4. CASE calls'[c].pc = "save" /\ calls'[c].result # "executed"
  <2>1. ~Counted(c)' BY <1>4 DEF Counted
  <2> QED BY <1>2, <1>3, <2>1, InvStays
<1>5. CASE calls'[c].pc = "switch" /\ Within
  <2>1. \A k \in Keys : Working(k)' = Working(k)
    BY <1>2, <1>3, <1>5 DEF Working, AtWork, Key
  <2>2. Once' BY <1>3, <2>1 DEF Inv, Once, Worth
  <2>3. Bounded'
    <3>1. Cardinality(recent) < MaxPerWindow BY <1>5 DEF Within
    <3>2. IsFiniteSet(recent) /\ Cardinality(recent) \in Nat
      BY FS_CardinalityType DEF Inv, Bounded
    <3>3. InFlight' \subseteq Callers BY DEF InFlight
    <3>4. Cardinality(InFlight') \in Nat /\ Cardinality(InFlight') <= Cardinality(Callers)
          /\ Cardinality(Callers) \in Nat
      BY <3>3, PartyAssumption, Smaller
    <3>5. MaxPerWindow \in Nat BY LimitAssumption
    <3> HIDE DEF InFlight
    <3> QED BY <1>3, <3>1, <3>2, <3>4, <3>5 DEF Bounded
  <2> QED BY <1>2, <2>2, <2>3 DEF Inv
<1> QED BY <1>2, <1>4, <1>5

LEMMA InvAct ==
  ASSUME Inv, NEW c \in Callers, NEW result \in Status, Act(c, result)
  PROVE  Inv'
<1>1. TypeOK BY DEF Inv
<1>2. /\ TypeOK' /\ \A d \in Callers \ {c} : calls'[d] = calls[d]
      /\ Key(c)' = Key(c) /\ Key(c) \in Keys /\ calls'[c].pc = "save"
  BY <1>1, ActTypes
<1>3. /\ acts' = [acts EXCEPT ![Key(c)] = @ + 1] /\ removed' = removed /\ recent' = recent
      /\ rows' = rows /\ calls[c].pc = "act"
  BY DEF Act
<1>4. InFlight' \subseteq InFlight BY <1>2, <1>3 DEF InFlight, Counted
<1>5. Bounded'
  <2>1. Cardinality(InFlight') <= Cardinality(InFlight) /\ Cardinality(InFlight') \in Nat
        /\ Cardinality(InFlight) \in Nat
    BY <1>4, Finite, Smaller
  <2>2. /\ IsFiniteSet(recent) /\ Cardinality(recent) \in Nat
        /\ Cardinality(recent) + Cardinality(InFlight) <= MaxPerWindow + Cardinality(Callers) - 1
    BY FS_CardinalityType DEF Inv, Bounded
  <2>3. MaxPerWindow \in Nat /\ Cardinality(Callers) \in Nat BY LimitAssumption, Finite
  <2> HIDE DEF InFlight
  <2> QED BY <1>3, <2>1, <2>2, <2>3 DEF Bounded
<1>6. Once'
  <2> SUFFICES ASSUME NEW k \in Keys
               PROVE  acts'[k] + Cardinality(Working(k)') + Worth(k)' <= 1 + removed'[Message(k)]
    BY DEF Once
  <2>1. /\ acts[k] + Cardinality(Working(k)) + Worth(k) <= 1 + removed[Message(k)]
        /\ acts[k] \in Nat /\ removed[Message(k)] \in Nat
        /\ Cardinality(Working(k)) \in Nat /\ IsFiniteSet(Working(k))
    BY Finite DEF Inv, Once, TypeOK, Keys, Message
  <2>2. Working(k)' = Working(k) \ {c} BY <1>2, OneLess
  <2>3. Worth(k)' = Worth(k) /\ Worth(k) \in {0, 1} BY <1>3 DEF Worth
  <2>4. CASE k = Key(c)
    <3>1. c \in Working(k) BY <1>3, <2>4 DEF Working, AtWork
    <3>2. Cardinality(Working(k)') = Cardinality(Working(k)) - 1
      BY <2>1, <2>2, <3>1, FS_RemoveElement
    <3>3. acts'[k] = acts[k] + 1 BY <1>3, <2>4 DEF Inv, TypeOK
    <3> HIDE DEF Working, Worth
    <3> QED BY <1>3, <2>1, <2>3, <3>2, <3>3
  <2>5. CASE k # Key(c)
    <3>1. Cardinality(Working(k)') <= Cardinality(Working(k)) /\ Cardinality(Working(k)') \in Nat
      BY <2>1, <2>2, Smaller
    <3>2. acts'[k] = acts[k] BY <1>3, <2>5 DEF Inv, TypeOK
    <3> HIDE DEF Working, Worth
    <3> QED BY <1>3, <2>1, <2>3, <3>1, <3>2
  <2> QED BY <2>4, <2>5
<1> QED BY <1>2, <1>5, <1>6 DEF Inv

LEMMA InvSave ==
  ASSUME Inv, NEW c \in Callers, Save(c)
  PROVE  Inv'
<1>1. TypeOK BY DEF Inv
<1>2. /\ TypeOK' /\ \A d \in Callers \ {c} : calls'[d] = calls[d]
      /\ \A k \in Keys : rows'[k] = NoRow => rows[k] = NoRow
      /\ calls'[c].pc \in {"idle", "fetch"}
      /\ \/ recent' = recent
         \/ Counted(c) /\ recent' = recent \cup {Key(c)}
  BY <1>1, SaveTypes
<1>3. acts' = acts /\ removed' = removed BY DEF Save
<1>4. CASE recent' = recent BY <1>2, <1>3, <1>4, InvEnds
<1>5. CASE Counted(c) /\ recent' = recent \cup {Key(c)}
  <2>1. Once'
    <3> SUFFICES ASSUME NEW k \in Keys
                 PROVE  acts'[k] + Cardinality(Working(k)') + Worth(k)' <= 1 + removed'[Message(k)]
      BY DEF Once
    <3>1. /\ acts[k] + Cardinality(Working(k)) + Worth(k) <= 1 + removed[Message(k)]
          /\ acts[k] \in Nat /\ removed[Message(k)] \in Nat
          /\ Cardinality(Working(k)) \in Nat /\ IsFiniteSet(Working(k))
      BY Finite DEF Inv, Once, TypeOK, Keys, Message
    <3>2. Working(k)' = Working(k) \ {c} BY <1>2, OneLess
    <3>3. Cardinality(Working(k)') <= Cardinality(Working(k)) /\ Cardinality(Working(k)') \in Nat
      BY <3>1, <3>2, Smaller
    <3>4. Worth(k)' <= Worth(k) /\ Worth(k) \in {0, 1} /\ Worth(k)' \in {0, 1}
      BY <1>2 DEF Worth
    <3> HIDE DEF Working, Worth
    <3> QED BY <1>3, <3>1, <3>3, <3>4
  <2>2. Bounded'
    <3>1. InFlight' = InFlight \ {c} BY <1>2, OneUncounted
    <3>2. c \in InFlight /\ IsFiniteSet(InFlight) /\ Cardinality(InFlight) \in Nat
      BY <1>5, Finite DEF InFlight
    <3>3. Cardinality(InFlight') = Cardinality(InFlight) - 1
      BY <3>1, <3>2, FS_RemoveElement
    <3>4. /\ IsFiniteSet(recent) /\ Cardinality(recent) \in Nat
          /\ Cardinality(recent) + Cardinality(InFlight) <= MaxPerWindow + Cardinality(Callers) - 1
      BY FS_CardinalityType DEF Inv, Bounded
    <3>5. /\ IsFiniteSet(recent') /\ Cardinality(recent') \in Nat
          /\ Cardinality(recent') <= Cardinality(recent) + 1
      BY <1>5, <3>4, Larger
    <3>6. MaxPerWindow \in Nat /\ Cardinality(Callers) \in Nat BY LimitAssumption, Finite
    <3> HIDE DEF InFlight
    <3> QED BY <3>2, <3>3, <3>4, <3>5, <3>6 DEF Bounded
  <2> QED BY <1>2, <2>1, <2>2 DEF Inv
<1> QED BY <1>2, <1>4, <1>5

LEMMA InvWorld == Inv /\ World => Inv'
<1> SUFFICES ASSUME Inv, World PROVE Inv' OBVIOUS
<1>1. TypeOK BY DEF Inv
<1>2. /\ TypeOK' /\ calls' = calls /\ acts' = acts /\ recent' \subseteq recent
      /\ \/ rows' = rows /\ removed' = removed
         \/ \E m \in Messages : DeleteMessage(m)
  BY <1>1, WorldTypes
<1>3. InFlight' = InFlight /\ \A k \in Keys : Working(k)' = Working(k)
  BY <1>2 DEF InFlight, Counted, Working, AtWork, Key
<1>4. CASE rows' = rows /\ removed' = removed BY <1>2, <1>3, <1>4, Quiet
<1>5. ASSUME NEW m \in Messages, DeleteMessage(m) PROVE Inv'
  <2>1. Once'
    <3> SUFFICES ASSUME NEW k \in Keys
                 PROVE  acts'[k] + Cardinality(Working(k)') + Worth(k)' <= 1 + removed'[Message(k)]
      BY DEF Once
    <3>1. /\ acts[k] + Cardinality(Working(k)) + Worth(k) <= 1 + removed[Message(k)]
          /\ acts[k] \in Nat /\ removed[Message(k)] \in Nat /\ Message(k) \in Messages
          /\ Cardinality(Working(k)) \in Nat
      BY Finite DEF Inv, Once, TypeOK, Keys, Message
    <3>2. Worth(k) \in {0, 1} /\ Worth(k)' \in {0, 1} BY DEF Worth
    <3>3. /\ rows'[k] = IF Message(k) = m THEN NoRow ELSE rows[k]
          /\ removed'[Message(k)] = IF Message(k) = m THEN removed[Message(k)] + 1
                                                     ELSE removed[Message(k)]
      BY <1>1, <1>5, <3>1 DEF DeleteMessage, TypeOK
    <3>4. Message(k) # m => Worth(k)' = Worth(k) BY <3>3 DEF Worth
    <3> HIDE DEF Working, Worth
    <3> QED BY <1>2, <1>3, <3>1, <3>2, <3>3, <3>4
  <2>2. Bounded'
    <3>1. /\ IsFiniteSet(recent)
          /\ Cardinality(recent) + Cardinality(InFlight) <= MaxPerWindow + Cardinality(Callers) - 1
      BY DEF Inv, Bounded
    <3>2. /\ IsFiniteSet(recent') /\ Cardinality(recent') \in Nat /\ Cardinality(recent) \in Nat
          /\ Cardinality(recent') <= Cardinality(recent)
      BY <1>2, <3>1, Smaller
    <3>3. MaxPerWindow \in Nat /\ Cardinality(Callers) \in Nat /\ Cardinality(InFlight) \in Nat
      BY LimitAssumption, Finite
    <3> HIDE DEF InFlight
    <3> QED BY <1>3, <3>1, <3>2, <3>3 DEF Bounded
  <2> QED BY <1>2, <2>1, <2>2 DEF Inv
<1> QED BY <1>2, <1>4, <1>5

LEMMA InvStep ==
  ASSUME Inv, NEW c \in Callers, Step(c)
  PROVE  Inv'
<1>1. TypeOK BY DEF Inv
<1>2. ASSUME NEW batch \in SUBSET Messages, NEW dry \in BOOLEAN, Start(c, batch, dry) PROVE Inv'
  <2>1. /\ TypeOK' /\ calls'[c].pc = "fetch"
        /\ \A d \in Callers \ {c} : calls'[d] = calls[d]
    BY <1>1, <1>2, StartTypes
  <2>2. acts' = acts /\ removed' = removed /\ recent' = recent /\ rows' = rows
    BY <1>2 DEF Start
  <2> QED BY <2>1, <2>2, InvEnds
<1>3. ASSUME NEW m \in Messages, Fetch(c, m) PROVE Inv'
  <2>1. /\ TypeOK' /\ calls'[c].pc \in {"idle", "create"}
        /\ \A d \in Callers \ {c} : calls'[d] = calls[d]
    BY <1>1, <1>3, FetchTypes
  <2>2. acts' = acts /\ removed' = removed /\ recent' = recent /\ rows' = rows
    BY <1>3 DEF Fetch
  <2> QED BY <2>1, <2>2, InvEnds
<1>4. CASE Passes(c)
  <2>1. /\ TypeOK' /\ \A d \in Callers \ {c} : calls'[d] = calls[d]
        /\ \A k \in Keys : rows'[k] = NoRow => rows[k] = NoRow
        /\ \/ calls'[c].pc = "act" /\ Key(c)' = Key(c)
           \/ calls'[c].pc \in {"idle", "fetch"}
    BY <1>1, <1>4, PassesTypes
  <2>2. acts' = acts /\ removed' = removed /\ recent' = recent /\ calls[c].pc = "switch"
    BY <1>4 DEF Passes
  <2>3. Counted(c) BY <2>2 DEF Counted
  <2>4. CASE calls'[c].pc = "act" /\ Key(c)' = Key(c) BY <2>1, <2>2, <2>3, <2>4, InvStays
  <2>5. CASE calls'[c].pc \in {"idle", "fetch"} BY <2>1, <2>2, <2>5, InvEnds
  <2> QED BY <2>1, <2>4, <2>5
<1>5. CASE Blocked(c)
  <2>1. /\ TypeOK' /\ \A d \in Callers \ {c} : calls'[d] = calls[d]
        /\ Key(c)' = Key(c) /\ calls'[c].pc = "save" /\ calls'[c].result = "blocked"
    BY <1>1, <1>5, BlockedTypes
  <2>2. acts' = acts /\ removed' = removed /\ recent' = recent /\ rows' = rows
        /\ calls[c].pc = "switch"
    BY <1>5 DEF Blocked
  <2>3. ~Counted(c)' BY <2>1 DEF Counted
  <2> QED BY <2>1, <2>2, <2>3, InvStays
<1>6. CASE Crash(c)
  <2>1. /\ TypeOK' /\ \A d \in Callers \ {c} : calls'[d] = calls[d]
        /\ calls'[c].pc \in {"idle", "fetch"}
    BY <1>1, <1>6, CrashTypes
  <2>2. acts' = acts /\ removed' = removed /\ recent' = recent /\ rows' = rows
    BY <1>6 DEF Crash
  <2> QED BY <2>1, <2>2, InvEnds
<1> QED BY <1>2, <1>3, <1>4, <1>5, <1>6, InvCreate, InvDecide, InvAct, InvSave DEF Step

LEMMA InvNext == Inv /\ [Next]_vars => Inv'
<1> SUFFICES ASSUME Inv, [Next]_vars PROVE Inv' OBVIOUS
<1>1. CASE UNCHANGED vars
  <2>1. TypeOK' BY <1>1 DEF Inv, TypeOK, Placed, Key, vars, env
  <2>2. /\ acts' = acts /\ removed' = removed /\ rows' = rows /\ recent' = recent
        /\ calls' = calls
    BY <1>1 DEF vars, env
  <2>3. InFlight' = InFlight /\ \A k \in Keys : Working(k)' = Working(k)
    BY <2>2 DEF InFlight, Counted, Working, AtWork, Key
  <2> QED BY <2>1, <2>2, <2>3, Quiet
<1> QED BY <1>1, InvWorld, InvStep DEF Next

\* The invariant holds of every state of the specification.
THEOREM Invariance == Spec => []Inv
BY InvInit, InvNext, PTL DEF Spec

-----------------------------------------------------------------------------
(* The theorems of the module.                                              *)

\* TypeOK: rows, calls and counts of execute_rule keep their types.
THEOREM TypeCorrect == Spec => []TypeOK
<1>1. Inv => TypeOK BY DEF Inv
<1> QED BY <1>1, Invariance, PTL

\* ActsOnce: one version of a rule has the host act on a message at most once, and once
\* more for each deletion of the message, under any crashes, retries and concurrency.
THEOREM ActsOnceTheorem == Spec => []ActsOnce
<1>1. Inv => ActsOnce
  <2> SUFFICES ASSUME Inv, NEW k \in Keys PROVE acts[k] <= 1 + removed[Message(k)]
    BY DEF ActsOnce
  <2>1. /\ acts[k] + Cardinality(Working(k)) + Worth(k) <= 1 + removed[Message(k)]
        /\ acts[k] \in Nat /\ removed[Message(k)] \in Nat
        /\ Cardinality(Working(k)) \in Nat /\ Worth(k) \in {0, 1}
    BY Finite DEF Inv, Once, TypeOK, Keys, Message, Worth
  <2> HIDE DEF Working, Worth
  <2> QED BY <2>1
<1> QED BY <1>1, Invariance, PTL

\* LimitHolds: the hourly and daily limits of a rule are passed by no more than the
\* concurrent calls that counted before the others wrote.
THEOREM LimitHoldsTheorem == Spec => []LimitHolds
<1>1. Inv => LimitHolds
  <2> SUFFICES ASSUME Inv PROVE LimitHolds OBVIOUS
  <2>1. /\ IsFiniteSet(recent) /\ Cardinality(recent) \in Nat
        /\ Cardinality(recent) + Cardinality(InFlight) <= MaxPerWindow + Cardinality(Callers) - 1
    BY FS_CardinalityType DEF Inv, Bounded
  <2>2. /\ MaxPerWindow \in Nat /\ Cardinality(Callers) \in Nat /\ Cardinality(InFlight) \in Nat
    BY LimitAssumption, Finite
  <2> HIDE DEF InFlight
  <2> QED BY <2>1, <2>2 DEF LimitHolds
<1> QED BY <1>1, Invariance, PTL

\* What a call does about the switch: it comes to the host only while the switch lets
\* through, and once it has called the host it is no longer about to.
LEMMA StepAtSwitch ==
  ASSUME TypeOK, ClosedSwitchStops, NEW c \in Callers, Step(c)
  PROVE  ClosedSwitchStops'
<1>1. open' = open
  BY DEF Step, Start, Fetch, Create, Decide, Passes, Blocked, Act, Save, Crash, env
<1>2. /\ \A d \in Callers \ {c} : calls'[d] = calls[d]
      /\ leaked' = leaked \/ leaked' = leaked \cup {c}
      /\ calls'[c].pc = "act" => open
  <2>1. ASSUME NEW batch \in SUBSET Messages, NEW dry \in BOOLEAN, Start(c, batch, dry)
        PROVE  <1>2!1 /\ leaked' = leaked /\ calls'[c].pc # "act"
    BY <2>1, StartTypes DEF Start
  <2>2. ASSUME NEW m \in Messages, Fetch(c, m)
        PROVE  <1>2!1 /\ leaked' = leaked /\ calls'[c].pc # "act"
    BY <2>2, FetchTypes DEF Fetch
  <2>3. CASE Create(c) BY <2>3, CreateTypes DEF Create
  <2>4. ASSUME NEW met \in BOOLEAN, Decide(c, met)
        PROVE  <1>2!1 /\ leaked' = leaked /\ calls'[c].pc # "act"
    BY <2>4, DecideTypes DEF Decide
  <2>5. CASE Passes(c) BY <2>5, PassesTypes DEF Passes
  <2>6. CASE Blocked(c) BY <2>6, BlockedTypes DEF Blocked
  <2>7. ASSUME NEW result \in Status, Act(c, result)
        PROVE  <1>2!1 /\ leaked' = leaked \cup {c} /\ calls'[c].pc # "act"
    BY <2>7, ActTypes DEF Act
  <2>8. CASE Save(c) BY <2>8, SaveTypes DEF Save
  <2>9. CASE Crash(c) BY <2>9, CrashTypes DEF Crash
  <2> QED BY <2>1, <2>2, <2>3, <2>4, <2>5, <2>6, <2>7, <2>8, <2>9 DEF Step
<1>3. leaked \subseteq Callers BY DEF TypeOK
<1> QED BY <1>1, <1>2, <1>3 DEF ClosedSwitchStops

LEMMA WorldAtSwitch ==
  ASSUME TypeOK, ClosedSwitchStops, World
  PROVE  ClosedSwitchStops'
<1>1. CASE SwitchMoves BY <1>1 DEF SwitchMoves, ClosedSwitchStops
<1>2. ASSUME ~SwitchMoves PROVE open' = open /\ leaked' = leaked
  BY <1>2 DEF World, Publish, Revoke, DeleteMessage, MessageReturns, LeavesWindow, env
<1>3. calls' = calls BY WorldTypes
<1> QED BY <1>1, <1>2, <1>3 DEF ClosedSwitchStops

\* ClosedSwitchStops: after the kill switch closes a batch acts at most once more.
THEOREM ClosedSwitchStopsTheorem == Spec => []ClosedSwitchStops
<1>1. Init => ClosedSwitchStops BY DEF Init, ClosedSwitchStops
<1>2. TypeOK /\ ClosedSwitchStops /\ [Next]_vars => ClosedSwitchStops'
  <2>1. UNCHANGED vars /\ ClosedSwitchStops => ClosedSwitchStops'
    BY DEF ClosedSwitchStops, vars, env
  <2> QED BY <2>1, StepAtSwitch, WorldAtSwitch DEF Next
<1> QED BY <1>1, <1>2, TypeCorrect, PTL DEF Spec
================================================================================
