--------------------------- MODULE AutonomyRunProofs ---------------------------
(***************************************************************************)
(* Proofs about AutonomyRun and the MailQuota it uses, for any number of    *)
(* runs, executions, accounts and messages.                                 *)
(***************************************************************************)
EXTENDS AutonomyRun, FiniteSetTheorems, TLAPS

-----------------------------------------------------------------------------
(* The quota.                                                               *)

QuotaTyped ==
  /\ leases \in SUBSET Lease /\ stale \in SUBSET leases /\ used \in Nat
  /\ IsFiniteSet(leases)

QuotaInv == QuotaTyped /\ UsesBounded

LEMMA Limits ==
  /\ MaxConcurrent \in Nat \ {0} /\ MaxUses \in Nat \ {0}
  /\ Cardinality(Accounts) \in Nat
  /\ MaxConcurrent * Cardinality(Accounts) \in Nat
<1>1. MaxConcurrent \in Nat \ {0} /\ MaxUses \in Nat \ {0}
  BY LimitAssumption
<1>2. Cardinality(Accounts) \in Nat
  BY AccountAssumption, FS_CardinalityType
<1>. QED
  BY <1>1, <1>2

\* Accounts that each have few leases have few together: number the leases of each.
LEMMA FewLeases ==
  ASSUME NEW L \in SUBSET Lease, IsFiniteSet(L),
         \A a \in Accounts : Cardinality({l \in L : l.account = a}) <= MaxConcurrent
  PROVE  Cardinality(L) <= MaxConcurrent * Cardinality(Accounts)
<1> DEFINE Of(a) == {l \in L : l.account = a}
           T == Accounts \X (1 .. MaxConcurrent)
<1>1. \A a \in Accounts : \E f : f \in Injection(Of(a), 1 .. MaxConcurrent)
  <2> TAKE a \in Accounts
  <2>1. IsFiniteSet(Of(a)) /\ Cardinality(Of(a)) \in Nat
    BY FS_Subset, FS_CardinalityType
  <2>2. ExistsBijection(1 .. Cardinality(Of(a)), Of(a))
    BY <2>1, FS_CardinalityType
  <2>3. PICK g \in Bijection(1 .. Cardinality(Of(a)), Of(a)) : TRUE
    BY <2>2 DEF ExistsBijection
  <2> DEFINE f == [l \in Of(a) |-> CHOOSE i \in 1 .. Cardinality(Of(a)) : g[i] = l]
  <2>4. \A l \in Of(a) : f[l] \in 1 .. Cardinality(Of(a)) /\ g[f[l]] = l
    BY <2>3 DEF Bijection, Surjection
  <2>5. 1 .. Cardinality(Of(a)) \subseteq 1 .. MaxConcurrent
    BY <2>1, Limits
  <2>6. f \in [Of(a) -> 1 .. MaxConcurrent]
    BY <2>4, <2>5
  <2>7. \A k, l \in Of(a) : f[k] = f[l] => k = l
    BY <2>4
  <2> HIDE DEF f
  <2> QED
    BY <2>6, <2>7 DEF Injection, IsInjective
<1> DEFINE N(a) == CHOOSE f : f \in Injection(Of(a), 1 .. MaxConcurrent)
           h == [l \in L |-> <<l.account, N(l.account)[l]>>]
<1>2. \A l \in L : l.account \in Accounts /\ l \in Of(l.account)
  BY DEF Lease
<1>3. \A a \in Accounts : N(a) \in Injection(Of(a), 1 .. MaxConcurrent)
  BY <1>1
<1> HIDE DEF N, Of
<1>4. h \in [L -> T]
  BY <1>2, <1>3 DEF Injection, IsInjective
<1>5. ASSUME NEW k \in L, NEW l \in L, h[k] = h[l]
      PROVE  k = l
  <2>1. k.account = l.account /\ N(k.account)[k] = N(k.account)[l]
    BY <1>5
  <2> QED
    BY <2>1, <1>2, <1>3 DEF Injection, IsInjective
<1>6. h \in Injection(L, T)
  <2> HIDE DEF h, T
  <2> QED
    BY <1>4, <1>5 DEF Injection, IsInjective
<1>7. IsFiniteSet(1 .. MaxConcurrent) /\ Cardinality(1 .. MaxConcurrent) = MaxConcurrent
  <2>1. MaxConcurrent \in Int /\ 1 \in Int /\ ~(1 > MaxConcurrent) /\ MaxConcurrent - 1 + 1 = MaxConcurrent
    BY Limits
  <2> QED
    BY <2>1, FS_Interval
<1>8. IsFiniteSet(T) /\ Cardinality(T) = Cardinality(Accounts) * Cardinality(1 .. MaxConcurrent)
  BY <1>7, AccountAssumption, FS_Product
<1>9. Cardinality(L) <= Cardinality(T)
  BY <1>6, <1>8, FS_Injection
<1>. QED
  BY <1>7, <1>8, <1>9, Limits

\* Fewer leases, and no more uses than leases were given back.
LEMMA FewerLeases ==
  ASSUME QuotaInv, NEW D \in SUBSET leases, leases' = leases \ D,
         stale' \in SUBSET leases', used' \in Nat,
         used' + Cardinality(leases') <= used + Cardinality(leases)
  PROVE  QuotaInv'
<1>1. leases' \in SUBSET leases /\ IsFiniteSet(leases') /\ leases' \in SUBSET Lease
  BY FS_Subset DEF QuotaInv, QuotaTyped
<1>2. Cardinality(leases) \in Nat /\ Cardinality(leases') \in Nat
  BY <1>1, FS_CardinalityType DEF QuotaInv, QuotaTyped
<1>3. ASSUME NEW a \in Accounts
      PROVE  Cardinality({l \in leases' : l.account = a}) <= MaxConcurrent
  <2>1. {l \in leases' : l.account = a} \in SUBSET OfAccount(a)
    BY <1>1 DEF OfAccount
  <2>2. IsFiniteSet(OfAccount(a))
    BY FS_Subset DEF QuotaInv, QuotaTyped, OfAccount
  <2>3. Cardinality(OfAccount(a)) <= MaxConcurrent
    BY DEF QuotaInv, UsesBounded
  <2>4. Cardinality({l \in leases' : l.account = a}) <= Cardinality(OfAccount(a))
    BY <2>1, <2>2, FS_Subset
  <2>5. Cardinality({l \in leases' : l.account = a}) \in Nat /\ Cardinality(OfAccount(a)) \in Nat
    BY <2>1, <2>2, FS_Subset, FS_CardinalityType
  <2> QED
    BY <2>3, <2>4, <2>5, Limits
<1>4. used' + Cardinality(leases') < MaxUses + MaxConcurrent * Cardinality(Accounts)
  BY <1>2, Limits DEF QuotaInv, QuotaTyped, UsesBounded
<1>. QED
  BY <1>1, <1>3, <1>4 DEF QuotaInv, QuotaTyped, UsesBounded, OfAccount

LEMMA AcquireBounded ==
  ASSUME QuotaInv, NEW l \in Lease, Acquire(l)
  PROVE  QuotaInv'
<1>1. IsFiniteSet(leases \ stale) /\ leases \ stale \in SUBSET Lease
  BY FS_Subset DEF QuotaInv, QuotaTyped
<1>2. leases' = (leases \ stale) \cup {l} /\ stale' = {} /\ used' = used
  BY DEF Acquire
<1>3. IsFiniteSet(leases') /\ leases' \in SUBSET Lease
  BY <1>1, <1>2, FS_AddElement
<1>4. ASSUME NEW a \in Accounts
      PROVE  Cardinality({k \in leases' : k.account = a}) <= MaxConcurrent
  <2> DEFINE S == OfAccount(a) \ stale
  <2>1. IsFiniteSet(S) /\ IsFiniteSet(OfAccount(a)) /\ S \in SUBSET OfAccount(a)
    BY FS_Subset DEF QuotaInv, QuotaTyped, OfAccount
  <2>2. Cardinality(S) \in Nat /\ Cardinality(OfAccount(a)) \in Nat
    BY <2>1, FS_CardinalityType
  <2>3. CASE l.account = a
    <3>1. {k \in leases' : k.account = a} = S \cup {l}
      BY <1>2, <2>3 DEF OfAccount
    <3>2. Cardinality(S) < MaxConcurrent
      BY <2>3 DEF Acquire, Admits
    <3>3. Cardinality(S \cup {l}) <= Cardinality(S) + 1
      <4> HIDE DEF S
      <4>1. Cardinality(S \cup {l}) = IF l \in S THEN Cardinality(S) ELSE Cardinality(S) + 1
        BY <2>1, FS_AddElement
      <4> QED
        BY <4>1, <2>2
    <3>4. Cardinality(S \cup {l}) \in Nat
      BY <2>1, FS_AddElement, FS_CardinalityType
    <3>5. Cardinality(S \cup {l}) <= MaxConcurrent
      <4> HIDE DEF S
      <4> QED
        BY <3>2, <3>3, <3>4, <2>2, Limits
    <3> QED
      BY <3>1, <3>5
  <2>4. CASE l.account # a
    <3>1. {k \in leases' : k.account = a} = S
      BY <1>2, <2>4 DEF OfAccount
    <3>2. Cardinality(S) <= Cardinality(OfAccount(a))
      BY <2>1, FS_Subset
    <3>3. Cardinality(OfAccount(a)) <= MaxConcurrent
      BY DEF QuotaInv, UsesBounded
    <3>4. Cardinality(S) <= MaxConcurrent
      <4> HIDE DEF S
      <4> QED
        BY <3>2, <3>3, <2>2, Limits
    <3> QED
      BY <3>1, <3>4
  <2> QED
    BY <2>3, <2>4
<1>5. Cardinality(leases') <= MaxConcurrent * Cardinality(Accounts)
  BY <1>3, <1>4, FewLeases
<1>6. used < MaxUses /\ used \in Nat
  BY DEF Acquire, Admits, QuotaInv, QuotaTyped
<1>7. Cardinality(leases') \in Nat
  BY <1>3, FS_CardinalityType
<1>8. used' + Cardinality(leases') < MaxUses + MaxConcurrent * Cardinality(Accounts)
  BY <1>2, <1>5, <1>6, <1>7, Limits
<1>. QED
  BY <1>2, <1>3, <1>4, <1>6, <1>8 DEF QuotaInv, QuotaTyped, UsesBounded, OfAccount

LEMMA ReleaseBounded ==
  ASSUME QuotaInv, NEW l, Release(l)
  PROVE  QuotaInv'
<1>1. CASE l \in leases
  <2>1. leases' = leases \ {l} /\ stale' = stale \ {l} /\ used' = used + 1
    BY <1>1 DEF Release
  <2>2. Cardinality(leases') = Cardinality(leases) - 1 /\ Cardinality(leases) \in Nat
    BY <1>1, <2>1, FS_RemoveElement, FS_CardinalityType DEF QuotaInv, QuotaTyped
  <2>3. used \in Nat /\ stale \in SUBSET leases
    BY DEF QuotaInv, QuotaTyped
  <2>4. used' \in Nat /\ used' + Cardinality(leases') <= used + Cardinality(leases)
    BY <2>1, <2>2, <2>3
  <2>5. stale' \in SUBSET leases' /\ {l} \in SUBSET leases
    BY <1>1, <2>1, <2>3
  <2> QED
    BY <2>1, <2>4, <2>5, FewerLeases
<1>2. CASE l \notin leases
  BY <1>2 DEF Release, quota, QuotaInv, QuotaTyped, UsesBounded, OfAccount
<1>. QED
  BY <1>1, <1>2

LEMMA QuotaKept ==
  ASSUME QuotaInv, UNCHANGED quota
  PROVE  QuotaInv'
BY DEF quota, QuotaInv, QuotaTyped, UsesBounded, OfAccount

LEMMA RefuseBounded ==
  ASSUME QuotaInv, NEW a, Refuse(a)
  PROVE  QuotaInv'
<1>1. PICK D \in {{}, stale} : leases' = leases \ D
  BY DEF Refuse
<1>2. D \in SUBSET leases /\ stale' \in SUBSET leases' /\ used' = used /\ used \in Nat
  BY <1>1 DEF Refuse, QuotaInv, QuotaTyped
<1>3. Cardinality(leases') <= Cardinality(leases)
  BY <1>1, FS_Subset DEF QuotaInv, QuotaTyped
<1>4. Cardinality(leases') \in Nat /\ Cardinality(leases) \in Nat
  BY <1>1, FS_Subset, FS_CardinalityType DEF QuotaInv, QuotaTyped
<1>. QED
  BY <1>1, <1>2, <1>3, <1>4, FewerLeases

LEMMA QuotaMovesBounded ==
  ASSUME QuotaInv, QuotaMoves
  PROVE  QuotaInv'
<1>1. leases' = leases /\ stale' \in SUBSET leases /\ used' \in Nat /\ used' <= used
  BY DEF QuotaMoves, WindowMoves, HolderOutrun, HolderGone, LeaseLapses, QuotaInv, QuotaTyped
<1>2. Cardinality(leases) \in Nat /\ used \in Nat
  BY FS_CardinalityType DEF QuotaInv, QuotaTyped
<1>3. used' + Cardinality(leases') <= used + Cardinality(leases)
  BY <1>1, <1>2
<1>. QED
  BY <1>1, <1>3, FewerLeases, {} \in SUBSET leases, leases \ {} = leases

-----------------------------------------------------------------------------
(* The inductive invariant of the runs.                                     *)

Active(w) == exec[w].pc # "idle"
Current(w) == Active(w) /\ exec[w].fence = run[exec[w].run].fence

\* A claim is of the past or the last one of its run, and no two are the same.
ClaimsDiffer ==
  /\ \A w \in Workers : Active(w) => exec[w].fence <= run[exec[w].run].fence
  /\ \A v, w \in Workers : Active(v) /\ Active(w) /\ v # w /\ exec[v].run = exec[w].run
                             => exec[v].fence # exec[w].fence

\* The owner's last decision was before the claim of a running run.
RunsDecided ==
  \A r \in Runs :
    /\ decided[r] <= run[r].fence
    /\ run[r].status = "running" => decided[r] < run[r].fence
    /\ run[r].status # "running" => run[r].lease = "none"

\* What the last claim has listed is what its execution, or the completed run, has.
ListingStands ==
  /\ \A w \in Workers : Current(w) /\ exec[w].pc = "analyze" =>
                            exec[w].page = listed[exec[w].run]
  /\ \A r \in Runs : run[r].status = "completed" => \A w \in Workers : exec[w].run = r => ~Current(w)

Typed ==
  /\ conn \in [Accounts -> {"usable", "stopped"}]
  /\ run \in [Runs -> Run]
  /\ exec \in [Workers -> Exec]
  /\ events \in 0 .. MaxEvents
  /\ listed \in [Runs -> SUBSET Messages]
  /\ decided \in [Runs -> Nat]

RunInv == ClaimsDiffer /\ RunsDecided /\ ListingStands /\ OutcomeIsOfLastClaim /\ CompletedIsReviewed

Inv == QuotaInv /\ Typed /\ RunInv

LEMMA IdleTyped == Idle \in Exec /\ Idle.pc = "idle"
BY RunAssumption DEF Idle, Exec, Pc

LEMMA HeldTyped ==
  ASSUME Typed, NEW w \in Workers
  PROVE  Held(w) \in Lease /\ Held(w).account \in Accounts /\ exec[w].run \in Runs
<1>1. exec[w] \in Exec
  BY DEF Typed
<1>2. exec[w].run \in Runs /\ exec[w].fence \in Nat
  BY <1>1 DEF Exec
<1>3. AccountOf[exec[w].run] \in Accounts
  BY <1>2, RunAssumption
<1>. QED
  BY <1>2, <1>3 DEF Held, Lease

LEMMA HappensTyped ==
  ASSUME Typed, Happens \/ UNCHANGED events
  PROVE  events' \in 0 .. MaxEvents
BY EventAssumption DEF Typed, Happens

-----------------------------------------------------------------------------
(* Steps that leave the rows alone.                                         *)

\* An execution goes on to a place other than the analysis, or returns.
LEMMA ExecMoves ==
  ASSUME Typed, RunInv, NEW w \in Workers, NEW e \in Exec,
         exec' = [exec EXCEPT ![w] = e],
         e.pc # "analyze",
         e.pc # "idle" => Active(w) /\ e.run = exec[w].run /\ e.fence = exec[w].fence,
         UNCHANGED <<run, listed, decided>>
  PROVE  exec' \in [Workers -> Exec] /\ RunInv'
<1>1. exec' \in [Workers -> Exec] /\ exec'[w] = e /\ \A v \in Workers \ {w} : exec'[v] = exec[v]
  BY DEF Typed
<1>2. \A v \in Workers : exec'[v].pc # "idle" =>
        /\ Active(v) /\ exec'[v].run = exec[v].run /\ exec'[v].fence = exec[v].fence
        /\ exec'[v].pc = "analyze" => exec'[v] = exec[v]
  BY <1>1 DEF Active
<1>3. ClaimsDiffer'
  BY <1>2 DEF RunInv, ClaimsDiffer, Active
<1>4. ListingStands'
  BY <1>2 DEF RunInv, ListingStands, Current, Active
<1>5. RunsDecided' /\ OutcomeIsOfLastClaim' /\ CompletedIsReviewed'
  BY DEF RunInv, RunsDecided, OutcomeIsOfLastClaim, CompletedIsReviewed
<1>. QED
  BY <1>1, <1>3, <1>4, <1>5 DEF RunInv

LEMMA GoesOn ==
  ASSUME Typed, RunInv, NEW w \in Workers, Active(w), NEW pc \in Pc \ {"idle", "analyze"},
         Goto(w, pc), UNCHANGED <<run, listed, decided>>
  PROVE  exec' \in [Workers -> Exec] /\ RunInv'
<1> DEFINE e == [exec[w] EXCEPT !.pc = pc]
<1>1. exec[w] \in Exec
  BY DEF Typed
<1>2. e \in Exec /\ e.pc = pc /\ e.run = exec[w].run /\ e.fence = exec[w].fence
  BY <1>1 DEF Exec
<1>3. exec' = [exec EXCEPT ![w] = e]
  BY DEF Goto
<1> HIDE DEF e
<1>. QED
  BY <1>2, <1>3, ExecMoves

LEMMA Returns ==
  ASSUME Typed, RunInv, NEW w \in Workers, Return(w), UNCHANGED <<run, listed, decided>>
  PROVE  exec' \in [Workers -> Exec] /\ RunInv'
<1>1. Idle \in Exec /\ Idle.pc = "idle"
  BY IdleTyped
<1>2. exec' = [exec EXCEPT ![w] = Idle]
  BY DEF Return
<1>. QED
  BY <1>1, <1>2, ExecMoves

LEMMA Unmoved ==
  ASSUME RunInv, UNCHANGED <<exec, run, listed, decided>>
  PROVE  RunInv'
BY DEF RunInv, ClaimsDiffer, RunsDecided, ListingStands, OutcomeIsOfLastClaim, CompletedIsReviewed,
       Current, Active

-----------------------------------------------------------------------------
(* Steps of the owner, the clock and claims.                                *)

\* A row that does not start to run changes, and keeps its claim and its result.
LEMMA RowChanges ==
  ASSUME Typed, RunInv, NEW r \in Runs, NEW x \in Run, NEW d \in Nat,
         run' = [run EXCEPT ![r] = x], decided' = [decided EXCEPT ![r] = d],
         UNCHANGED <<exec, listed>>,
         x.fence = run[r].fence, x.status \notin {"completed", "failed"}, d <= x.fence,
         x.status = "running" => run[r].status = "running" /\ d = decided[r],
         x.status # "running" => x.lease = "none"
  PROVE  run' \in [Runs -> Run] /\ decided' \in [Runs -> Nat] /\ RunInv'
<1>1. run' \in [Runs -> Run] /\ decided' \in [Runs -> Nat]
  BY DEF Typed
<1>2. /\ run'[r] = x /\ decided'[r] = d
      /\ \A q \in Runs \ {r} : run'[q] = run[q] /\ decided'[q] = decided[q]
  BY DEF Typed
<1>3. \A q \in Runs : run'[q].fence = run[q].fence
  BY <1>2
<1>4. \A w \in Workers : exec[w].run \in Runs
  BY DEF Typed, Exec
<1>5. ClaimsDiffer'
  BY <1>3, <1>4 DEF RunInv, ClaimsDiffer, Active
<1>6. \A w \in Workers : Current(w)' <=> Current(w)
  BY <1>3, <1>4 DEF Current, Active
<1>7. ListingStands'
  BY <1>2, <1>6 DEF RunInv, ListingStands
<1>8. RunsDecided'
  BY <1>2 DEF RunInv, RunsDecided
<1>9. OutcomeIsOfLastClaim' /\ CompletedIsReviewed'
  BY <1>2 DEF RunInv, OutcomeIsOfLastClaim, CompletedIsReviewed
<1>. QED
  BY <1>1, <1>5, <1>7, <1>8, <1>9 DEF RunInv

LEMMA EnqueueKeeps ==
  ASSUME Inv, NEW r \in Runs, Enqueue(r)
  PROVE  Inv'
<1> DEFINE x == [run[r] EXCEPT !.status = "queued"]
<1>1. run[r] \in Run /\ run[r].status = "none" /\ decided[r] \in Nat
  BY DEF Inv, Typed, Enqueue
<1>2. x \in Run /\ x.status = "queued" /\ x.fence = run[r].fence /\ x.lease = run[r].lease
  BY <1>1 DEF Run, Status
<1>3. run[r].lease = "none" /\ decided[r] <= run[r].fence
  BY <1>1 DEF Inv, RunInv, RunsDecided
<1>4. run' = [run EXCEPT ![r] = x] /\ decided' = [decided EXCEPT ![r] = decided[r]]
  BY DEF Enqueue, Inv, Typed
<1>5. UNCHANGED <<exec, listed>>
  BY DEF Enqueue
<1> HIDE DEF x
<1>6. run' \in [Runs -> Run] /\ decided' \in [Runs -> Nat] /\ RunInv'
  BY <1>1, <1>2, <1>3, <1>4, <1>5, RowChanges DEF Inv
<1>7. QuotaInv'
  BY QuotaKept DEF Inv, Enqueue
<1>. QED
  BY <1>6, <1>7 DEF Inv, Typed, Enqueue

LEMMA OwnerKeeps ==
  ASSUME Inv, NEW r \in Runs, NEW to \in Status, OwnerDecides(r, to)
  PROVE  Inv'
<1> DEFINE x == Moved(r, to)
<1>1. run[r] \in Run /\ run[r].fence \in Nat
  BY DEF Inv, Typed, Run
<1>2. x \in Run /\ x.status = to /\ x.fence = run[r].fence /\ x.lease = "none"
  BY <1>1 DEF Run, Moved
<1>3. /\ x.status \notin {"completed", "failed"} /\ x.status # "running"
      /\ run[r].fence <= x.fence
  BY <1>1, <1>2 DEF OwnerDecides
<1>4. run' = [run EXCEPT ![r] = x] /\ decided' = [decided EXCEPT ![r] = run[r].fence]
  BY DEF OwnerDecides
<1>5. UNCHANGED <<exec, listed>>
  BY DEF OwnerDecides
<1> HIDE DEF x
<1>6. run' \in [Runs -> Run] /\ decided' \in [Runs -> Nat] /\ RunInv'
  BY <1>1, <1>2, <1>3, <1>4, <1>5, RowChanges DEF Inv
<1>7. QuotaInv' /\ events' \in 0 .. MaxEvents
  BY QuotaKept, HappensTyped DEF Inv, OwnerDecides
<1>. QED
  BY <1>6, <1>7 DEF Inv, Typed, OwnerDecides

LEMMA LeaseKeeps ==
  ASSUME Inv, NEW r \in Runs, LeaseRunsOut(r), events' \in 0 .. MaxEvents
  PROVE  Inv'
<1> DEFINE x == [run[r] EXCEPT !.lease = "over"]
<1>1. run[r] \in Run /\ decided[r] \in Nat /\ run[r].lease = "live"
  BY DEF Inv, Typed, LeaseRunsOut
<1>2. x \in Run /\ x.status = run[r].status /\ x.fence = run[r].fence
  BY <1>1 DEF Run
<1>3. run[r].status = "running" /\ decided[r] <= run[r].fence
  BY <1>1 DEF Inv, RunInv, RunsDecided
<1>4. run' = [run EXCEPT ![r] = x] /\ decided' = [decided EXCEPT ![r] = decided[r]]
  BY DEF LeaseRunsOut, Inv, Typed
<1>5. UNCHANGED <<exec, listed>>
  BY DEF LeaseRunsOut
<1> HIDE DEF x
<1>6. run' \in [Runs -> Run] /\ decided' \in [Runs -> Nat] /\ RunInv'
  BY <1>1, <1>2, <1>3, <1>4, <1>5, RowChanges DEF Inv
<1>7. QuotaInv'
  BY QuotaKept DEF Inv, LeaseRunsOut
<1>. QED
  BY <1>6, <1>7 DEF Inv, Typed, LeaseRunsOut

LEMMA ClaimKeeps ==
  ASSUME Inv, NEW w \in Workers, NEW r \in Runs, Claim(w, r)
  PROVE  Inv'
<1> DEFINE x == [run[r] EXCEPT !.status = "running", !.lease = "live", !.fence = Fence(r)]
           e == [Idle EXCEPT !.pc = "acquire", !.run = r, !.fence = Fence(r)]
<1>1. run[r] \in Run /\ run[r].fence \in Nat /\ decided[r] \in Nat
  BY DEF Inv, Typed, Run
<1>0. Fence(r) \in Nat /\ Fence(r) = run[r].fence + 1
  BY <1>1 DEF Fence
<1>2. x \in Run /\ x.status = "running" /\ x.fence = run[r].fence + 1
  BY <1>0, <1>1 DEF Run, Status
<1>3. e \in Exec /\ e.pc = "acquire" /\ e.run = r /\ e.fence = run[r].fence + 1
  BY <1>0, IdleTyped DEF Exec, Pc
<1>4. run' = [run EXCEPT ![r] = x] /\ exec' = [exec EXCEPT ![w] = e]
  BY DEF Claim
<1>5. /\ listed' = [listed EXCEPT ![r] = {}] /\ decided' = decided
      /\ ~Active(w) /\ run[r].status \in {"queued", "running"}
  BY DEF Claim, Active, Claimable
<1> HIDE DEF x, e
<1>6. /\ run' \in [Runs -> Run] /\ exec' \in [Workers -> Exec]
      /\ listed' \in [Runs -> SUBSET Messages] /\ decided' \in [Runs -> Nat]
  BY <1>2, <1>3, <1>4, <1>5 DEF Inv, Typed
<1>7. run'[r] = x /\ exec'[w] = e /\ \A q \in Runs \ {r} : run'[q] = run[q] /\ listed'[q] = listed[q]
  BY <1>4, <1>5 DEF Inv, Typed
<1>8. \A v \in Workers \ {w} : exec'[v] = exec[v]
  BY <1>4 DEF Inv, Typed
<1>9. \A v \in Workers : exec[v].run \in Runs /\ exec[v].fence \in Nat
  BY DEF Inv, Typed, Exec
<1>10. \A q \in Runs : run[q].fence \in Nat
  BY DEF Inv, Typed, Run
<1>11. ClaimsDiffer'
  <2>1. \A v \in Workers : Active(v) => exec[v].fence <= run[exec[v].run].fence
    BY DEF Inv, RunInv, ClaimsDiffer
  <2>2. ASSUME NEW v \in Workers, Active(v)'
        PROVE  exec'[v].fence <= run'[exec'[v].run].fence
    <3>1. CASE v = w
      BY <3>1, <1>1, <1>2, <1>3, <1>7
    <3>2. CASE v # w
      <4>1. exec'[v] = exec[v] /\ Active(v)
        BY <2>2, <3>2, <1>8 DEF Active
      <4> QED
        BY <4>1, <2>1, <1>2, <1>7, <1>9, <1>10
    <3> QED
      BY <3>1, <3>2
  <2>3. ASSUME NEW u \in Workers, NEW v \in Workers, Active(u)', Active(v)', u # v,
               exec'[u].run = exec'[v].run
        PROVE  exec'[u].fence # exec'[v].fence
    <3>1. CASE u # w /\ v # w
      BY <2>3, <3>1, <1>8 DEF Active, Inv, RunInv, ClaimsDiffer
    <3>2. CASE u = w
      <4>1. exec'[v] = exec[v] /\ Active(v) /\ exec[v].run = r
        BY <2>3, <3>2, <1>3, <1>7, <1>8 DEF Active
      <4> QED
        BY <4>1, <3>2, <2>1, <1>1, <1>3, <1>7, <1>9
    <3>3. CASE v = w
      <4>1. exec'[u] = exec[u] /\ Active(u) /\ exec[u].run = r
        BY <2>3, <3>3, <1>3, <1>7, <1>8 DEF Active
      <4> QED
        BY <4>1, <3>3, <2>1, <1>1, <1>3, <1>7, <1>9
    <3> QED
      BY <3>1, <3>2, <3>3
  <2> QED
    BY <2>2, <2>3 DEF ClaimsDiffer
<1>12. RunsDecided'
  BY <1>1, <1>2, <1>5, <1>7 DEF Inv, RunInv, RunsDecided
<1>13. ASSUME NEW v \in Workers, Current(v)', exec'[v].run # r
       PROVE  Current(v) /\ v # w /\ exec'[v] = exec[v]
  BY <1>13, <1>3, <1>7, <1>8, <1>9 DEF Current, Active
<1>14. ASSUME NEW v \in Workers, Current(v)', exec'[v].run = r
       PROVE  v = w
  <2>1. SUFFICES ASSUME v # w PROVE FALSE
    OBVIOUS
  <2>2. exec'[v] = exec[v] /\ Active(v) /\ exec[v].fence = run[r].fence + 1
    BY <1>14, <2>1, <1>2, <1>7, <1>8 DEF Current, Active
  <2>3. exec[v].fence <= run[r].fence
    BY <1>14, <2>2 DEF Inv, RunInv, ClaimsDiffer
  <2> QED
    BY <2>2, <2>3, <1>1
<1>15. ListingStands'
  <2>1. ASSUME NEW v \in Workers, Current(v)', exec'[v].pc = "analyze"
        PROVE  exec'[v].page = listed'[exec'[v].run]
    <3>1. exec'[v].run # r
      BY <2>1, <1>14, <1>3, <1>7
    <3>2. Current(v) /\ exec'[v] = exec[v]
      BY <2>1, <3>1, <1>13
    <3> QED
      BY <2>1, <3>1, <3>2, <1>7, <1>9 DEF Inv, RunInv, ListingStands
  <2>2. ASSUME NEW q \in Runs, run'[q].status = "completed", NEW v \in Workers, exec'[v].run = q
        PROVE  ~Current(v)'
    <3>1. q # r /\ run[q].status = "completed"
      BY <2>2, <1>2, <1>7
    <3> QED
      BY <2>2, <3>1, <1>13 DEF Inv, RunInv, ListingStands
  <2> QED
    BY <2>1, <2>2 DEF ListingStands
<1>16. OutcomeIsOfLastClaim' /\ CompletedIsReviewed'
  BY <1>2, <1>5, <1>7 DEF Inv, RunInv, OutcomeIsOfLastClaim, CompletedIsReviewed
<1>17. QuotaInv'
  BY QuotaKept DEF Inv, Claim
<1>. QED
  BY <1>6, <1>11, <1>12, <1>15, <1>16, <1>17 DEF Inv, RunInv, Typed, Claim

-----------------------------------------------------------------------------
(* Steps of an execution.                                                   *)

\* Steps that change neither a row nor what is listed: the quota, the connections
\* and the place of the execution.
LEMMA LocalStep ==
  ASSUME Inv, NEW w \in Workers,
         \/ BeginSync(w) \/ AcquireUnanswered(w) \/ SyncFails(w) \/ StopAtInjection(w)
         \/ AnalyzeFails(w) \/ ReadBlocked(w) \/ Crash(w)
  PROVE  Inv'
<1>1. Typed /\ RunInv /\ QuotaInv
  BY DEF Inv
<1>2. Held(w) \in Lease /\ Held(w).account \in Accounts
  BY <1>1, HeldTyped
<1>3. events' \in 0 .. MaxEvents
  BY <1>1, HappensTyped DEF BeginSync, AcquireUnanswered, SyncFails, StopAtInjection, AnalyzeFails,
                            ReadBlocked, Crash
<1>4. UNCHANGED <<run, listed, decided>>
  BY DEF BeginSync, AcquireUnanswered, SyncFails, StopAtInjection, AnalyzeFails, ReadBlocked, Crash
<1>5. QuotaInv'
  <2>1. CASE BeginSync(w) \/ AcquireUnanswered(w)
    BY <2>1, <1>1, <1>2, AcquireBounded, RefuseBounded, QuotaKept DEF BeginSync, AcquireUnanswered
  <2>2. CASE SyncFails(w)
    BY <2>2, <1>1, ReleaseBounded DEF SyncFails
  <2>3. CASE StopAtInjection(w) \/ AnalyzeFails(w) \/ ReadBlocked(w) \/ Crash(w)
    BY <2>3, <1>1, QuotaKept DEF StopAtInjection, AnalyzeFails, ReadBlocked, Crash
  <2> QED
    BY <2>1, <2>2, <2>3
<1>6. conn' \in [Accounts -> {"usable", "stopped"}]
  <2>1. CASE SyncFails(w)
    <3>1. conn' \in {conn, [conn EXCEPT ![Held(w).account] = "stopped"]}
      BY <2>1 DEF SyncFails
    <3> QED
      BY <3>1, <1>1, <1>2 DEF Typed
  <2>2. CASE ~SyncFails(w)
    BY <2>2, <1>1 DEF BeginSync, AcquireUnanswered, StopAtInjection, AnalyzeFails, ReadBlocked,
                      Crash, Typed
  <2> QED
    BY <2>1, <2>2
<1>7. \/ \E pc \in Pc \ {"idle", "analyze"} : Active(w) /\ Goto(w, pc)
      \/ Return(w)
  <2>1. {"sync", "blocked", "pause", "fail"} \subseteq Pc \ {"idle", "analyze"}
    BY DEF Pc
  <2>2. CASE Crash(w)
    BY <2>2 DEF Crash
  <2>3. CASE ~Crash(w)
    BY <2>1, <2>3 DEF BeginSync, AcquireUnanswered, SyncFails, StopAtInjection, AnalyzeFails,
                      ReadBlocked, Active
  <2> QED
    BY <2>2, <2>3
<1>8. exec' \in [Workers -> Exec] /\ RunInv'
  BY <1>1, <1>4, <1>7, GoesOn, Returns
<1>. QED
  BY <1>1, <1>3, <1>4, <1>5, <1>6, <1>8 DEF Inv, Typed

LEMMA EndSyncKeeps ==
  ASSUME Inv, NEW w \in Workers, EndSync(w)
  PROVE  Inv'
<1>1. Typed /\ RunInv /\ QuotaInv /\ exec[w].pc = "sync" /\ Active(w)
  BY DEF Inv, EndSync, Active
<1>2. exec[w] \in Exec /\ exec[w].run \in Runs
  BY <1>1, HeldTyped DEF Typed
<1>3. QuotaInv' /\ events' \in 0 .. MaxEvents
  BY <1>1, ReleaseBounded, QuotaKept, HappensTyped DEF EndSync, ReleaseBestEffort
<1>4. UNCHANGED <<conn, run, decided>>
  BY DEF EndSync
<1>5. CASE ~Usable(w)
  <2>1. Goto(w, "blocked") /\ UNCHANGED listed
    BY <1>5 DEF EndSync
  <2>2. exec' \in [Workers -> Exec] /\ RunInv'
    <3>1. "blocked" \in Pc \ {"idle", "analyze"}
      BY DEF Pc
    <3> QED
      BY <3>1, <2>1, <1>1, <1>4, GoesOn
  <2> QED
    BY <2>1, <2>2, <1>1, <1>3, <1>4 DEF Inv, Typed
<1>6. CASE Usable(w)
  <2> DEFINE r == exec[w].run
  <2>1. PICK page \in SUBSET Messages :
          /\ exec' = [exec EXCEPT ![w].pc = "analyze", ![w].page = page]
          /\ listed' = IF exec[w].fence = run[r].fence THEN [listed EXCEPT ![r] = page] ELSE listed
    BY <1>6 DEF EndSync
  <2>2. /\ exec' \in [Workers -> Exec]
        /\ exec'[w].pc = "analyze" /\ exec'[w].page = page
        /\ exec'[w].run = r /\ exec'[w].fence = exec[w].fence
        /\ \A v \in Workers \ {w} : exec'[v] = exec[v]
    BY <2>1, <1>1, <1>2 DEF Typed, Exec, Pc
  <2>3. /\ listed' \in [Runs -> SUBSET Messages]
        /\ \A q \in Runs : listed'[q] # listed[q] => q = r /\ Current(w)
        /\ Current(w) => listed'[r] = page
    BY <2>1, <1>1, <1>2 DEF Typed, Current
  <2>4. \A v \in Workers : /\ Active(v)' <=> Active(v)
                           /\ exec'[v].run = exec[v].run /\ exec'[v].fence = exec[v].fence
    BY <2>2, <1>1 DEF Active
  <2>5. \A v \in Workers : Current(v)' <=> Current(v)
    BY <2>4, <1>4 DEF Current
  <2>6. ClaimsDiffer'
    BY <2>4, <1>1, <1>4 DEF RunInv, ClaimsDiffer
  <2>7. \A v \in Workers : Current(v) /\ Current(w) /\ exec[v].run = r => v = w
    BY <1>1 DEF RunInv, ClaimsDiffer, Current
  <2>8. \A v \in Workers : exec[v].run \in Runs
    BY <1>1 DEF Typed, Exec
  <2>9. ASSUME NEW v \in Workers, Current(v)', exec'[v].pc = "analyze"
        PROVE  exec'[v].page = listed'[exec'[v].run]
    <3>1. CASE v = w
      BY <3>1, <2>9, <2>2, <2>3, <2>5
    <3>2. CASE v # w
      <4>1. exec'[v] = exec[v] /\ Current(v) /\ exec[v].page = listed[exec[v].run]
        BY <3>2, <2>9, <2>2, <2>5, <1>1 DEF RunInv, ListingStands
      <4>2. listed'[exec[v].run] = listed[exec[v].run]
        BY <4>1, <3>2, <2>3, <2>7, <2>8
      <4> QED
        BY <4>1, <4>2
    <3> QED
      BY <3>1, <3>2
  <2>10. ListingStands'
    <3>1. \A q \in Runs : run'[q].status = "completed" =>
            \A v \in Workers : exec'[v].run = q => ~Current(v)'
      BY <2>4, <2>5, <1>1, <1>4 DEF RunInv, ListingStands
    <3> QED
      BY <2>9, <3>1 DEF ListingStands
  <2>11. \A q \in Runs : run[q].status = "completed" => listed'[q] = listed[q]
    BY <2>3, <1>1 DEF RunInv, ListingStands
  <2>12. RunsDecided' /\ OutcomeIsOfLastClaim' /\ CompletedIsReviewed'
    BY <2>11, <1>1, <1>4 DEF RunInv, RunsDecided, OutcomeIsOfLastClaim, CompletedIsReviewed
  <2> QED
    BY <2>2, <2>3, <2>6, <2>10, <2>12, <1>1, <1>3, <1>4 DEF Inv, RunInv, Typed
<1>. QED
  BY <1>5, <1>6

\* The execution that ends its run is the last claim of it, and returns.
LEMMA EndKeeps ==
  ASSUME Typed, RunInv, NEW w \in Workers, Active(w), Return(w),
         NEW to \in {"completed", "failed", "paused"}, NEW m \in SUBSET Messages, Ends(w, to, m),
         to = "completed" => exec[w].pc = "analyze" /\ m = exec[w].page /\ m \cap Injected = {},
         UNCHANGED <<listed, decided>>
  PROVE  exec' \in [Workers -> Exec] /\ run' \in [Runs -> Run] /\ RunInv'
<1> DEFINE r == exec[w].run
           x == [Moved(r, to) EXCEPT !.message_ids = m, !.by = exec[w].fence]
<1>1. exec[w] \in Exec /\ r \in Runs /\ exec[w].fence \in Nat
  BY DEF Typed, Exec
<1>2. run[r] \in Run /\ run[r].fence \in Nat /\ run[r].fence = exec[w].fence
  BY <1>1 DEF Typed, Run, Ends, Fenced
<1>3. /\ x \in Run /\ x.status = to /\ x.fence = run[r].fence /\ x.lease = "none"
      /\ x.by = run[r].fence /\ x.message_ids = m
  BY <1>1, <1>2 DEF Run, Status, Moved
<1>4. run' = [run EXCEPT ![r] = x]
  BY DEF Ends
<1>5. run[r].status = "running" /\ decided[r] < run[r].fence /\ decided[r] \in Nat
  <2>1. run[r].lease # "none"
    BY DEF Ends, Fenced
  <2> QED
    BY <2>1, <1>1 DEF RunInv, RunsDecided, Typed
<1> HIDE DEF x
<1>6. exec' = [exec EXCEPT ![w] = Idle] /\ Idle \in Exec /\ Idle.pc = "idle"
  BY IdleTyped DEF Return
<1>7. /\ exec' \in [Workers -> Exec] /\ run' \in [Runs -> Run]
      /\ run'[r] = x /\ \A q \in Runs \ {r} : run'[q] = run[q]
      /\ ~Active(w)' /\ \A v \in Workers \ {w} : exec'[v] = exec[v]
  BY <1>1, <1>3, <1>4, <1>6 DEF Typed, Active
<1>8. \A q \in Runs : run'[q].fence = run[q].fence
  BY <1>3, <1>7
<1>9. \A v \in Workers : exec[v].run \in Runs
  BY DEF Typed, Exec
<1>10. \A v \in Workers : Active(v)' => v # w /\ Active(v) /\ exec'[v] = exec[v]
  BY <1>7 DEF Active
<1>11. \A v \in Workers : Current(v)' => v # w /\ Current(v) /\ exec'[v] = exec[v]
  BY <1>8, <1>9, <1>10 DEF Current
<1>12. ClaimsDiffer'
  BY <1>8, <1>9, <1>10 DEF RunInv, ClaimsDiffer
<1>13. \A v \in Workers : Current(v)' => exec[v].run # r
  BY <1>2, <1>11 DEF RunInv, ClaimsDiffer, Current
<1>14. ListingStands'
  BY <1>7, <1>9, <1>11, <1>13 DEF RunInv, ListingStands
<1>15. RunsDecided'
  BY <1>3, <1>5, <1>7 DEF RunInv, RunsDecided
<1>16. OutcomeIsOfLastClaim'
  BY <1>3, <1>5, <1>7 DEF RunInv, OutcomeIsOfLastClaim
<1>17. CompletedIsReviewed'
  <2>1. to = "completed" => m = listed[r] /\ m \cap Injected = {}
    BY <1>1, <1>2 DEF RunInv, ListingStands, Current
  <2> QED
    BY <2>1, <1>3, <1>7 DEF RunInv, CompletedIsReviewed
<1>. QED
  BY <1>7, <1>12, <1>14, <1>15, <1>16, <1>17 DEF RunInv

LEMMA EndingKeeps ==
  ASSUME Inv, NEW w \in Workers, Complete(w) \/ Fail(w) \/ PauseRun(w)
  PROVE  Inv'
<1>1. Typed /\ RunInv /\ QuotaInv /\ Active(w)
  BY DEF Inv, Complete, Fail, PauseRun, Active
<1>2. QuotaInv' /\ UNCHANGED <<conn, events, listed, decided>>
  BY <1>1, QuotaKept DEF Complete, Fail, PauseRun
<1>3. exec[w] \in Exec /\ exec[w].run \in Runs /\ exec[w].page \in SUBSET Messages
  BY <1>1 DEF Typed, Exec
<1>4. run[exec[w].run].message_ids \in SUBSET Messages /\ {} \in SUBSET Messages
  BY <1>1, <1>3 DEF Typed, Run
<1>5. CASE Complete(w) /\ run' # run
  <2>1. Ends(w, "completed", exec[w].page) /\ Return(w)
    BY <1>5 DEF Complete
  <2>2. exec[w].pc = "analyze" /\ exec[w].page \cap Injected = {}
    BY <1>5 DEF Complete, Detected
  <2>3. exec' \in [Workers -> Exec] /\ run' \in [Runs -> Run] /\ RunInv'
    BY <2>1, <2>2, <1>1, <1>2, <1>3, EndKeeps
  <2> QED
    BY <2>3, <1>1, <1>2 DEF Inv, Typed
<1>6. CASE Complete(w) /\ run' = run
  <2>1. (Ends(w, "completed", exec[w].page) /\ Return(w)) \/ Goto(w, "fail")
    BY <1>6 DEF Complete
  <2>2. CASE Return(w)
    <3>1. exec' \in [Workers -> Exec] /\ RunInv'
      BY <2>2, <1>1, <1>2, <1>6, Returns
    <3> QED
      BY <3>1, <1>1, <1>2, <1>6 DEF Inv, Typed
  <2>3. CASE Goto(w, "fail")
    <3>1. "fail" \in Pc \ {"idle", "analyze"}
      BY DEF Pc
    <3>2. exec' \in [Workers -> Exec] /\ RunInv'
      BY <3>1, <2>3, <1>1, <1>2, <1>6, GoesOn
    <3> QED
      BY <3>2, <1>1, <1>2, <1>6 DEF Inv, Typed
  <2> QED
    BY <2>1, <2>2, <2>3
<1>7. CASE (Fail(w) \/ PauseRun(w)) /\ run' = run
  <2>1. Return(w)
    BY <1>7 DEF Fail, PauseRun
  <2>2. exec' \in [Workers -> Exec] /\ RunInv'
    BY <2>1, <1>1, <1>2, <1>7, Returns
  <2> QED
    BY <2>2, <1>1, <1>2, <1>7 DEF Inv, Typed
<1>8. CASE (Fail(w) \/ PauseRun(w)) /\ run' # run
  <2>1. /\ Return(w)
        /\ Ends(w, "failed", {}) \/ Ends(w, "paused", run[exec[w].run].message_ids)
    BY <1>8 DEF Fail, PauseRun
  <2>2. exec' \in [Workers -> Exec] /\ run' \in [Runs -> Run] /\ RunInv'
    BY <2>1, <1>1, <1>2, <1>4, EndKeeps
  <2> QED
    BY <2>2, <1>1, <1>2 DEF Inv, Typed
<1>. QED
  BY <1>5, <1>6, <1>7, <1>8

-----------------------------------------------------------------------------
(* Theorems.                                                                *)

LEMMA InvInit == Init => Inv
<1> SUFFICES ASSUME Init PROVE Inv
  OBVIOUS
<1>1. QuotaInv
  <2>1. leases = {} /\ stale = {} /\ used = 0
    BY DEF Init, QuotaInit
  <2>2. IsFiniteSet({}) /\ Cardinality({}) = 0
    BY FS_EmptySet
  <2>3. \A a \in Accounts : OfAccount(a) = {}
    BY <2>1 DEF OfAccount
  <2>4. used + Cardinality(leases) < MaxUses + MaxConcurrent * Cardinality(Accounts)
    BY <2>1, <2>2, Limits
  <2>5. ASSUME NEW a \in Accounts
        PROVE  Cardinality(OfAccount(a)) <= MaxConcurrent
    <3>1. Cardinality(OfAccount(a)) = 0
      BY <2>2, <2>3
    <3> QED
      BY <3>1, Limits
  <2> QED
    BY <2>1, <2>2, <2>4, <2>5 DEF QuotaInv, QuotaTyped, UsesBounded
<1>2. Typed
  <2>1. NewRun \in Run
    BY DEF NewRun, Run, Status
  <2> QED
    BY <2>1, IdleTyped, EventAssumption DEF Init, Typed
<1>3. RunInv
  <2>1. \A w \in Workers : ~Active(w)
    BY IdleTyped DEF Init, Active
  <2>2. \A r \in Runs : run[r] = NewRun /\ decided[r] = 0
    BY DEF Init
  <2> QED
    BY <2>1, <2>2 DEF RunInv, ClaimsDiffer, RunsDecided, ListingStands, OutcomeIsOfLastClaim,
                      CompletedIsReviewed, Current, NewRun
<1>. QED
  BY <1>1, <1>2, <1>3 DEF Inv

LEMMA InvNext == Inv /\ [Next]_vars => Inv'
<1> SUFFICES ASSUME Inv, [Next]_vars PROVE Inv'
  OBVIOUS
<1>1. ASSUME NEW r \in Runs, LeaseOutrun(r) \/ LeaseAbandoned(r)
      PROVE  Inv'
  <2>1. events' \in 0 .. MaxEvents
    BY <1>1, HappensTyped DEF LeaseOutrun, LeaseAbandoned, Inv
  <2> QED
    BY <1>1, <2>1, LeaseKeeps DEF LeaseOutrun, LeaseAbandoned
<1>2. ASSUME NEW a \in Accounts, ConnectionChanges(a)
      PROVE  Inv'
  <2>1. QuotaInv' /\ RunInv' /\ events' \in 0 .. MaxEvents
    BY <1>2, QuotaKept, Unmoved, HappensTyped DEF Inv, ConnectionChanges
  <2>2. conn' \in [Accounts -> {"usable", "stopped"}]
    BY <1>2 DEF ConnectionChanges, Inv, Typed
  <2> QED
    BY <1>2, <2>1, <2>2 DEF Inv, Typed, ConnectionChanges
<1>3. ASSUME NEW w \in Workers, Step(w) \/ Crash(w)
      PROVE  Inv'
  BY <1>3, LocalStep, EndSyncKeeps, EndingKeeps DEF Step
<1>4. CASE QuotaMoves
  <2>1. QuotaInv' /\ RunInv'
    BY <1>4, QuotaMovesBounded, Unmoved DEF Inv, QuotaMoves
  <2>2. events' \in 0 .. MaxEvents
    BY <1>4, HappensTyped DEF Inv, QuotaMoves, HolderOutrun, HolderGone
  <2> QED
    BY <1>4, <2>1, <2>2 DEF Inv, Typed, QuotaMoves
<1>5. CASE UNCHANGED vars
  <2>1. QuotaInv' /\ RunInv'
    BY <1>5, QuotaKept, Unmoved DEF Inv, vars
  <2> QED
    BY <1>5, <2>1 DEF Inv, Typed, vars
<1>. QED
  BY <1>1, <1>2, <1>3, <1>4, <1>5, EnqueueKeeps, OwnerKeeps, ClaimKeeps DEF Next

\* Inv always holds.
THEOREM Invariance == Spec => []Inv
BY InvInit, InvNext, PTL DEF Spec

\* Rows, executions and leases are always of their types (the rows of
\* mail_autonomy_runs and mail_quota_leases, and what run_autonomy_job keeps).
THEOREM TypeCorrect == Spec => []TypeOK
<1>1. Inv => TypeOK
  BY DEF Inv, Typed, QuotaInv, QuotaTyped, TypeOK
<1>. QED
  BY <1>1, Invariance, PTL

\* No execution but the last claim, made after the owner's last decision, gives a
\* run its outcome (complete_autonomy_run, pause_autonomy_run, claim_autonomy_run).
THEOREM LastClaimDecides == Spec => []OutcomeIsOfLastClaim
<1>1. Inv => OutcomeIsOfLastClaim
  BY DEF Inv, RunInv
<1>. QED
  BY <1>1, Invariance, PTL

\* A completed run reports what its last claim listed, and no injected message
\* (run_claimed, complete_autonomy_run).
THEOREM ReportIsReviewed == Spec => []CompletedIsReviewed
<1>1. Inv => CompletedIsReviewed
  BY DEF Inv, RunInv
<1>. QED
  BY <1>1, Invariance, PTL

\* The leases of an account stay within max_concurrent, and the uses of a window
\* within its limit and what is in flight (InMemoryQuotaPort, PostgresQuotaPort).
THEOREM QuotaBounded == Spec => []UsesBounded
<1>1. Inv => UsesBounded
  BY DEF Inv, QuotaInv
<1>. QED
  BY <1>1, Invariance, PTL
================================================================================
