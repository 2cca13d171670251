------------------------------- MODULE MailQuota -------------------------------
(***************************************************************************)
(* Quotas of workers: InMemoryQuotaPort and PostgresQuotaPort, as           *)
(* _acquire_quota and _release_quota use them. A lease is a row that its    *)
(* holder gives back when the call ends, and that the next acquisition of   *)
(* the tenant removes when it is past its time. Only what is given back is  *)
(* counted as used.                                                         *)
(*                                                                          *)
(* The leases are those of one subject: the hourly and the daily window     *)
(* count the same uses, so the model has the narrower of the two.           *)
(***************************************************************************)
EXTENDS Integers, FiniteSets

CONSTANTS
  Accounts,       \* provider accounts of the subject
  MaxConcurrent,  \* max_concurrent: leases of an account at a time
  MaxUses         \* max_per_hour or max_per_day: uses of the subject in a window

\* A limit of zero turns the dimension off (QuotaLimits): the model has both.
ASSUME LimitAssumption == MaxConcurrent \in Nat \ {0} /\ MaxUses \in Nat \ {0}
ASSUME AccountAssumption == IsFiniteSet(Accounts)

VARIABLES
  leases,  \* rows of mail_quota_leases that are not released; each names its account
  stale,   \* those of them that are past their time
  used     \* uses in the window

quota == <<leases, stale, used>>

QuotaInit == leases = {} /\ stale = {} /\ used = 0

OfAccount(a) == {l \in leases : l.account = a}

\* Mutation of Admits: the limit is compared after the lease is taken.
AdmitsOneMore(a) ==
  Cardinality(OfAccount(a) \ stale) <= MaxConcurrent /\ used < MaxUses

\* Leases past their time do not count, nor do uses that are still going on.
Admits(a) ==
  Cardinality(OfAccount(a) \ stale) < MaxConcurrent /\ used < MaxUses

Acquire(l) ==
  /\ Admits(l.account)
  /\ leases' = (leases \ stale) \cup {l}
  /\ stale' = {}
  /\ UNCHANGED used

\* RateLimitedError. The in-memory port keeps what it has removed; PostgreSQL
\* rolls the removal back.
Refuse(a) ==
  /\ ~Admits(a)
  /\ leases' \in {leases, leases \ stale}
  /\ stale' = stale \cap leases'
  /\ UNCHANGED used

\* Only a lease whose row is still there is counted.
Release(l) ==
  IF l \in leases
  THEN leases' = leases \ {l} /\ stale' = stale \ {l} /\ used' = used + 1
  ELSE UNCHANGED quota

LeaseLapses(l) ==
  /\ l \in leases \ stale
  /\ stale' = stale \cup {l}
  /\ UNCHANGED <<leases, used>>

\* The oldest use leaves the window.
WindowMoves ==
  /\ used > 0
  /\ used' = used - 1
  /\ UNCHANGED <<leases, stale>>

\* An account never has more leases than its limit, and a window is exceeded by
\* no more than what was under way when its last use was admitted: the ports
\* count the uses that ended, so each account may add what it has in flight.
UsesBounded ==
  /\ \A a \in Accounts : Cardinality(OfAccount(a)) <= MaxConcurrent
  /\ used + Cardinality(leases) < MaxUses + MaxConcurrent * Cardinality(Accounts)
================================================================================
