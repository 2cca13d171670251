---------------------------- MODULE MailDispatch ----------------------------
(***************************************************************************)
(* What the send path promises, with no drafts, leases or workers: a       *)
(* draft is dispatched once, its message reaches the provider at most      *)
(* once, and the reported outcome agrees with the provider or says that it *)
(* is uncertain.  MailOutbox implements this.                              *)
(***************************************************************************)
EXTENDS Naturals

CONSTANTS Messages,  \* what may be dispatched
          DraftOf    \* the draft of each message

VARIABLES outcome, delivered

dispatchVars == <<outcome, delivered>>

Outcomes == {"none", "pending", "uncertain", "sent", "failed", "manual"}

DispatchTypeOK ==
  /\ outcome \in [Messages -> Outcomes]
  /\ delivered \in [Messages -> {0, 1}]

DispatchInit ==
  /\ outcome = [m \in Messages |-> "none"]
  /\ delivered = [m \in Messages |-> 0]

\* Whether the provider has accepted a message of the draft of m.
DraftDelivered(m) == \E n \in Messages : DraftOf[n] = DraftOf[m] /\ delivered[n] = 1

Request(m) ==
  /\ outcome[m] = "none"
  /\ ~DraftDelivered(m)
  /\ outcome' = [outcome EXCEPT ![m] = "pending"]
  /\ UNCHANGED delivered

Deliver(m) ==
  /\ outcome[m] = "pending"
  /\ ~DraftDelivered(m)
  /\ delivered' = [delivered EXCEPT ![m] = 1]
  /\ UNCHANGED outcome

\* A pending message ends in an outcome that agrees with the provider, or in doubt.
Settle(m) ==
  /\ outcome[m] = "pending"
  /\ outcome' \in {[outcome EXCEPT ![m] = o] :
                     o \in {"uncertain", IF delivered[m] = 1 THEN "sent" ELSE "failed"}}
  /\ UNCHANGED delivered

\* Reconciliation ends the doubt: as sent, as not sent and pending again, or by hand.
Resolve(m) ==
  /\ outcome[m] = "uncertain"
  /\ outcome' \in {[outcome EXCEPT ![m] = o] :
                     o \in {"manual", IF delivered[m] = 1 THEN "sent" ELSE "pending"}}
  /\ UNCHANGED delivered

DispatchNext == \E m \in Messages : Request(m) \/ Deliver(m) \/ Settle(m) \/ Resolve(m)

DispatchSpec == DispatchInit /\ [][DispatchNext]_dispatchVars
=============================================================================
