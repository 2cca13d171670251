----------------------------- MODULE MCMailFlow -----------------------------
(* Small instances of MailOutbox and of ProviderFeed for TLC: mail that goes  *)
(* out and mail that comes in. The two share no state: a behaviour is one of  *)
(* the first or one of the second.                                            *)
EXTENDS MailOutbox, ProviderFeed

CONSTANTS w1, c1, c2, m1, m2, m3

OneName == [w \in Workers |-> "mail-worker"]
OwnDigest == [x \in Contents |-> x]

VARIABLE part  \* which of the two the behaviour is one of

flowVars == <<part, vars, feedVars>>

\* An empty mailbox whose cursor is where its log ends.
FeedAtRest ==
  /\ kind = "graph" /\ log = <<>> /\ stale = FALSE
  /\ cursor = [pos |-> 0, base |-> 0] /\ stored = {}
  /\ sync = IdleSync /\ excused = {} /\ faults = 0

FlowInit ==
  /\ part \in {"outbox", "feed"}
  /\ Init
  /\ part = "feed" => draft["d1"].content = "plain"
  /\ IF part = "feed" THEN FeedInit ELSE FeedAtRest

OutboxPart == part = "outbox" /\ Next /\ UNCHANGED <<part, feedVars>>
FeedPart == part = "feed" /\ FeedNext /\ UNCHANGED <<part, vars>>

FlowNext == OutboxPart \/ FeedPart

\* The fairness of FairFeedSpec, where it belongs.
FlowSpec ==
  /\ FlowInit /\ [][FlowNext]_flowVars
  /\ WF_feedVars(part = "feed" /\ SyncStep)
=============================================================================
