------------------------------ MODULE MCInbox ------------------------------
(* Small instances of MailSubscription and of MailThreads for TLC. The two   *)
(* share no state: a behaviour is one of the first or one of the second.     *)
EXTENDS MailSubscription, MailThreads, TLC

CONSTANTS c1, s1, w1, m1, m2, m3, m4, e1, e2

\* Two messages in one thread, one in each of two others that have the date of the older.
Threaded == (m1 :> 1) @@ (m2 :> 2) @@ (m3 :> 1) @@ (m4 :> 3)
ReceivedAt == (m1 :> 1) @@ (m2 :> 1) @@ (m3 :> 2) @@ (m4 :> 1)

Symmetry == Permutations(Syncs)

VARIABLE part  \* which of the two the behaviour is one of

bothVars == <<part, vars, inboxVars>>

BothInit ==
  /\ part \in {"folder", "inbox"}
  /\ Init /\ InboxInit
  /\ part = "inbox" => ~overlapping

FolderPart == part = "folder" /\ Next /\ UNCHANGED <<part, inboxVars>>
InboxPart == part = "inbox" /\ InboxNext /\ UNCHANGED <<part, vars>>

BothNext == FolderPart \/ InboxPart

BothSpec == BothInit /\ [][BothNext]_bothVars
=============================================================================
