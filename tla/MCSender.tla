------------------------------ MODULE MCSender ------------------------------
(* Small instances of MailOutbox and of SenderCutover for TLC. The two share  *)
(* no state: a behaviour is one of the first or one of the second.            *)
EXTENDS MailOutbox, SenderCutover, TLC

CONSTANTS w1, c1, c2, b1, b2, b3, o1, o2

OneName == [w \in Workers |-> "mail-worker"]

\* A draft that differs from "plain" in its subject alone has its digest.
Digested == [x \in Contents |-> IF x = "retitled" THEN "plain" ELSE x]

OwnerOfBatch == (b1 :> o1) @@ (b2 :> o2) @@ (b3 :> o1)

\* The callers of the outbox and the calls of the controller have the same names.
Symmetry == Permutations(Callers)

VARIABLE part  \* which of the two the behaviour is one of

senderVars == <<part, vars, cutoverVars>>

SenderInit ==
  /\ part \in {"outbox", "cutover"}
  /\ Init /\ CutoverInit
  /\ part = "outbox" => interlock = "process"
  /\ part = "cutover" => draft["d1"].content = "plain"

OutboxPart == part = "outbox" /\ Next /\ UNCHANGED <<part, cutoverVars>>
CutoverPart == part = "cutover" /\ CutoverNext /\ UNCHANGED <<part, vars>>

SenderNext == OutboxPart \/ CutoverPart

SenderSpec == SenderInit /\ [][SenderNext]_senderVars
=============================================================================
