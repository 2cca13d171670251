--------------------------- MODULE SenderCutover ---------------------------
(***************************************************************************)
(* Who may send for one mailbox while it moves from an old system to        *)
(* MailHub: the lease of the sender interlock (the table of                 *)
(* PostgresSenderInterlockAdapter behind the host's routes, or the          *)
(* process-local NoDualSenderInterlock) and the batches of the              *)
(* MigrationControllers that claim and release it. A controller keeps its   *)
(* batches in memory and awaits the interlock between reading a batch and   *)
(* replacing it.                                                            *)
(***************************************************************************)
EXTENDS Integers, FiniteSets

CONSTANTS
  Batches,   \* migration batches of the mailbox
  OwnerOf,   \* the owner each batch claims the lease for
  Calls,     \* claim_send_authority and release_send_authority in flight
  NoOwner,   \* nobody holds the lease
  MaxLeases  \* bound: leases given out

ASSUME BatchAssumption == Batches # {}
ASSUME OwnerAssumption == NoOwner \notin {OwnerOf[b] : b \in Batches}
ASSUME LeaseAssumption == MaxLeases \in Nat

VARIABLES
  interlock,  \* "postgres" or "process"
  lease,      \* mail_sender_leases, or the lock and its owner
  batch,      \* MigrationController.batches
  turn,       \* what each call is at
  lapsed,     \* history: batches whose lease ran out or was released by another call
  overlapped, \* history: batches that two calls were at work on at once
  undone      \* history: batches claimed after they were rolled back

cutoverVars == <<interlock, lease, batch, turn, lapsed, overlapped, undone>>

Senders == {OwnerOf[b] : b \in Batches}
BatchState == {"none", "planned", "send_claimed", "rolled_back"}
Lease == [owner : Senders \cup {NoOwner}, live : BOOLEAN, fence : Nat]
Turn == [pc : {"idle", "claim", "claimed", "release", "released"}, batch : Batches]

CutoverTypeOK ==
  /\ interlock \in {"postgres", "process"}
  /\ lease \in Lease
  /\ batch \in [Batches -> BatchState]
  /\ turn \in [Calls -> Turn]
  /\ lapsed \in SUBSET Batches
  /\ overlapped \in SUBSET Batches
  /\ undone \in SUBSET Batches

CutoverInit ==
  /\ interlock \in {"postgres", "process"}
  /\ lease = [owner |-> NoOwner, live |-> FALSE, fence |-> 0]
  /\ batch = [b \in Batches |-> "none"]
  /\ turn = [c \in Calls |-> [pc |-> "idle", batch |-> CHOOSE b \in Batches : TRUE]]
  /\ lapsed = {}
  /\ overlapped = {}
  /\ undone = {}

InFlight(b) == \E c \in Calls : turn[c].pc # "idle" /\ turn[c].batch = b
Moves(c, pc) == turn' = [turn EXCEPT ![c].pc = pc]

\* A batch that was started is answered as it is.
StartBatch(b) ==
  /\ batch[b] = "none"
  /\ batch' = [batch EXCEPT ![b] = "planned"]
  /\ UNCHANGED <<interlock, lease, turn, lapsed, overlapped, undone>>

Enters(c, b, pc) ==
  /\ turn[c].pc = "idle"
  /\ turn' = [turn EXCEPT ![c] = [pc |-> pc, batch |-> b]]
  /\ overlapped' = IF InFlight(b) THEN overlapped \cup {b} ELSE overlapped
  /\ UNCHANGED <<interlock, lease, batch, lapsed, undone>>

\* A claimed batch answers TRUE from its own state, without the interlock.
ClaimSendAuthority(c, b) == batch[b] = "planned" /\ Enters(c, b, "claim")

ReleaseSendAuthority(c, b) ==
  batch[b] \in {"planned", "send_claimed"} /\ Enters(c, b, "release")

-----------------------------------------------------------------------------
(* The interlock.                                                          *)

\* Mutation of Grants: the claim does not ask whether another's lease still runs.
GrantsAnyone(o) == o \in Senders /\ (interlock = "postgres" \/ lease.owner = NoOwner)

\* In PostgreSQL the owner renews, and anyone takes a lease that has run out; the
\* process-local lock is given once.
Grants(o) ==
  \/ lease.owner = NoOwner
  \/ interlock = "postgres" /\ (lease.owner = o \/ ~lease.live)

\* The batches that count on the lease of an owner.
Relying(o) ==
  {b \in Batches :
     /\ OwnerOf[b] = o
     /\ batch[b] = "send_claimed" \/ \E c \in Calls : turn[c] = [pc |-> "claimed", batch |-> b]}

InterlockClaims(c) ==
  /\ turn[c].pc = "claim"
  /\ LET b == turn[c].batch
         o == OwnerOf[b]
     IN IF Grants(o)
        THEN /\ lease.fence < MaxLeases
             /\ lease' = [owner |-> o, live |-> TRUE, fence |-> lease.fence + 1]
             /\ lapsed' = lapsed \ {b}
             /\ Moves(c, "claimed")
        ELSE Moves(c, "idle") /\ UNCHANGED <<lease, lapsed>>
  /\ UNCHANGED <<interlock, batch, overlapped, undone>>

Freed == lease' = [lease EXCEPT !.owner = NoOwner, !.live = FALSE]

\* The owner's lease goes, whichever of its batches asks. PostgreSQL accepts that there
\* is none; the process-local lock does not. Another owner's is refused.
InterlockReleases(c) ==
  /\ turn[c].pc = "release"
  /\ LET o == OwnerOf[turn[c].batch]
     IN CASE lease.owner = o -> /\ Freed
                                /\ lapsed' = lapsed \cup Relying(o)
                                /\ Moves(c, "released")
          [] lease.owner = NoOwner /\ interlock = "postgres" ->
               Moves(c, "released") /\ UNCHANGED <<lease, lapsed>>
          [] OTHER -> Moves(c, "idle") /\ UNCHANGED <<lease, lapsed>>
  /\ UNCHANGED <<interlock, batch, overlapped, undone>>

\* lease_until passes.
LeaseRunsOut ==
  /\ interlock = "postgres" /\ lease.live
  /\ lease' = [lease EXCEPT !.live = FALSE]
  /\ lapsed' = lapsed \cup Relying(lease.owner)
  /\ UNCHANGED <<interlock, batch, turn, overlapped, undone>>

-----------------------------------------------------------------------------
(* The controller again, with the copy of the batch it read before.         *)

RecordClaim(c) ==
  /\ turn[c].pc = "claimed"
  /\ LET b == turn[c].batch
     IN /\ batch' = [batch EXCEPT ![b] = "send_claimed"]
        /\ undone' = IF batch[b] = "rolled_back" THEN undone \cup {b} ELSE undone
  /\ Moves(c, "idle")
  /\ UNCHANGED <<interlock, lease, lapsed, overlapped>>

RecordRelease(c) ==
  /\ turn[c].pc = "released"
  /\ batch' = [batch EXCEPT ![turn[c].batch] = "rolled_back"]
  /\ Moves(c, "idle")
  /\ UNCHANGED <<interlock, lease, lapsed, overlapped, undone>>

\* The interlock cannot be reached, or its answer is lost.
InterlockFails(c) ==
  /\ interlock = "postgres"
  /\ turn[c].pc # "idle"
  /\ Moves(c, "idle")
  /\ UNCHANGED <<interlock, lease, batch, lapsed, overlapped, undone>>

\* A process loses its batches, and the process-local lock.
ControllerRestarts(bs) ==
  /\ interlock = "process" => bs = Batches
  /\ \E b \in bs : batch[b] # "none"
  /\ batch' = [b \in Batches |-> IF b \in bs THEN "none" ELSE batch[b]]
  /\ turn' = [c \in Calls |-> IF turn[c].batch \in bs THEN [turn[c] EXCEPT !.pc = "idle"]
                              ELSE turn[c]]
  /\ IF interlock = "process" THEN Freed ELSE UNCHANGED lease
  /\ lapsed' = lapsed \ bs
  /\ overlapped' = overlapped \ bs
  /\ undone' = undone \ bs
  /\ UNCHANGED interlock

CallStep(c) ==
  InterlockClaims(c) \/ InterlockReleases(c) \/ RecordClaim(c) \/ RecordRelease(c)

CutoverNext ==
  \/ \E b \in Batches : StartBatch(b)
  \/ \E c \in Calls, b \in Batches : ClaimSendAuthority(c, b) \/ ReleaseSendAuthority(c, b)
  \/ \E c \in Calls : CallStep(c) \/ InterlockFails(c)
  \/ LeaseRunsOut
  \/ \E bs \in SUBSET Batches : ControllerRestarts(bs)

CutoverSpec == CutoverInit /\ [][CutoverNext]_cutoverVars

-----------------------------------------------------------------------------
(* Properties.                                                             *)

\* Two owners both count on being the sender only if the lease of one of them ran out
\* or was released behind the back of the batch that says so: the interlock takes a lease
\* that runs from nobody.
OneSender ==
  \A a, b \in Batches :
    batch[a] = "send_claimed" /\ batch[b] = "send_claimed" /\ OwnerOf[a] # OwnerOf[b]
      => a \in lapsed \/ b \in lapsed

\* A batch that was rolled back claims nothing any more, unless its claim and its release
\* went on side by side.
RolledBackStays == undone \subseteq overlapped

\* A batch that says it has the authority, and has not lost it behind its back, has the
\* lease and it runs, whatever calls, lost answers and restarts came before.
ClaimIsHeld ==
  \A b \in Batches :
    batch[b] = "send_claimed" /\ b \notin lapsed => lease.owner = OwnerOf[b] /\ lease.live

AuthorityIsExclusive == OneSender /\ RolledBackStays /\ ClaimIsHeld
=============================================================================
